------------------------------ MODULE FileName ------------------------------
(***************************************************************************)
(* db/filename.cc: the names of the files of a database.  A name is the    *)
(* text before its first digit, the number its digits spell and the text   *)
(* after them; a name that has no digits is its text.                      *)
(***************************************************************************)
EXTENDS Integers

NoDigits == -1
FName(prefix, digits, suffix) == [prefix |-> prefix, digits |-> digits, suffix |-> suffix]
MakeFileName(number, suffix) == FName("", number, suffix)

LogFileName(number) == MakeFileName(number, ".log")
TableFileName(number) == MakeFileName(number, ".ldb")
SSTTableFileName(number) == MakeFileName(number, ".sst")
DescriptorFileName(number) == FName("MANIFEST-", number, "")
CurrentFileName == FName("CURRENT", NoDigits, "")
LockFileName == FName("LOCK", NoDigits, "")
TempFileName(number) == MakeFileName(number, ".dbtmp")
InfoLogFileName == FName("LOG", NoDigits, "")
OldInfoLogFileName == FName("LOG.old", NoDigits, "")

NotOwned == [ok |-> FALSE, number |-> 0, type |-> "none"]
Owned(number, type) == [ok |-> TRUE, number |-> number, type |-> type]

\* ParseFileName; ConsumeDecimalNumber needs at least one digit
ParseFileName(f) ==
  IF f.digits = NoDigits
  THEN CASE f.prefix = "CURRENT" -> Owned(0, "kCurrentFile")
         [] f.prefix = "LOCK" -> Owned(0, "kDBLockFile")
         [] f.prefix \in {"LOG", "LOG.old"} -> Owned(0, "kInfoLogFile")
         [] OTHER -> NotOwned
  ELSE CASE f.prefix = "MANIFEST-" -> IF f.suffix = "" THEN Owned(f.digits, "kDescriptorFile") ELSE NotOwned
         [] f.prefix = "" /\ f.suffix = ".log" -> Owned(f.digits, "kLogFile")
         [] f.prefix = "" /\ f.suffix \in {".sst", ".ldb"} -> Owned(f.digits, "kTableFile")
         [] f.prefix = "" /\ f.suffix = ".dbtmp" -> Owned(f.digits, "kTempFile")
         [] OTHER -> NotOwned

\* Every name the database makes is recognised with its number and kind, and
\* no other is taken for the database's own (ParseFileName)
ASSUME NamesParse ==
  /\ \A n \in 1 .. 3 :
       /\ ParseFileName(LogFileName(n)) = Owned(n, "kLogFile")
       /\ ParseFileName(TableFileName(n)) = Owned(n, "kTableFile")
       /\ ParseFileName(SSTTableFileName(n)) = Owned(n, "kTableFile")
       /\ ParseFileName(DescriptorFileName(n)) = Owned(n, "kDescriptorFile")
       /\ ParseFileName(TempFileName(n)) = Owned(n, "kTempFile")
  /\ \A f \in {CurrentFileName, LockFileName, InfoLogFileName, OldInfoLogFileName} : ParseFileName(f).ok
  /\ \A f \in {FName("MANIFEST-", NoDigits, ""), FName("MANIFEST-", 3, ".log"), FName("", 3, ".bak"),
               FName("foo", 3, ".log"), FName("lost", NoDigits, ""), FName("", 3, "")} :
       ~ParseFileName(f).ok

=============================================================================
