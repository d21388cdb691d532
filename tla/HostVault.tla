----------------------------- MODULE HostVault -----------------------------
(***************************************************************************)
(* The vault of jkr in ~/.jkr/vault, used by processes that do not know of *)
(* each other: a key file, an index, and the one entry the shipped         *)
(* commands write, the analytics database as an encrypted blob.  A full    *)
(* boot opens the database and writes it back; recording a command and     *)
(* `jkr gain` open it again, work on their copy and write that.  `jkr      *)
(* admin reset`, `jkr vault rotate` and `jkr clean-stats` work on the      *)
(* files.  Each step is one system call others can see.                    *)
(***************************************************************************)
EXTENDS CliProxy

Places == {"vault", "rotating", "old"}

\* Contents of the key file, and what a blob is encrypted with.  The key of an
\* empty file is padded to zeros.
NoKeyFile == [made |-> "none", by |-> {}]
EmptyKey  == [made |-> "empty", by |-> {}]
BootKey(p)  == [made |-> "boot", by |-> {p}]
RotateKey(p) == [made |-> "rotate", by |-> {p}]
Key == [made : {"none", "empty", "boot", "rotate"}, by : SUBSET Command]

\* A directory: its key file, its blob with the rows in it, and whether
\* index.json is there and names the blob.
NoDir == [there |-> FALSE]
Dir   == [there : {TRUE}, key : Key, sealed : Key, rows : SUBSET Command,
          index : {"none", "empty", "blob"}]
Fresh == [there |-> TRUE, key |-> NoKeyFile, sealed |-> NoKeyFile, rows |-> {}, index |-> "none"]

VARIABLES
  dirs,      \* place -> the directory there, or NoDir
  todo,      \* the steps an invocation has yet to take in the vault
  key,       \* the master key an invocation holds
  db,        \* the rows of the copy of the database it works on
  due,       \* history: recorded commands nobody asked to delete
  lapped,    \* history: invocations that used the vault while another did
  cut        \* history: a rotation was killed between its renames and its key

vaultVars == <<dirs, todo, key, db, due, lapped, cut>>

Vault == dirs["vault"]
HasBlob(d) == d.sealed # NoKeyFile
Bare(d) == d.key = NoKeyFile /\ ~HasBlob(d) /\ d.index = "none"

(***************************************************************************)
(* upgrade_to_full, then what each command does with the vault.            *)
(***************************************************************************)
Persist == <<"entry", "list">>
Boot == <<"dir", "key", "check", "open">> \o Persist

\* Mutant: a rotation stores its key before it swaps the directories.
StepsKeyFirst(does) ==
  IF does = "rotate" THEN Boot \o <<"copy", "setkey", "writekey", "away", "swap", "drop">>
  ELSE IF does = "gain" THEN Boot \o <<"open">> \o Persist
  ELSE IF does = "reset" THEN Boot \o <<"find">>
  ELSE IF does = "clean" THEN <<"clear">>
  ELSE Boot \o <<"open", "add", "commit">> \o Persist

Steps(does) ==
  CASE does \in Invoked -> Boot \o <<"open", "add", "commit">> \o Persist
    [] does = "gain"   -> Boot \o <<"open">> \o Persist
    [] does = "reset"  -> Boot \o <<"find">>
    [] does = "rotate" -> Boot \o <<"copy", "away", "swap", "drop", "setkey", "writekey">>
    [] does = "clean"  -> <<"clear">>

VaultInit ==
  /\ dirs \in [Places -> {NoDir}]
  /\ todo = [p \in Command |-> <<>>]
  /\ key = [p \in Command |-> NoKeyFile]
  /\ db = [p \in Command |-> {}]
  /\ due = {} /\ lapped = {} /\ cut = FALSE

Users == {p \in Command : todo[p] # <<>>}
At(p, step) == todo[p] # <<>> /\ Head(todo[p]) = step

Goto(p, steps) == todo' = [todo EXCEPT ![p] = steps]
Done(p) == Goto(p, Tail(todo[p]))
Alter(place, d) == dirs' = [dirs EXCEPT ![place] = d]

\* The first step of an invocation in the vault is ahead.
Session(p) ==
  /\ Goto(p, Steps(plan[p].does))
  /\ lapped' = IF Users = {} THEN lapped ELSE lapped \cup Users \cup {p}
  /\ UNCHANGED <<dirs, key, db, due, cut>>

-----------------------------------------------------------------------------
\* create_dir_all
MakeDir(p) ==
  /\ At(p, "dir")
  /\ IF Vault.there THEN UNCHANGED dirs ELSE Alter("vault", Fresh)
  /\ Done(p)
  /\ UNCHANGED <<key, db, due>>

\* init_master_key_if_missing: read the file, or create it and then write to it.
ReadKey(p) ==
  /\ At(p, "key") /\ Vault.there /\ Vault.key # NoKeyFile
  /\ key' = [key EXCEPT ![p] = Vault.key]
  /\ Done(p)
  /\ UNCHANGED <<dirs, db, due>>

NewKey(p) ==
  /\ At(p, "key") /\ (Vault.there => Vault.key = NoKeyFile)
  /\ key' = [key EXCEPT ![p] = BootKey(p)]
  /\ Goto(p, <<"setkey", "writekey">> \o Tail(todo[p]))
  /\ UNCHANGED <<dirs, db, due>>

\* set_master_key: create_dir_all, then fs::write in two steps.
CreateKeyFile(p) ==
  /\ At(p, "setkey")
  /\ Alter("vault", [(IF Vault.there THEN Vault ELSE Fresh) EXCEPT !.key = EmptyKey])
  /\ Done(p)
  /\ UNCHANGED <<key, db, due>>

WriteKey(p) ==
  /\ At(p, "writekey")
  /\ IF Vault.there THEN Alter("vault", [Vault EXCEPT !.key = key[p]]) ELSE UNCHANGED dirs
  /\ Done(p)
  /\ UNCHANGED <<key, db, due>>

\* FsStore::new and reconcile: an index that names a missing entry is rewritten.
Reconcile(p) ==
  /\ At(p, "check")
  /\ IF Vault.there THEN UNCHANGED dirs ELSE Alter("vault", Fresh)
  /\ Goto(p, IF Vault.there /\ Vault.index = "blob" /\ ~HasBlob(Vault)
             THEN <<"trim">> \o Tail(todo[p]) ELSE Tail(todo[p]))
  /\ UNCHANGED <<key, db, due>>

\* Without the directory the boot panics.
Trim(p) ==
  /\ At(p, "trim")
  /\ IF Vault.there THEN Alter("vault", [Vault EXCEPT !.index = "empty"]) /\ Done(p)
                    ELSE Goto(p, <<>>) /\ UNCHANGED dirs
  /\ UNCHANGED <<key, db, due>>

\* SqliteImpl::open: a blob that cannot be read is taken for an empty one.
Open(p) ==
  /\ At(p, "open")
  /\ db' = [db EXCEPT ![p] = IF Vault.there /\ Vault.sealed = key[p] THEN Vault.rows ELSE {}]
  /\ Done(p)
  /\ UNCHANGED <<dirs, key, due>>

\* FsStore::put renames the new entry into place ...
PutEntry(p, rows) ==
  IF Vault.there THEN Alter("vault", [Vault EXCEPT !.sealed = key[p], !.rows = rows]) /\ Done(p)
                 ELSE UNCHANGED dirs /\ Goto(p, Tail(Tail(todo[p])))

\* ... and then the new index.
PutIndex(p) ==
  /\ IF Vault.there THEN Alter("vault", [Vault EXCEPT !.index = "blob"]) ELSE UNCHANGED dirs
  /\ Done(p)

\* Drop for SqliteImpl persists the copy and ignores errors.
DropEntry(p) == At(p, "entry") /\ PutEntry(p, db[p]) /\ UNCHANGED <<key, db, due>>
DropIndex(p) == At(p, "list") /\ PutIndex(p) /\ UNCHANGED <<key, db, due>>

\* record_command_stat_via_host: execute adds the row and persists the copy.
AddRow(p) ==
  /\ At(p, "add")
  /\ db' = [db EXCEPT ![p] = @ \cup {p}]
  /\ PutEntry(p, db[p] \cup {p})
  /\ UNCHANGED <<key, due>>

Commit(p) ==
  /\ At(p, "commit") /\ PutIndex(p)
  /\ due' = IF Vault.there THEN due \cup {p} ELSE due
  /\ UNCHANGED <<key, db>>

-----------------------------------------------------------------------------
\* admin::reset: the entries the index names are deleted.
FindEntries(p) ==
  /\ At(p, "find")
  /\ Goto(p, IF Vault.there /\ Vault.index = "blob" THEN <<"unlist", "unlink">> ELSE <<>>)
  /\ UNCHANGED <<dirs, key, db, due>>

\* FsStore::delete: the index first, then the file.
Unlist(p) ==
  /\ At(p, "unlist")
  /\ IF Vault.there THEN Alter("vault", [Vault EXCEPT !.index = "empty"]) /\ Done(p)
                    ELSE UNCHANGED dirs /\ Goto(p, <<>>)
  /\ due' = {}
  /\ UNCHANGED <<key, db>>

Unlink(p) ==
  /\ At(p, "unlink")
  /\ IF Vault.there THEN Alter("vault", [Vault EXCEPT !.sealed = NoKeyFile, !.rows = {}])
                    ELSE UNCHANGED dirs
  /\ Done(p)
  /\ due' = {}
  /\ UNCHANGED <<key, db>>

\* clean_stats: remove_dir_all takes the files one by one, then the directory;
\* it fails when another invocation puts a file back.
Clear(p) ==
  /\ At(p, "clear")
  /\ \/ /\ Vault.there
        /\ \/ Vault.key # NoKeyFile /\ Alter("vault", [Vault EXCEPT !.key = NoKeyFile])
           \/ HasBlob(Vault) /\ Alter("vault", [Vault EXCEPT !.sealed = NoKeyFile, !.rows = {}])
           \/ Vault.index # "none" /\ Alter("vault", [Vault EXCEPT !.index = "none"])
        /\ UNCHANGED todo
     \/ Vault.there /\ Bare(Vault) /\ Alter("vault", NoDir) /\ Done(p)
     \/ (~Vault.there \/ p \in lapped) /\ UNCHANGED dirs /\ Done(p)
  /\ due' = {}
  /\ UNCHANGED <<key, db>>

-----------------------------------------------------------------------------
\* rotate: the listed entries go to the shadow directory under the new key; one
\* that cannot be decrypted ends the rotation.
Copy(p) ==
  /\ At(p, "copy")
  /\ LET listed == Vault.there /\ Vault.index = "blob" /\ HasBlob(Vault)
         broken == listed /\ Vault.sealed # key[p]
     IN  /\ Alter("rotating", IF listed /\ ~broken
                              THEN [Fresh EXCEPT !.sealed = RotateKey(p), !.rows = Vault.rows,
                                                 !.index = "blob"]
                              ELSE Fresh)
         /\ IF broken THEN Goto(p, <<>>) ELSE Done(p)
  /\ key' = [key EXCEPT ![p] = RotateKey(p)]
  /\ UNCHANGED <<db, due>>

\* The swap of the directories: two renames, and the old one is removed.
Away(p) ==
  /\ At(p, "away")
  /\ IF Vault.there
     THEN dirs' = [dirs EXCEPT !["old"] = Vault, !["vault"] = NoDir] /\ Done(p)
     ELSE dirs' = [dirs EXCEPT !["old"] = NoDir] /\ Goto(p, <<>>)
  /\ UNCHANGED <<key, db, due>>

\* rename replaces an empty directory and fails on another one.
Swap(p) ==
  /\ At(p, "swap")
  /\ IF Vault.there => Bare(Vault)
     THEN dirs' = [dirs EXCEPT !["vault"] = dirs["rotating"], !["rotating"] = NoDir] /\ Done(p)
     ELSE UNCHANGED dirs /\ Goto(p, <<>>)
  /\ UNCHANGED <<key, db, due>>

DropOld(p) ==
  /\ At(p, "drop")
  /\ Alter("old", NoDir)
  /\ Done(p)
  /\ UNCHANGED <<key, db, due>>

VaultStep(p) ==
  /\ \/ MakeDir(p) \/ ReadKey(p) \/ NewKey(p) \/ CreateKeyFile(p) \/ WriteKey(p)
     \/ Reconcile(p) \/ Trim(p) \/ Open(p) \/ DropEntry(p) \/ DropIndex(p)
     \/ AddRow(p) \/ Commit(p)
     \/ FindEntries(p) \/ Unlist(p) \/ Unlink(p) \/ Clear(p)
     \/ Copy(p) \/ Away(p) \/ Swap(p) \/ DropOld(p)
  /\ UNCHANGED <<lapped, cut>>

\* Between its first rename and its key a rotation leaves no usable vault.
Swapping(p) == /\ plan[p].does = "rotate" /\ key[p] = RotateKey(p)
               /\ todo[p] # <<>> /\ ~At(p, "away")

(***************************************************************************)
(* record_command_stat_via_host, for all that is kept in the vault: once a *)
(* command's row was written, every later state has it in a blob that the  *)
(* key file opens, whichever other invocation is killed between any two of *)
(* its steps, and across a rotation.  Excepted are the commands that used  *)
(* the vault while another did, a rotation others used the vault during,   *)
(* and one that is, or was killed, between its renames and its key.        *)
(***************************************************************************)
RecordedIsKept ==
  \/ cut
  \/ \E r \in Command : Swapping(r) \/ (plan[r].does = "rotate" /\ r \in lapped)
  \/ (Vault.there /\ Vault.sealed = Vault.key /\ due \ lapped \subseteq Vault.rows)
  \/ due \subseteq lapped
=============================================================================
