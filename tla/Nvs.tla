-------------------------------- MODULE Nvs ---------------------------------
(***************************************************************************)
(* The settings of the node: the flash namespace "storage", and the        *)
(* console commands nvs_set, nvs_get, nvs_namespace and nvs_list           *)
(* (main/console.c), which change and show it.                             *)
(*                                                                         *)
(* External, the NVS library: a write is seen by the reads that follow     *)
(* and survives a restart once it is committed; one that is not may or may *)
(* not survive.  A write or a commit may fail and then leaves the old      *)
(* value or the new one.                                                   *)
(*                                                                         *)
(* errno belongs to the console task.  Nothing sets it to 0 before strtol: *)
(* a number out of range leaves ERANGE, and until some other call replaces *)
(* it every nvs_set fails.  Texts are members of Inputs; what a text is    *)
(* worth in a type is its value, "huge" when no integer type holds it and  *)
(* "nohex" when it is no blob.                                             *)
(***************************************************************************)
EXTENDS Naturals, FiniteSets

CONSTANTS
    Inputs,   \* arguments of nvs_set: records [key, type, value]
    Settings  \* contents of the flash when the model begins

VARIABLES
    nvs,      \* what a read of "storage" returns: key -> [type, value], or Unset
    flash,    \* what of it is committed
    told,     \* history: the entry last reported as stored, or Unset
    erange,   \* errno = ERANGE
    current_namespace

nvsVars == <<nvs, flash, told, erange, current_namespace>>

Keys == {"wifi", "ssid", "lsleep", "sble"}
IntTypes == {"i8", "u8", "i16", "u16", "i32", "u32", "i64", "u64"}
Types == IntTypes \cup {"str", "blob"}     \* any other text is NVS_TYPE_ANY

Unset == [type |-> "none", value |-> "none"]
Entry(i) == [type |-> i.type, value |-> i.value]

ASSUME NvsAssumption ==
    /\ Inputs \subseteq [key : Keys, type : STRING, value : STRING]
    /\ Settings \subseteq [Keys -> [type : STRING, value : STRING]]

NvsTypeOK ==
    LET Entries == {Unset} \cup {Entry(i) : i \in Inputs}
                           \cup UNION {{s[k] : k \in Keys} : s \in Settings}
    IN  /\ nvs \in [Keys -> Entries] /\ flash \in [Keys -> Entries]
        /\ told \in [Keys -> Entries]
        /\ erange \in BOOLEAN
        /\ current_namespace \in {"storage", "other"}

NvsInit ==
    /\ nvs \in Settings /\ flash = nvs /\ told = [k \in Keys |-> Unset]
    /\ erange = FALSE /\ current_namespace = "storage"

\* nvs_get_i32, nvs_get_str, ...: the type must be the one of the entry.
Read(k, type) == IF nvs[k].type = type THEN nvs[k].value ELSE "none"

\* errno after a command that does not set it: linenoise may replace it.
ErrnoKept == erange' \in {erange, FALSE}

\* The commit of a handle commits every write before it.
Commit(k, e) ==
    /\ nvs' = [nvs EXCEPT ![k] = e] /\ flash' = nvs'

-----------------------------------------------------------------------------
(* nvs_set *)

\* An undefined type, or a namespace that does not open, which may happen to any
\* of them: the value is not even read.
SetUndefined ==
    /\ ErrnoKept
    /\ UNCHANGED <<nvs, flash, told, current_namespace>>

\* strtol and its relatives set errno for a number out of range.
Errno(i) == erange \/ (i.type \in IntTypes /\ i.value = "huge")

\* A setting of another namespace leaves "storage" alone, but not errno.
SetOther(i) ==
    /\ i.type \in Types /\ current_namespace # "storage"
    /\ erange' = Errno(i)
    /\ UNCHANGED <<nvs, flash, told, current_namespace>>

\* store_blob writes nothing unless the text is an even number of hexadecimal
\* digits.
StoreBlob(i) == i.type = "blob" => i.value # "nohex"

\* An integer is written unless it is out of range (or errno says so from an
\* earlier command): in both cases the handle is closed without a commit.
SetRange(i) ==
    /\ i.type \in IntTypes /\ current_namespace = "storage"
    /\ Errno(i)
    /\ erange' = TRUE
    /\ UNCHANGED <<nvs, flash, told, current_namespace>>

\* A string or a blob is written before errno is looked at: the command fails,
\* with the string written but not committed, or the blob committed.
SetStale(i) ==
    /\ i.type \in {"str", "blob"} /\ current_namespace = "storage"
    /\ erange
    /\ \/ i.type = "blob" /\ StoreBlob(i) /\ Commit(i.key, Entry(i))
       \/ i.type = "str" /\ nvs' = [nvs EXCEPT ![i.key] = Entry(i)] /\ UNCHANGED flash
       \/ UNCHANGED <<nvs, flash>>
    /\ told' = [told EXCEPT ![i.key] = Unset]
    /\ UNCHANGED <<erange, current_namespace>>

\* The library refuses the write (no space, an entry of another type) or the
\* commit.
SetFails(i) ==
    /\ i.type \in Types /\ current_namespace = "storage"
    /\ ~Errno(i)
    /\ \/ UNCHANGED nvs
       \/ StoreBlob(i) /\ nvs' = [nvs EXCEPT ![i.key] = Entry(i)]
    /\ flash' \in {flash, nvs'}
    /\ told' = [told EXCEPT ![i.key] = Unset]
    /\ UNCHANGED <<erange, current_namespace>>

\* Mutant of SetStored: the value is reported before it is committed.
SetStoredMutant(i) ==
    /\ i.type \in Types /\ current_namespace = "storage"
    /\ ~Errno(i) /\ StoreBlob(i)
    /\ nvs' = [nvs EXCEPT ![i.key] = Entry(i)]
    /\ told' = [told EXCEPT ![i.key] = Entry(i)]
    /\ UNCHANGED <<flash, erange, current_namespace>>

\* The only case that reports "Value stored".
SetStored(i) ==
    /\ i.type \in Types /\ current_namespace = "storage"
    /\ ~Errno(i) /\ StoreBlob(i)
    /\ Commit(i.key, Entry(i))
    /\ told' = [told EXCEPT ![i.key] = Entry(i)]
    /\ UNCHANGED <<erange, current_namespace>>

\* set_value: a line that does not parse sets nothing.
SetValue ==
    \/ SetUndefined
    \/ \E i \in Inputs :
          SetOther(i) \/ SetRange(i) \/ SetStale(i) \/ SetFails(i) \/ SetStored(i)

-----------------------------------------------------------------------------
(* The other commands *)

SetNamespace ==
    /\ current_namespace' \in {"storage", "other"}
    /\ ErrnoKept
    /\ UNCHANGED <<nvs, flash, told>>

\* nvs_get and nvs_list read and print.
GetValue ==
    /\ ErrnoKept
    /\ UNCHANGED <<nvs, flash, told, current_namespace>>

ListEntries == GetValue

-----------------------------------------------------------------------------
(* A restart: initialize_nvs *)

\* Pages written by another version, or none free, are erased.
Erase ==
    /\ nvs' = [k \in Keys |-> Unset] /\ flash' = nvs' /\ told' = nvs'

NvsRestart ==
    /\ \/ Erase
       \/ nvs' \in {nvs, flash} /\ flash' = nvs' /\ UNCHANGED told
    /\ erange' = FALSE /\ current_namespace' = "storage"

=============================================================================
