-------------------------- MODULE TaskDirectories --------------------------
(***************************************************************************)
(* How a task directory comes into being.  `mac task new` (TaskService,    *)
(* create_task) and the import of the v5 registry (convert_v5) both write  *)
(* the first event, the scope contract and task.yaml into a staging        *)
(* directory and rename it into place; a process that dies leaves its      *)
(* staging directory, which `mac doctor --repair-safe` deletes once it is  *)
(* a minute old (under tasks/ only).  A caller that sees an error, or dies *)
(* before its answer, retries with the same idempotency key; the import is *)
(* run again.                                                              *)
(*                                                                         *)
(* Each caller has a key of its own, which no other command uses, and one  *)
(* process at a time imports.  Identifiers are fresh (ids.py); there are   *)
(* finitely many here, which bounds the crashes and failures.              *)
(***************************************************************************)
EXTENDS Naturals, FiniteSets

CONSTANTS Caller,    \* the callers of `mac task new`, each with its key
          Legacy,    \* the rows of the v5 registry, by their distinct ids
          Importer,  \* the process that imports them
          Doctor,    \* processes of `mac doctor --repair-safe`
          TaskId,    \* the task identifiers that can be drawn
          Nothing    \* no origin, no task

ASSUME DirectoryParameters ==
    /\ Importer \notin Caller /\ Doctor \cap (Caller \cup {Importer}) = {}
    /\ Caller \cap Legacy = {} /\ Nothing \notin TaskId \cup Caller \cup Legacy

File   == {"event", "scope", "yaml"}
Writer == Caller \cup {Importer}
Origin == Caller \cup Legacy

VARIABLES place,   \* of each id: "absent", "staging" or "visible"
          content, \* the files under it
          origin,  \* the key or the legacy id in its event, or Nothing
          aged,    \* staging directories of a minute and more
          at,      \* where each process is
          mine,    \* the directory a writer works on, or Nothing
          row,     \* the registry row the import is at, or Nothing
          known,   \* the legacy ids the import found at its start
          todo,    \* the rows it has not reached
          listed,  \* the directories a doctor listed and has not deleted
          told     \* what callers were told: pairs of caller and task

dirs    == <<place, content, origin>>
import  == <<row, known, todo>>
dirVars == <<place, content, origin, aged, at, mine, row, known, todo, listed, told>>

DirInit ==
    /\ place = [t \in TaskId |-> "absent"] /\ content = [t \in TaskId |-> {}]
    /\ origin = [t \in TaskId |-> Nothing] /\ aged = {}
    /\ at = [p \in Writer \cup Doctor |-> "idle"] /\ mine = [w \in Writer |-> Nothing]
    /\ row = Nothing /\ known = {} /\ todo = {}
    /\ listed = [d \in Doctor |-> {}] /\ told = {}

Visible(o) == {t \in TaskId : place[t] = "visible" /\ origin[t] = o}
Unused     == {t \in TaskId : origin[t] = Nothing}
GoesTo(p, l) == at' = [at EXCEPT ![p] = l]

-----------------------------------------------------------------------------
(* mac task new.                                                           *)

\* find_idempotency: the key is in an event of a task already.
FindKey(c) ==
    /\ at[c] = "idle" /\ Visible(c) # {}
    /\ \E t \in Visible(c) : told' = told \cup {<<c, t>>}
    /\ UNCHANGED <<dirs, aged, at, mine, import, listed>>

\* Mutant of MissKey: the key is not looked up.
MissKeyBlindly(c) ==
    /\ at[c] = "idle" /\ GoesTo(c, "new")
    /\ UNCHANGED <<dirs, aged, mine, import, listed, told>>

MissKey(c) ==
    /\ at[c] = "idle" /\ Visible(c) = {}
    /\ GoesTo(c, "new")
    /\ UNCHANGED <<dirs, aged, mine, import, listed, told>>

\* The staging directory of a task with a new identifier.
Stage(w, o) ==
    \E t \in Unused :
        /\ place' = [place EXCEPT ![t] = "staging"]
        /\ origin' = [origin EXCEPT ![t] = o]
        /\ mine' = [mine EXCEPT ![w] = t]
        /\ GoesTo(w, "writing")
        /\ UNCHANGED <<content, aged, import, listed, told>>

StageTask(c) == at[c] = "new" /\ Stage(c, c)

\* Both writers write the event first; task.yaml is the last of three.
WriteFile(w, f) ==
    /\ at[w] = "writing" /\ f \notin content[mine[w]]
    /\ f = "event" \/ "event" \in content[mine[w]]
    /\ f = "yaml" => "scope" \in content[mine[w]]
    /\ content' = [content EXCEPT ![mine[w]] = @ \cup {f}]
    /\ UNCHANGED <<place, origin, aged, at, mine, import, listed, told>>

\* Mutant of Publish: the rename comes before task.yaml.
PublishEarly(w) ==
    /\ at[w] = "writing" /\ {"event", "scope"} \subseteq content[mine[w]]
    /\ place' = [place EXCEPT ![mine[w]] = "visible"]
    /\ GoesTo(w, "published")
    /\ UNCHANGED <<content, origin, aged, mine, import, listed, told>>

\* os.replace of the staging directory.
Publish(w) ==
    /\ at[w] = "writing" /\ content[mine[w]] = File
    /\ place' = [place EXCEPT ![mine[w]] = "visible"]
    /\ GoesTo(w, "published")
    /\ UNCHANGED <<content, origin, aged, mine, import, listed, told>>

ReportTask(c) ==
    /\ at[c] = "published"
    /\ told' = told \cup {<<c, mine[c]>>}
    /\ GoesTo(c, "idle") /\ mine' = [mine EXCEPT ![c] = Nothing]
    /\ UNCHANGED <<dirs, aged, import, listed>>

-----------------------------------------------------------------------------
(* The import of the v5 registry.                                          *)

\* _existing_legacy reads the output once, before the loop over the rows.
BeginRows(found) ==
    /\ at[Importer] = "idle"
    /\ known' = found
    /\ todo' = Legacy /\ row' = Nothing
    /\ GoesTo(Importer, "rows")
    /\ UNCHANGED <<dirs, aged, mine, listed, told>>

\* Mutant of StartImport: staging directories are read too.
StartImportStaged == BeginRows({l \in Legacy : \E t \in TaskId : origin[t] = l})

StartImport == BeginRows({l \in Legacy : Visible(l) # {}})

SkipRow ==
    /\ at[Importer] = "rows"
    /\ \E l \in todo \cap known : todo' = todo \ {l}
    /\ UNCHANGED <<dirs, aged, at, mine, row, known, listed, told>>

\* Mutant of TakeRow: rows that were imported are imported again.
TakeRowAgain ==
    /\ at[Importer] = "rows"
    /\ \E l \in todo : todo' = todo \ {l} /\ row' = l
    /\ GoesTo(Importer, "new")
    /\ UNCHANGED <<dirs, aged, mine, known, listed, told>>

TakeRow ==
    /\ at[Importer] = "rows"
    /\ \E l \in todo \ known : todo' = todo \ {l} /\ row' = l
    /\ GoesTo(Importer, "new")
    /\ UNCHANGED <<dirs, aged, mine, known, listed, told>>

StageRow == at[Importer] = "new" /\ Stage(Importer, row)

NextRow ==
    /\ at[Importer] = "published"
    /\ GoesTo(Importer, "rows") /\ mine' = [mine EXCEPT ![Importer] = Nothing]
    /\ row' = Nothing
    /\ UNCHANGED <<dirs, aged, known, todo, listed, told>>

EndImport ==
    /\ at[Importer] = "rows" /\ todo = {}
    /\ GoesTo(Importer, "imported")
    /\ UNCHANGED <<dirs, aged, mine, import, listed, told>>

\* The same command again.
ImportAgain ==
    /\ at[Importer] = "imported"
    /\ GoesTo(Importer, "idle")
    /\ UNCHANGED <<dirs, aged, mine, import, listed, told>>

-----------------------------------------------------------------------------
(* Errors, crashes and the doctor.                                         *)

\* A write fails: the staging directory is removed and the error raised.
Fail(w) ==
    /\ at[w] = "writing"
    /\ place' = [place EXCEPT ![mine[w]] = "absent"]
    /\ content' = [content EXCEPT ![mine[w]] = {}]
    /\ aged' = aged \ {mine[w]}
    /\ mine' = [mine EXCEPT ![w] = Nothing]
    /\ GoesTo(w, "idle")
    /\ UNCHANGED <<origin, import, listed, told>>

\* The process dies and leaves everything as it is.
Die(w) ==
    /\ at[w] \notin {"idle", "imported"}
    /\ mine' = [mine EXCEPT ![w] = Nothing]
    /\ GoesTo(w, "idle")
    /\ UNCHANGED <<dirs, aged, import, listed, told>>

\* A staging directory nobody works on any more becomes a minute old.
Age(t) ==
    /\ place[t] = "staging" /\ t \notin aged
    /\ \A w \in Writer : mine[w] # t
    /\ aged' = aged \cup {t}
    /\ UNCHANGED <<dirs, at, mine, import, listed, told>>

\* _known_temporary_files of tasks/: the import's directory is not searched.
ListOld(d) ==
    /\ at[d] = "idle"
    /\ listed' = [listed EXCEPT ![d] = {t \in aged : place[t] = "staging" /\ origin[t] \in Caller}]
    /\ GoesTo(d, "deleting")
    /\ UNCHANGED <<dirs, aged, mine, import, told>>

DeleteOld(d) ==
    /\ at[d] = "deleting"
    /\ \E t \in listed[d] :
          /\ place[t] = "staging"
          /\ place' = [place EXCEPT ![t] = "absent"] /\ content' = [content EXCEPT ![t] = {}]
          /\ aged' = aged \ {t}
          /\ listed' = [listed EXCEPT ![d] = @ \ {t}]
    /\ UNCHANGED <<origin, at, mine, import, told>>

\* It is done, or what it listed is gone: the unlink raises and the rest of
\* the repair is not run.
EndRepair(d) ==
    /\ at[d] = "deleting"
    /\ listed[d] = {} \/ \E t \in listed[d] : place[t] # "staging"
    /\ listed' = [listed EXCEPT ![d] = {}]
    /\ GoesTo(d, "idle")
    /\ UNCHANGED <<dirs, aged, mine, import, told>>

DirNext ==
    \/ \E c \in Caller : FindKey(c) \/ MissKey(c) \/ StageTask(c) \/ ReportTask(c)
    \/ \E w \in Writer : Publish(w) \/ Fail(w) \/ Die(w) \/ \E f \in File : WriteFile(w, f)
    \/ StartImport \/ SkipRow \/ TakeRow \/ StageRow \/ NextRow \/ EndImport \/ ImportAgain
    \/ \E t \in TaskId : Age(t)
    \/ \E d \in Doctor : ListOld(d) \/ DeleteOld(d) \/ EndRepair(d)

DirSpec == DirInit /\ [][DirNext]_dirVars

-----------------------------------------------------------------------------
(* Properties.                                                             *)

\* Whoever looks into tasks/ or tasks-v6/ sees whole tasks: a task under its
\* own name has its first event, its contract and its task.yaml, whatever
\* writer died or doctor cleaned up meanwhile.
VisibleIsWhole == \A t \in TaskId : place[t] = "visible" => content[t] = File

\* However often a caller retries and an import is run again, after whatever
\* crash, one key has one task and one legacy row is imported once.
OneTaskPerOrigin == \A o \in Origin : Cardinality(Visible(o)) <= 1

\* The task a caller was told of is there, and every later answer to its key
\* names the same one.
AnswersAgree ==
    /\ \A a \in told : place[a[2]] = "visible" /\ origin[a[2]] = a[1]
    /\ \A a, b \in told : a[1] = b[1] => a = b

\* An import that reaches its end has left no row of the registry behind,
\* those of earlier, interrupted imports included.
ImportLeavesNoRow == at[Importer] = "imported" => \A l \in Legacy : Visible(l) # {}
=============================================================================
