------------------------- MODULE TaskCreationProofs -------------------------
(***************************************************************************)
(* Theorems about how tasks come into being: TaskDirectories, for any      *)
(* number of callers, registry rows, doctors and identifiers, and the      *)
(* identifiers themselves.                                                 *)
(***************************************************************************)
EXTENDS TaskDirectories, Identifiers, FiniteSetTheorems, TLAPS

-----------------------------------------------------------------------------
(* The shape of the state.                                                 *)

Places == {"idle", "new", "writing", "published", "rows", "imported", "deleting"}

DirTypeOK ==
    /\ place \in [TaskId -> {"absent", "staging", "visible"}]
    /\ content \in [TaskId -> SUBSET File]
    /\ origin \in [TaskId -> Origin \cup {Nothing}]
    /\ aged \subseteq TaskId
    /\ at \in [Writer \cup Doctor -> Places]
    /\ mine \in [Writer -> TaskId \cup {Nothing}]
    /\ row \in Legacy \cup {Nothing} /\ known \subseteq Legacy /\ todo \subseteq Legacy
    /\ listed \in [Doctor -> SUBSET TaskId]
    /\ told \subseteq Caller \X TaskId

\* Whom a writer's directory is for.
For(w) == IF w = Importer THEN row ELSE w

\* A writer that writes has a staging directory, one that has published a visible one,
\* each its own, and no other writer has any; the importer is at a row meanwhile.
WritersOwn ==
    \A w \in Writer :
        /\ at[w] \in {"writing", "published"} => mine[w] \in TaskId /\ origin[mine[w]] = For(w)
        /\ at[w] \notin {"writing", "published"} => mine[w] = Nothing
        /\ at[w] = "writing" => place[mine[w]] = "staging"
        /\ at[w] = "published" => place[mine[w]] = "visible"
        /\ w \in Caller => at[w] \in {"idle", "new", "writing", "published"}
        /\ \A v \in Writer : mine[v] = mine[w] /\ mine[w] # Nothing => v = w
        /\ w = Importer /\ at[w] \in {"new", "writing", "published"} => row \in Legacy

\* A directory that nobody has named is not there; what is old, or listed by a doctor, is
\* no writer's.
Abandoned ==
    /\ \A t \in Unused : place[t] = "absent"
    /\ \A t \in aged : t \notin Unused /\ \A w \in Writer : mine[w] # t
    /\ \A d \in Doctor : \A t \in listed[d] : t \notin Unused /\ \A w \in Writer : mine[w] # t

Shape == DirTypeOK /\ WritersOwn /\ Abandoned
LEMMA ShapeInit == ASSUME DirInit PROVE Shape
  BY DirectoryParameters
  DEF DirInit, Shape, DirTypeOK, WritersOwn, Abandoned, Unused, Places, Writer

LEMMA ShapeStep == ASSUME Shape, [DirNext]_dirVars PROVE Shape'
  <1> USE DirectoryParameters
      DEF Shape, DirTypeOK, WritersOwn, Abandoned, Unused, Writer, Origin, For, GoesTo, dirs, import
  <1>1. ASSUME NEW c \in Caller, FindKey(c) PROVE Shape'
    <2>1. told' \subseteq Caller \X TaskId
      BY <1>1 DEF FindKey, Visible
    <2> QED  BY <1>1, <2>1 DEF FindKey
  <1>2. ASSUME NEW c \in Caller, MissKey(c) PROVE Shape'
    BY <1>2 DEF MissKey, Places
  <1>3. ASSUME NEW w \in Writer, NEW o \in Origin, Stage(w, o), at[w] = "new", o = For(w)
        PROVE  Shape'
    <2>1. PICK t \in Unused :
             /\ place' = [place EXCEPT ![t] = "staging"]
             /\ origin' = [origin EXCEPT ![t] = o]
             /\ mine' = [mine EXCEPT ![w] = t]
             /\ at' = [at EXCEPT ![w] = "writing"]
             /\ UNCHANGED <<content, aged, row, known, todo, listed, told>>
      BY <1>3 DEF Stage
    <2>2. /\ \A v \in Writer : mine[v] # t
          /\ t \notin aged /\ \A d \in Doctor : t \notin listed[d]
          /\ o # Nothing /\ t # Nothing
      BY <2>1
    <2>3. DirTypeOK'
      BY <2>1 DEF Places
    <2>4. WritersOwn'
      BY <1>3, <2>1, <2>2
    <2>5. Abandoned'
      BY <2>1, <2>2
    <2> QED  BY <2>3, <2>4, <2>5
  <1>4. ASSUME NEW c \in Caller, StageTask(c) PROVE Shape'
    <2>1. Stage(c, c) /\ at[c] = "new" /\ c = For(c)
      BY <1>4 DEF StageTask
    <2> QED  BY <1>3, <2>1
  <1>5. ASSUME StageRow PROVE Shape'
    <2>1. Stage(Importer, row) /\ at[Importer] = "new" /\ row = For(Importer) /\ row \in Legacy
      BY <1>5 DEF StageRow
    <2> QED  BY <1>3, <2>1
  <1>6. ASSUME NEW w \in Writer, NEW f \in File, WriteFile(w, f) PROVE Shape'
    BY <1>6 DEF WriteFile
  <1>7. ASSUME NEW w \in Writer, Publish(w) PROVE Shape'
    <2>1. mine[w] \in TaskId /\ origin[mine[w]] # Nothing
      BY <1>7 DEF Publish
    <2> QED  BY <1>7, <2>1 DEF Publish, Places
  <1>8. ASSUME NEW c \in Caller, ReportTask(c) PROVE Shape'
    BY <1>8 DEF ReportTask, Places
  <1>9. ASSUME StartImport PROVE Shape'
    BY <1>9 DEF StartImport, BeginRows, Places
  <1>10. ASSUME SkipRow PROVE Shape'
    BY <1>10 DEF SkipRow
  <1>11. ASSUME TakeRow PROVE Shape'
    BY <1>11 DEF TakeRow, Places
  <1>12. ASSUME NextRow PROVE Shape'
    BY <1>12 DEF NextRow, Places
  <1>13. ASSUME EndImport \/ ImportAgain PROVE Shape'
    BY <1>13 DEF EndImport, ImportAgain, Places
  <1>14. ASSUME NEW w \in Writer, Fail(w) PROVE Shape'
    <2>1. mine[w] \in TaskId /\ origin[mine[w]] # Nothing
      BY <1>14 DEF Fail
    <2> QED  BY <1>14, <2>1 DEF Fail, Places
  <1>15. ASSUME NEW w \in Writer, Die(w) PROVE Shape'
    BY <1>15 DEF Die, Places
  <1>16. ASSUME NEW t \in TaskId, Age(t) PROVE Shape'
    BY <1>16 DEF Age
  <1>17. ASSUME NEW d \in Doctor, ListOld(d) PROVE Shape'
    BY <1>17 DEF ListOld, Places
  <1>18. ASSUME NEW d \in Doctor, DeleteOld(d) PROVE Shape'
    <2>1. PICK t \in listed[d] :
             /\ place[t] = "staging"
             /\ place' = [place EXCEPT ![t] = "absent"] /\ content' = [content EXCEPT ![t] = {}]
             /\ aged' = aged \ {t}
             /\ listed' = [listed EXCEPT ![d] = @ \ {t}]
             /\ UNCHANGED <<origin, at, mine, row, known, todo, told>>
      BY <1>18 DEF DeleteOld
    <2> QED  BY <2>1
  <1>19. ASSUME NEW d \in Doctor, EndRepair(d) PROVE Shape'
    BY <1>19 DEF EndRepair, Places
  <1>20. ASSUME UNCHANGED dirVars PROVE Shape'
    BY <1>20 DEF dirVars
  <1> QED
    BY <1>1, <1>2, <1>4, <1>5, <1>6, <1>7, <1>8, <1>9, <1>10, <1>11, <1>12, <1>13, <1>14,
       <1>15, <1>16, <1>17, <1>18, <1>19, <1>20 DEF DirNext
-----------------------------------------------------------------------------
(* What is visible.                                                        *)

\* Except when a writer publishes, what is visible stays as it is.
LEMMA VisibleKept ==
    ASSUME Shape, [DirNext]_dirVars, \A w \in Writer : ~Publish(w)
    PROVE  \A t \in TaskId :
              /\ place'[t] = "visible" <=> place[t] = "visible"
              /\ place[t] = "visible" => origin'[t] = origin[t] /\ content'[t] = content[t]
  <1> DEFINE Kept == \A t \in TaskId :
                        /\ place'[t] = "visible" <=> place[t] = "visible"
                        /\ place[t] = "visible" => origin'[t] = origin[t] /\ content'[t] = content[t]
  <1> USE DEF Shape, DirTypeOK, WritersOwn, Abandoned, Unused, dirs
  <1>1. ASSUME NEW w \in Writer, NEW o, Stage(w, o) PROVE Kept
    BY <1>1 DEF Stage
  <1>2. ASSUME NEW w \in Writer, NEW f \in File, WriteFile(w, f) PROVE Kept
    BY <1>2 DEF WriteFile
  <1>3. ASSUME NEW w \in Writer, Fail(w) PROVE Kept
    BY <1>3 DEF Fail
  <1>4. ASSUME NEW d \in Doctor, DeleteOld(d) PROVE Kept
    BY <1>4 DEF DeleteOld
  <1>5. ASSUME UNCHANGED dirs PROVE Kept
    BY <1>5
  <1>6. \A c \in Caller : FindKey(c) \/ MissKey(c) \/ ReportTask(c) => UNCHANGED dirs
    BY DEF FindKey, MissKey, ReportTask
  <1>7. StartImport \/ SkipRow \/ TakeRow \/ NextRow \/ EndImport \/ ImportAgain => UNCHANGED dirs
    BY DEF StartImport, BeginRows, SkipRow, TakeRow, NextRow, EndImport, ImportAgain
  <1>8. /\ \A w \in Writer : Die(w) => UNCHANGED dirs
        /\ \A t \in TaskId : Age(t) => UNCHANGED dirs
        /\ \A d \in Doctor : ListOld(d) \/ EndRepair(d) => UNCHANGED dirs
        /\ UNCHANGED dirVars => UNCHANGED dirs
    BY DEF Die, Age, ListOld, EndRepair, dirVars
  <1> HIDE DEF Kept
  <1>9. Kept
    BY <1>1, <1>2, <1>3, <1>4, <1>5, <1>6, <1>7, <1>8 DEF DirNext, StageTask, StageRow, Writer
  <1> QED  BY <1>9 DEF Kept

\* For every origin.
LEMMA VisibleSetKept ==
    ASSUME Shape, [DirNext]_dirVars, \A w \in Writer : ~Publish(w)
    PROVE  \A o : Visible(o)' = Visible(o)
  BY VisibleKept DEF Visible

\* A writer publishes its directory for its origin, which no other writer works for.
LEMMA PublishShows ==
    ASSUME Shape, NEW w \in Writer, Publish(w)
    PROVE  /\ mine[w] \in TaskId /\ origin[mine[w]] = For(w) /\ content[mine[w]] = File
           /\ \A o : o = For(w) => Visible(o)' = Visible(o) \cup {mine[w]}
           /\ \A o : o # For(w) => Visible(o)' = Visible(o)
           /\ For(w) \in Origin
           /\ \A v \in Writer : v # w /\ at[v] \in {"new", "writing", "published"} => For(v) # For(w)
           /\ UNCHANGED <<content, origin, row, known, todo, told>>
           /\ at' = [at EXCEPT ![w] = "published"] /\ at[w] = "writing"
           /\ place' = [place EXCEPT ![mine[w]] = "visible"]
  <1>1. /\ at[w] = "writing" /\ content[mine[w]] = File
        /\ place' = [place EXCEPT ![mine[w]] = "visible"]
        /\ at' = [at EXCEPT ![w] = "published"]
        /\ UNCHANGED <<content, origin, row, known, todo, told>>
    BY DEF Publish, GoesTo, import
  <1>2. mine[w] \in TaskId /\ origin[mine[w]] = For(w)
    BY <1>1 DEF Shape, WritersOwn
  <1>3. /\ For(w) \in Origin
        /\ \A v \in Writer : v # w /\ at[v] \in {"new", "writing", "published"} => For(v) # For(w)
    BY <1>1, DirectoryParameters DEF Shape, WritersOwn, For, Writer, Origin
  <1>4. \A o : Visible(o)' = {t \in TaskId : (t = mine[w] \/ place[t] = "visible") /\ origin[t] = o}
    BY <1>1, <1>2 DEF Visible, Shape, DirTypeOK
  <1>5. \A o : o = For(w) => Visible(o)' = Visible(o) \cup {mine[w]}
    BY <1>2, <1>4 DEF Visible
  <1>6. \A o : o # For(w) => Visible(o)' = Visible(o)
    BY <1>2, <1>4 DEF Visible
  <1> QED  BY <1>1, <1>2, <1>3, <1>5, <1>6

\* VisibleIsWhole holds in every reachable state: no crash, failed write, retry or
\* doctor lets a task appear under its own name before it is complete, or takes a file out of it.
THEOREM VisibleTasksAreWhole == DirSpec => []VisibleIsWhole
  <1> DEFINE Inv == Shape /\ VisibleIsWhole
  <1>1. DirInit => Inv
    BY ShapeInit DEF DirInit, VisibleIsWhole
  <1>2. ASSUME Inv, [DirNext]_dirVars PROVE Inv'
    <2>1. CASE \A w \in Writer : ~Publish(w)
      BY <1>2, <2>1, VisibleKept, ShapeStep DEF VisibleIsWhole
    <2>2. ASSUME NEW w \in Writer, Publish(w) PROVE VisibleIsWhole'
      BY <1>2, <2>2, PublishShows DEF VisibleIsWhole, Shape, DirTypeOK
    <2> QED  BY <1>2, <2>1, <2>2, ShapeStep
  <1>3. Inv => VisibleIsWhole
    OBVIOUS
  <1> QED  BY <1>1, <1>2, <1>3, PTL DEF DirSpec

-----------------------------------------------------------------------------
(* One task for each origin.                                               *)

OneVisible ==
    \A t, u \in TaskId :
        place[t] = "visible" /\ place[u] = "visible" /\ origin[t] = origin[u] => t = u

\* Whoever is about to create a task looked for it, and nobody else creates it.
FreshWriters == \A w \in Writer : at[w] \in {"new", "writing"} => Visible(For(w)) = {}

\* The import knows what it has done: rows ahead that it does not know of are not
\* there, those behind are, except the one it is at.
RowsAccounted ==
    at[Importer] \in {"rows", "new", "writing", "published", "imported"} =>
        /\ \A l \in todo \ known : Visible(l) = {}
        /\ \A l \in known : Visible(l) # {}
        /\ \A l \in Legacy \ todo : Visible(l) # {} \/ (at[Importer] \in {"new", "writing"} /\ l = row)
        /\ row \notin todo
        /\ at[Importer] = "imported" => todo = {}

Accounted == Shape /\ OneVisible /\ FreshWriters /\ RowsAccounted

LEMMA OneVisibleStep == ASSUME Accounted, [DirNext]_dirVars PROVE OneVisible'
  <1>1. CASE \A w \in Writer : ~Publish(w)
    BY <1>1, VisibleKept DEF Accounted, OneVisible
  <1>2. ASSUME NEW w \in Writer, Publish(w) PROVE OneVisible'
    <2>1. /\ mine[w] \in TaskId /\ origin[mine[w]] = For(w) /\ origin' = origin
          /\ place' = [place EXCEPT ![mine[w]] = "visible"] /\ at[w] = "writing"
      BY <1>2, PublishShows DEF Accounted
    <2>2. \A t \in TaskId : place[t] = "visible" => origin[t] # For(w)
      BY <2>1 DEF Accounted, FreshWriters, Visible
    <2> QED  BY <2>1, <2>2 DEF Accounted, Shape, DirTypeOK, OneVisible
  <1> QED  BY <1>1, <1>2

LEMMA FreshWritersStep == ASSUME Accounted, [DirNext]_dirVars PROVE FreshWriters'
  <1> USE DirectoryParameters DEF Accounted, FreshWriters
  <1>1. ASSUME NEW w \in Writer, Publish(w) PROVE FreshWriters'
    <2> SUFFICES ASSUME NEW v \in Writer, at'[v] \in {"new", "writing"} PROVE Visible(For(v))' = {}
      OBVIOUS
    <2>1. v # w /\ at[v] = at'[v]
      BY <1>1, PublishShows DEF Shape, DirTypeOK
    <2>2. For(v)' = For(v) /\ For(v) # For(w)
      BY <1>1, <2>1, PublishShows DEF For
    <2> QED  BY <1>1, <2>1, <2>2, PublishShows DEF Visible
  <1>2. CASE \A w \in Writer : ~Publish(w)
    <2> SUFFICES ASSUME NEW v \in Writer, at'[v] \in {"new", "writing"} PROVE Visible(For(v))' = {}
      OBVIOUS
    <2>1. \A o : Visible(o)' = Visible(o)
      BY <1>2, VisibleSetKept
    <2> USE DEF Shape, DirTypeOK, WritersOwn, Writer, For, GoesTo, dirs, import
    <2>2. CASE MissKey(v) /\ v \in Caller
      BY <2>1, <2>2 DEF MissKey, Visible
    <2>3. CASE TakeRow
      <3>1. CASE v = Importer
        BY <2>1, <2>3, <3>1 DEF TakeRow, RowsAccounted, Visible
      <3>2. CASE v # Importer
        BY <2>1, <2>3, <3>2 DEF TakeRow, Visible
      <3> QED  BY <3>1, <3>2
    <2>4. CASE ~(MissKey(v) /\ v \in Caller) /\ ~TakeRow
      <3> DEFINE Same == at[v] \in {"new", "writing"} /\ For(v)' = For(v)
      <3>1. ASSUME NEW c \in Caller, FindKey(c) \/ (MissKey(c) /\ c # v) \/ ReportTask(c) PROVE Same
        BY <3>1 DEF FindKey, MissKey, ReportTask
      <3>2. ASSUME NEW w \in Writer, NEW o, Stage(w, o), at[w] = "new" PROVE Same
        BY <3>2 DEF Stage
      <3>3. ASSUME NEW w \in Writer, Fail(w) \/ Die(w) \/ \E f \in File : WriteFile(w, f) PROVE Same
        BY <3>3 DEF Fail, Die, WriteFile
      <3>4. ASSUME StartImport \/ SkipRow \/ NextRow \/ EndImport \/ ImportAgain PROVE Same
        BY <3>4 DEF StartImport, BeginRows, SkipRow, NextRow, EndImport, ImportAgain
      <3>5. ASSUME NEW t \in TaskId, Age(t) PROVE Same
        BY <3>5 DEF Age
      <3>6. ASSUME NEW d \in Doctor, ListOld(d) \/ DeleteOld(d) \/ EndRepair(d) PROVE Same
        BY <3>6 DEF ListOld, DeleteOld, EndRepair
      <3>7. ASSUME UNCHANGED dirVars PROVE Same
        BY <3>7 DEF dirVars
      <3> HIDE DEF Same
      <3>8. Same
        BY <1>2, <2>4, <3>1, <3>2, <3>3, <3>4, <3>5, <3>6, <3>7 DEF DirNext, StageTask, StageRow
      <3> QED  BY <2>1, <3>8 DEF Same, Visible
    <2> QED  BY <2>2, <2>3, <2>4
  <1> QED  BY <1>1, <1>2
LEMMA RowsAccountedStep == ASSUME Accounted, [DirNext]_dirVars PROVE RowsAccounted'
  <1> USE DirectoryParameters DEF Accounted
  <1>1. ASSUME NEW w \in Writer, Publish(w) PROVE RowsAccounted'
    <2>1. /\ at' = [at EXCEPT ![w] = "published"] /\ at[w] = "writing"
          /\ UNCHANGED <<row, known, todo>>
          /\ \A l \in Legacy : l # For(w) => Visible(l)' = Visible(l)
          /\ \A l \in Legacy : l = For(w) => Visible(l)' # {}
      BY <1>1, PublishShows
    <2>2. CASE w = Importer
      BY <1>1, <2>1, <2>2 DEF RowsAccounted, For, Shape, DirTypeOK, WritersOwn
    <2>3. CASE w # Importer
      BY <1>1, <2>1, <2>3 DEF RowsAccounted, For, Shape, DirTypeOK, Writer
    <2> QED  BY <2>2, <2>3
  <1>2. CASE \A w \in Writer : ~Publish(w)
    <2>1. \A o : Visible(o)' = Visible(o)
      BY <1>2, VisibleSetKept
    <2> USE <2>1 DEF Shape, DirTypeOK, WritersOwn, Writer, GoesTo, dirs, import
    <2>2. ASSUME StartImport PROVE RowsAccounted'
      <3>1. /\ known' = {l \in Legacy : Visible(l) # {}} /\ todo' = Legacy /\ row' = Nothing
            /\ at'[Importer] = "rows"
        BY <2>2 DEF StartImport, BeginRows
      <3>2. \A l \in Legacy : (Visible(l)' # {}) <=> l \in known'
        BY <3>1
      <3> QED  BY <3>1, <3>2 DEF RowsAccounted
    <2>3. ASSUME SkipRow PROVE RowsAccounted'
      <3>1. PICK l \in todo \cap known : todo' = todo \ {l}
        BY <2>3 DEF SkipRow
      <3>2. at' = at /\ known' = known /\ row' = row /\ at[Importer] = "rows"
        BY <2>3 DEF SkipRow
      <3> QED  BY <3>1, <3>2 DEF RowsAccounted
    <2>4. ASSUME TakeRow PROVE RowsAccounted'
      <3>1. PICK l \in todo \ known : todo' = todo \ {l} /\ row' = l
        BY <2>4 DEF TakeRow
      <3>2. at'[Importer] = "new" /\ known' = known /\ at[Importer] = "rows"
        BY <2>4 DEF TakeRow
      <3> QED  BY <3>1, <3>2 DEF RowsAccounted
    <2>5. ASSUME NextRow PROVE RowsAccounted'
      BY <2>5 DEF NextRow, RowsAccounted
    <2>6. ASSUME EndImport \/ ImportAgain PROVE RowsAccounted'
      BY <2>6 DEF EndImport, ImportAgain, RowsAccounted
    <2>7. ASSUME NEW w \in Writer, NEW o, Stage(w, o), at[w] = "new" PROVE RowsAccounted'
      BY <2>7 DEF Stage, RowsAccounted
    <2>8. ASSUME NEW w \in Writer, Fail(w) \/ Die(w) \/ \E f \in File : WriteFile(w, f)
          PROVE  RowsAccounted'
      BY <2>8 DEF Fail, Die, WriteFile, RowsAccounted
    <2>9. ASSUME NEW c \in Caller, FindKey(c) \/ MissKey(c) \/ ReportTask(c) PROVE RowsAccounted'
      BY <2>9 DEF FindKey, MissKey, ReportTask, RowsAccounted
    <2>10. ASSUME NEW d \in Doctor, ListOld(d) \/ DeleteOld(d) \/ EndRepair(d)
           PROVE  RowsAccounted'
      BY <2>10 DEF ListOld, DeleteOld, EndRepair, RowsAccounted
    <2>11. ASSUME UNCHANGED dirVars \/ \E t \in TaskId : Age(t) PROVE RowsAccounted'
      BY <2>11 DEF dirVars, Age, RowsAccounted
    <2> QED
      BY <1>2, <2>2, <2>3, <2>4, <2>5, <2>6, <2>7, <2>8, <2>9, <2>10, <2>11
      DEF DirNext, StageTask, StageRow
  <1> QED  BY <1>1, <1>2

LEMMA AccountedInit == ASSUME DirInit PROVE Accounted
  <1>1. /\ \A t \in TaskId : place[t] = "absent"
        /\ \A w \in Writer : at[w] = "idle"
    BY DEF DirInit
  <1> QED
    BY <1>1, ShapeInit DEF Accounted, OneVisible, FreshWriters, RowsAccounted, Writer

LEMMA AccountedStep == ASSUME Accounted, [DirNext]_dirVars PROVE Accounted'
  BY ShapeStep, OneVisibleStep, FreshWritersStep, RowsAccountedStep DEF Accounted

\* OneTaskPerOrigin holds in every reachable state: whatever dies, fails or is repeated, a
\* caller's key has one task and a row of the registry is imported once.
THEOREM OriginsHaveOneTask == DirSpec => []OneTaskPerOrigin
  <1>1. DirInit => Accounted
    BY AccountedInit
  <1>2. Accounted /\ [DirNext]_dirVars => Accounted'
    BY AccountedStep
  <1>3. ASSUME Accounted PROVE OneTaskPerOrigin
    <2> SUFFICES ASSUME NEW o \in Origin PROVE Cardinality(Visible(o)) <= 1
      BY DEF OneTaskPerOrigin
    <2>1. CASE Visible(o) = {}
      BY <2>1, FS_EmptySet
    <2>2. CASE \E t : Visible(o) = {t}
      BY <2>2, FS_Singleton
    <2>3. \A t, u \in Visible(o) : t = u
      BY <1>3 DEF Accounted, OneVisible, Visible
    <2> QED  BY <2>1, <2>2, <2>3
  <1> QED  BY <1>1, <1>2, <1>3, PTL DEF DirSpec

\* ImportLeavesNoRow holds in every reachable state: an import that reports its end has
\* covered the registry, with what interrupted imports had left of it.
THEOREM ImportIsComplete == DirSpec => []ImportLeavesNoRow
  <1>1. DirInit => Accounted
    BY AccountedInit
  <1>2. Accounted /\ [DirNext]_dirVars => Accounted'
    BY AccountedStep
  <1>3. Accounted => ImportLeavesNoRow
    BY DEF Accounted, RowsAccounted, ImportLeavesNoRow
  <1> QED  BY <1>1, <1>2, <1>3, PTL DEF DirSpec

\* What callers were told stays true.
ToldIsThere == \A a \in told : place[a[2]] = "visible" /\ origin[a[2]] = a[1]

LEMMA ToldIsThereStep == ASSUME Shape, ToldIsThere, [DirNext]_dirVars PROVE ToldIsThere'
  <1> USE DEF Shape, DirTypeOK, ToldIsThere
  <1>1. \A a \in told : a[2] \in TaskId
    OBVIOUS
  <1>2. \A t \in TaskId : place[t] = "visible" => place'[t] = "visible" /\ origin'[t] = origin[t]
    <2>1. CASE \A w \in Writer : ~Publish(w)
      BY <2>1, VisibleKept
    <2>2. ASSUME NEW w \in Writer, Publish(w)
          PROVE  \A t \in TaskId : place[t] = "visible" => place'[t] = "visible" /\ origin'[t] = origin[t]
      BY <2>2, PublishShows
    <2> QED  BY <2>1, <2>2
  <1>3. CASE told' = told
    BY <1>1, <1>2, <1>3
  <1>4. ASSUME NEW c \in Caller, FindKey(c) PROVE ToldIsThere'
    <2>1. PICK t \in Visible(c) : told' = told \cup {<<c, t>>}
      BY <1>4 DEF FindKey
    <2>2. t \in TaskId /\ place[t] = "visible" /\ origin[t] = c
      BY DEF Visible
    <2> QED  BY <1>1, <1>2, <2>1, <2>2
  <1>5. ASSUME NEW c \in Caller, ReportTask(c) PROVE ToldIsThere'
    <2>1. told' = told \cup {<<c, mine[c]>>} /\ at[c] = "published"
      BY <1>5 DEF ReportTask
    <2>2. mine[c] \in TaskId /\ place[mine[c]] = "visible" /\ origin[mine[c]] = c
      BY <2>1, DirectoryParameters DEF WritersOwn, Writer, For
    <2> QED  BY <1>1, <1>2, <2>1, <2>2
  <1>6. CASE \A c \in Caller : ~FindKey(c) /\ ~ReportTask(c)
    <2>1. told' = told
      BY <1>6 DEF DirNext, dirVars, MissKey, StageTask, Stage, Publish, Fail, Die, WriteFile, StartImport,
         BeginRows, SkipRow, TakeRow, StageRow, NextRow, EndImport, ImportAgain, Age, ListOld,
         DeleteOld, EndRepair
    <2> QED  BY <1>3, <2>1
  <1> QED  BY <1>4, <1>5, <1>6

\* AnswersAgree holds in every reachable state: the task named in an answer exists from
\* then on, and all answers to one key, before and after crashes, name the same task.
THEOREM AnswersStayTrue == DirSpec => []AnswersAgree
  <1> DEFINE Inv == Accounted /\ ToldIsThere
  <1>1. ASSUME DirInit PROVE Inv
    <2>1. told = {}
      BY <1>1 DEF DirInit
    <2> QED  BY <1>1, <2>1, AccountedInit DEF ToldIsThere
  <1>2. Inv /\ [DirNext]_dirVars => Inv'
    BY AccountedStep, ToldIsThereStep DEF Accounted
  <1>3. ASSUME Inv PROVE AnswersAgree
    <2>1. told \subseteq Caller \X TaskId
      BY <1>3 DEF Accounted, Shape, DirTypeOK
    <2> SUFFICES ASSUME NEW a \in told, NEW b \in told, a[1] = b[1] PROVE a = b
      BY <1>3 DEF ToldIsThere, AnswersAgree
    <2>2. a[2] = b[2]
      BY <1>3, <2>1 DEF Accounted, ToldIsThere, OneVisible
    <2> QED  BY <2>1, <2>2
  <1> QED  BY <1>1, <1>2, <1>3, PTL DEF DirSpec

-----------------------------------------------------------------------------
(* Identifiers of one process increase, for every clock, every size of the *)
(* random part and any number of calls.                                    *)

Stamp == [time : Int, random : Int]

\* What the generator remembers is the greatest identifier it gave out.
Latest == \A i \in 1..Len(ids) : ids[i] = last \/ Before(ids[i], last)

IdInv == last \in Stamp /\ ids \in Seq(Stamp) /\ Latest /\ IdsIncrease

\* Whatever the clock says, a call moves the generator forward.
LEMMA SuccessorIsAfter ==
    ASSUME last \in Stamp, NEW now \in Int, NEW random \in Int
    PROVE  Successor(now, random) \in Stamp /\ Before(last, Successor(now, random))
<1>1. Current(now) \in Int /\ last.time <= Current(now)
  BY DEF Current, Stamp
<1>2. CASE Current(now) # last.time
  BY <1>1, <1>2 DEF Successor, Before, Stamp
<1>3. CASE Current(now) = last.time /\ last.random + 1 < Randoms
  BY <1>3 DEF Successor, Before, Stamp
<1>4. CASE Current(now) = last.time /\ ~(last.random + 1 < Randoms)
  BY <1>4 DEF Successor, Before, Stamp
<1> QED
  BY <1>2, <1>3, <1>4

LEMMA BeforeIsTransitive ==
    ASSUME NEW x \in Stamp, NEW y \in Stamp, NEW z \in Stamp, Before(x, y), Before(y, z)
    PROVE  Before(x, z)
BY DEF Before, Stamp

LEMMA IssueKeepsOrder ==
    ASSUME IdInv, NEW now \in Int, NEW random \in Int, Issue(now, random)
    PROVE  IdInv'
<1>1. last' \in Stamp /\ Before(last, last')
  BY SuccessorIsAfter DEF IdInv, Issue
<1>2. ids' \in Seq(Stamp) /\ Len(ids') = Len(ids) + 1 /\ ids'[Len(ids')] = last'
  BY <1>1 DEF IdInv, Issue
<1>3. \A i \in 1..Len(ids) : ids'[i] = ids[i] /\ ids[i] \in Stamp
  BY <1>1 DEF IdInv, Issue
<1>4. \A i \in 1..Len(ids) : Before(ids[i], last')
  <2>1. TAKE i \in 1..Len(ids)
  <2>2. ids[i] = last \/ Before(ids[i], last)
    BY DEF IdInv, Latest
  <2> QED
    BY <1>1, <1>3, <2>2, BeforeIsTransitive DEF IdInv
<1>5. Latest'
  <2>1. \A i \in 1..Len(ids') : i = Len(ids') \/ i \in 1..Len(ids)
    BY <1>2 DEF IdInv
  <2> QED
    BY <1>2, <1>3, <1>4, <2>1 DEF Latest, Before
<1>6. IdsIncrease'
  <2>1. SUFFICES ASSUME NEW i \in 1..Len(ids'), NEW j \in 1..Len(ids'), i < j
                 PROVE  Before(ids'[i], ids'[j])
    BY DEF IdsIncrease, Before
  <2>2. i \in 1..Len(ids)
    BY <1>2, <2>1 DEF IdInv
  <2>3. CASE j = Len(ids')
    BY <1>2, <1>3, <1>4, <2>2, <2>3
  <2>4. CASE j \in 1..Len(ids)
    BY <1>3, <2>1, <2>2, <2>4 DEF IdInv, IdsIncrease
  <2> QED
    BY <1>2, <2>3, <2>4 DEF IdInv
<1> QED
  BY <1>1, <1>2, <1>5, <1>6 DEF IdInv

\* No two identifiers of a process are equal or sort the wrong way, whatever its
\* clock does: ulid of ids.py.
THEOREM IdentifiersIncrease == IdSpec => []IdsIncrease
<1>1. IdInit => IdInv
  BY DEF IdInit, IdInv, Stamp, Latest, IdsIncrease
<1>2. IdInv /\ [IdNext]_idVars => IdInv'
  <2>1. SUFFICES ASSUME IdInv, [IdNext]_idVars PROVE IdInv'
    OBVIOUS
  <2>2. CASE IdNext
    <3>1. PICK now \in 0..Times-1, random \in 0..Randoms-1 : Issue(now, random)
      BY <2>2 DEF IdNext
    <3> QED
      BY <2>1, <3>1, IssueKeepsOrder, IdentifierParameters
  <2>3. CASE UNCHANGED idVars
    BY <2>1, <2>3 DEF idVars, IdInv, Latest, IdsIncrease, Before
  <2> QED
    BY <2>1, <2>2, <2>3
<1>3. IdInv => IdsIncrease
  BY DEF IdInv
<1> QED
  BY <1>1, <1>2, <1>3, PTL DEF IdSpec
=============================================================================
