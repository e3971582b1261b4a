---------------------------- MODULE HelperProofs ----------------------------
(***************************************************************************)
(* Theorems about the small machines around the merge: the prepared        *)
(* statements of module Binder, for any number of calls; the division of   *)
(* a file by module NewlineChunks, for every file, every number of chunks  *)
(* and every length of the buffer; and the script of ParallelScript, for   *)
(* any number of processors, batches, runs and interrupts.                 *)
(***************************************************************************)
EXTENDS Binder, NewlineChunks, ParallelScript, FiniteSetTheorems, TLAPS

-----------------------------------------------------------------------------
(* The prepared statements.                                                *)

Binders == [stmt : Kind \cup {"dead", "null"}, started : BOOLEAN]

BinderType ==
  /\ phase \in {"open", "setup", "emplaced", "serve", "extract", "end", "closed", "gone"}
  /\ binder \in [Handle -> Binders]
  /\ raised \in BOOLEAN
  /\ asked \in [Kind -> Nat] /\ runs \in [Kind -> Int] /\ failed \in [Kind -> Nat]

\* Where the binders are: what is not yet, or no longer, in the vector of the
\* statements that are kept owns nothing.
Nowhere(H) == \A h \in H : binder[h] = Dead
Kept ==
  /\ binder["insert"].stmt = "INSERT"
  /\ binder["replace"].stmt = "REPLACE" /\ binder["replace"].started = FALSE

Ownership ==
  /\ phase = "open" => Nowhere(Handle)
  /\ phase = "setup" => Nowhere({"first", "insert", "replace"})
  /\ phase = "emplaced" => binder["first"] = Made("INSERT")
                           /\ Nowhere({"temp", "insert", "replace"})
  /\ phase = "serve" => Kept /\ Nowhere({"temp", "first"})
  /\ phase = "extract" => Kept /\ Nowhere({"first"}) /\ binder["temp"] = Made("SELECT")
  /\ phase = "end" => Kept /\ Nowhere({"first"})
  /\ phase = "closed" /\ ~raised =>
       /\ Nowhere({"temp", "first"})
       /\ binder["insert"].started = TRUE /\ binder["replace"].started = TRUE
  /\ raised => phase \in {"setup", "end", "closed", "gone"}

\* The calls that are asked for and neither executed nor failed yet.
Due(k) ==
  IF phase \in {"setup", "end"} /\ Runs(binder["temp"]) /\ binder["temp"].stmt = k THEN 1 ELSE 0
Balanced == \A k \in Kind \ {"SELECT"} : runs[k] + failed[k] = asked[k] - Due(k)

BinderInv == BinderType /\ Ownership /\ Balanced

-----------------------------------------------------------------------------
\* What a destructor executes: nothing, or the statement of the temporary
\* (sqlite_modern_cpp.h:259-265).
LEMMA RunsNothing ==
  ASSUME BinderType, NEW b, NEW H, \A h \in H : ~Runs(b[h])
  PROVE  RunBy(b, H) = runs
<1>1. \A k \in Kind : {h \in H : Runs(b[h]) /\ b[h].stmt = k} = {}
  OBVIOUS
<1>2. Cardinality({}) = 0
  BY FS_EmptySet
<1>3. \A k \in Kind : runs[k] + 0 = runs[k]
  BY DEF BinderType
<1>4. RunBy(b, H) = [k \in Kind |-> runs[k] + 0]
  BY <1>1, <1>2 DEF RunBy
<1> QED
  BY <1>3, <1>4 DEF BinderType

LEMMA RunsTemporary ==
  ASSUME BinderType, NEW k \in Kind, binder["temp"].stmt = k, Runs(binder["temp"])
  PROVE  RunBy(binder, {"temp"}) = Add(runs, k)
<1>1. {h \in {"temp"} : Runs(binder[h]) /\ binder[h].stmt = k} = {"temp"}
  OBVIOUS
<1>2. \A j \in Kind \ {k} : {h \in {"temp"} : Runs(binder[h]) /\ binder[h].stmt = j} = {}
  OBVIOUS
<1>3. Cardinality({}) = 0 /\ Cardinality({"temp"}) = 1
  BY FS_EmptySet, FS_Singleton
<1>4. /\ RunBy(binder, {"temp"})[k] = runs[k] + 1
      /\ \A j \in Kind \ {k} : RunBy(binder, {"temp"})[j] = runs[j] + 0
  BY <1>1, <1>2, <1>3 DEF RunBy
<1>5. \A j \in Kind : RunBy(binder, {"temp"})[j] = Add(runs, k)[j]
  BY <1>4 DEF Add, BinderType
<1>6. RunBy(binder, {"temp"}) = [j \in Kind |-> RunBy(binder, {"temp"})[j]]
  BY DEF RunBy
<1> QED
  BY <1>5, <1>6 DEF Add, BinderType

-----------------------------------------------------------------------------
USE DEF Kind, Handle

\* The types of what handles are given.
LEMMA MadeType ==
  /\ Dead \in Binders /\ ~(Dead.stmt \in Kind) /\ Dead.started = TRUE
  /\ \A k \in Kind : Made(k) \in Binders /\ Made(k).stmt = k /\ Made(k).started = FALSE
BY DEF Dead, Made, Binders

LEMMA Restarted ==
  ASSUME BinderType, NEW h \in Handle, NEW x \in BOOLEAN
  PROVE  LET b == [binder EXCEPT ![h].started = x]
         IN /\ b \in [Handle -> Binders]
            /\ b[h].stmt = binder[h].stmt /\ b[h].started = x
            /\ \A g \in Handle \ {h} : b[g] = binder[g]
<1>1. binder[h] \in Binders
  BY DEF BinderType
<1>2. LET r == [binder[h] EXCEPT !.started = x]
      IN r \in Binders /\ r.stmt = binder[h].stmt /\ r.started = x
  BY <1>1 DEF Binders
<1> QED
  BY <1>2 DEF BinderType

LEMMA Initial == BinderInit => BinderInv
<1> SUFFICES ASSUME BinderInit PROVE BinderInv
  OBVIOUS
<1>1. phase = "open" /\ raised = FALSE /\ binder = [h \in Handle |-> Dead]
  BY DEF BinderInit
<1>2. binder \in [Handle -> Binders]
  BY <1>1, MadeType
<1>3. asked \in [Kind -> Nat] /\ runs \in [Kind -> Int] /\ failed \in [Kind -> Nat]
  BY DEF BinderInit
<1>4. BinderType
  BY <1>1, <1>2, <1>3 DEF BinderType
<1>5. Ownership
  BY <1>1 DEF Ownership, Nowhere
<1>6. Balanced
  BY <1>1 DEF BinderInit, Balanced, Due
<1> QED
  BY <1>4, <1>5, <1>6 DEF BinderInv

\* What a constructor that throws leaves behind, when the vector is made.
LEMMA EmplaceThrows ==
  ASSUME BinderInv, phase \in {"open", "emplaced"}, raised' = TRUE, phase' = "closed",
         UNCHANGED <<binder, runs, asked, failed>>
  PROVE  BinderInv'
<1>1. BinderType'
  BY DEF BinderInv, BinderType
<1>2. Ownership'
  BY DEF Ownership
<1>3. Balanced'
  BY DEF BinderInv, Balanced, Due
<1> QED
  BY <1>1, <1>2, <1>3 DEF BinderInv

LEMMA EmplaceInsertKeeps == BinderInv /\ EmplaceInsert => BinderInv'
<1> SUFFICES ASSUME BinderInv, EmplaceInsert PROVE BinderInv'
  OBVIOUS
<1> DEFINE b == Moved([binder EXCEPT !["temp"] = Made("INSERT")], "temp", "first")
<1>a. phase = "open" /\ UNCHANGED <<asked, failed>>
  BY DEF EmplaceInsert
<1>b. CASE raised' = TRUE /\ phase' = "closed" /\ UNCHANGED <<binder, runs>>
  BY <1>a, <1>b, EmplaceThrows
<1>c. CASE /\ binder' = Destroyed(b, {"temp"}) /\ runs' = RunBy(b, {"temp"})
           /\ phase' = "emplaced" /\ UNCHANGED raised
  <2>2. b["temp"].stmt = "null"
    BY DEF BinderInv, BinderType, Moved, Made
  <2>3. runs' = runs
    <3>1. \A h \in {"temp"} : ~Runs(b[h])
      BY <2>2 DEF Runs
    <3> HIDE DEF b
    <3> QED
      BY <1>c, <3>1, RunsNothing DEF BinderInv
  <2>4. b["first"] = Made("INSERT")
    BY DEF BinderInv, BinderType, Moved
  <2>5. b["insert"] = Dead /\ b["replace"] = Dead
    BY <1>a DEF BinderInv, BinderType, Ownership, Nowhere, Moved
  <2>6. binder' = [h \in Handle |-> IF h = "first" THEN Made("INSERT") ELSE Dead]
    <3> HIDE DEF b
    <3> QED
      BY <1>c, <2>4, <2>5 DEF Destroyed
  <2>7. BinderType'
    BY <1>a, <1>c, <2>3, <2>6, MadeType DEF BinderInv, BinderType
  <2>8. Ownership'
    BY <1>a, <1>c, <2>6 DEF BinderInv, Ownership, Nowhere
  <2>9. Balanced'
    BY <1>a, <1>c, <2>3 DEF BinderInv, Balanced, Due
  <2> QED
    BY <2>7, <2>8, <2>9 DEF BinderInv
<1> QED
  BY <1>b, <1>c DEF EmplaceInsert

LEMMA EmplaceReplaceKeeps == BinderInv /\ EmplaceReplace => BinderInv'
<1> SUFFICES ASSUME BinderInv, EmplaceReplace PROVE BinderInv'
  OBVIOUS
<1> DEFINE made  == [binder EXCEPT !["temp"] = Made("REPLACE")]
           grown == Moved(Moved(made, "temp", "replace"), "first", "insert")
<1>a. phase = "emplaced" /\ UNCHANGED <<asked, failed>>
  BY DEF EmplaceReplace
<1>b. CASE raised' = TRUE /\ phase' = "closed" /\ UNCHANGED <<binder, runs>>
  BY <1>a, <1>b, EmplaceThrows
<1>c. CASE /\ binder' = Destroyed(grown, {"temp", "first"})
           /\ runs' = RunBy(grown, {"temp", "first"})
           /\ phase' = "serve" /\ UNCHANGED raised
  <2>2. grown["temp"].stmt = "null" /\ grown["first"].stmt = "null"
    BY DEF BinderInv, BinderType, Moved, Made
  <2>3. runs' = runs
    <3>1. \A h \in {"temp", "first"} : ~Runs(grown[h])
      BY <2>2 DEF Runs
    <3> HIDE DEF grown
    <3> QED
      BY <1>c, <3>1, RunsNothing DEF BinderInv
  <2>4. grown["replace"] = Made("REPLACE")
    BY DEF BinderInv, BinderType, Moved
  <2>5. grown["insert"] = Made("INSERT")
    BY <1>a DEF BinderInv, BinderType, Ownership, Moved
  <2>6. /\ binder' = [h \in Handle |-> binder'[h]]
        /\ binder'["insert"] = Made("INSERT") /\ binder'["replace"] = Made("REPLACE")
        /\ binder'["temp"] = Dead /\ binder'["first"] = Dead
    <3> HIDE DEF grown
    <3> QED
      BY <1>c, <2>4, <2>5 DEF Destroyed
  <2>7. BinderType'
    <3>1. binder' \in [Handle -> Binders]
      BY <2>6, MadeType
    <3> QED
      BY <1>a, <1>c, <2>3, <3>1 DEF BinderInv, BinderType
  <2>8. Ownership'
    <3>1. Kept'
      BY <2>6, MadeType DEF Kept
    <3> QED
      BY <1>a, <1>c, <2>6, <3>1 DEF BinderInv, Ownership, Nowhere
  <2>9. Balanced'
    BY <1>a, <1>c, <2>3 DEF BinderInv, Balanced, Due
  <2> QED
    BY <2>7, <2>8, <2>9 DEF BinderInv
<1> QED
  BY <1>b, <1>c DEF EmplaceReplace

LEMMA InsertOrReplaceKeeps == BinderInv /\ InsertOrReplace => BinderInv'
<1> SUFFICES ASSUME BinderInv, InsertOrReplace PROVE BinderInv'
  OBVIOUS
<1>1. phase = "serve" /\ ~raised /\ asked' = Add(asked, "INSERT")
  BY DEF InsertOrReplace, MayCall, BinderInv, Ownership
<1>2. CASE /\ binder' = [binder EXCEPT !["insert"].started = TRUE]
           /\ runs' = Add(runs, "INSERT")
           /\ UNCHANGED <<phase, raised, failed>>
  <2>1. UNCHANGED <<phase, raised, failed>> /\ runs' = Add(runs, "INSERT")
    BY <1>2
  <2>2. /\ binder' \in [Handle -> Binders]
        /\ binder'["insert"].stmt = binder["insert"].stmt
        /\ \A g \in Handle \ {"insert"} : binder'[g] = binder[g]
    BY <1>2, Restarted DEF BinderInv
  <2>3. Balanced'
    BY <1>1, <2>1 DEF BinderInv, BinderType, Balanced, Due, Add
  <2>4. BinderType'
    BY <1>1, <2>1, <2>2 DEF BinderInv, BinderType, Add
  <2>5. Ownership'
    BY <1>1, <2>1, <2>2 DEF BinderInv, Ownership, Nowhere, Kept
  <2> QED
    BY <2>3, <2>4, <2>5 DEF BinderInv
<1>3. CASE /\ binder' = [binder EXCEPT !["insert"].started = FALSE]
           /\ raised' = TRUE /\ phase' = "closed" /\ failed' = Add(failed, "INSERT")
           /\ UNCHANGED runs
  <2>1. binder' \in [Handle -> Binders]
    BY <1>3, Restarted DEF BinderInv
  <2>2. BinderType'
    BY <1>1, <1>3, <2>1 DEF BinderInv, BinderType, Add
  <2>3. Ownership'
    BY <1>3 DEF Ownership
  <2>4. Balanced'
    BY <1>1, <1>3 DEF BinderInv, BinderType, Balanced, Due, Add
  <2> QED
    BY <2>2, <2>3, <2>4 DEF BinderInv
<1> QED
  BY <1>2, <1>3 DEF InsertOrReplace

\* A call: the types stay, and what is asked for is due, or has failed.
LEMMA PrepareKeeps ==
  ASSUME BinderInv, ~raised, NEW k \in Kind, NEW then, NEW end, Prepare(k, then, end),
         phase \in {"open", "serve"}, then \in {"setup", "extract", "end"}, end \in {"setup", "end"},
         then = "extract" <=> k = "SELECT"
  PROVE  /\ BinderType' /\ Balanced'
         /\ phase' = IF raised' THEN end ELSE then
         /\ ~raised' => binder'["temp"] = Made(k)
         /\ \A g \in Handle \ {"temp"} : binder'[g] = binder[g]
<1>1. asked' = Add(asked, k) /\ runs' = runs
  BY DEF Prepare
<1>2. CASE /\ binder' = [binder EXCEPT !["temp"] = Made(k)]
           /\ phase' = then /\ UNCHANGED <<raised, failed>>
  <2>1. binder'["temp"] = Made(k) /\ \A g \in Handle \ {"temp"} : binder'[g] = binder[g]
    BY <1>2 DEF BinderInv, BinderType
  <2>2. BinderType'
    <3>1. binder' \in [Handle -> Binders]
      BY <1>2, MadeType DEF BinderInv, BinderType
    <3> QED
      BY <1>1, <1>2, <3>1 DEF BinderInv, BinderType, Add
  <2>3. Balanced'
    <3> SUFFICES ASSUME NEW j \in Kind \ {"SELECT"}
                 PROVE  runs'[j] + failed'[j] = asked'[j] - Due(j)'
      BY DEF Balanced
    <3>1. runs[j] + failed[j] = asked[j] - 0
      BY DEF BinderInv, Balanced, Due
    <3>2. Runs(binder["temp"])' /\ binder'["temp"].stmt = k
      BY <1>2, <2>1, MadeType DEF Runs
    <3>3. Due(j)' = IF j = k THEN 1 ELSE 0
      BY <1>2, <3>2 DEF Due
    <3>4. asked'[j] = IF j = k THEN asked[j] + 1 ELSE asked[j]
      BY <1>1 DEF Add, BinderInv, BinderType
    <3> QED
      BY <1>1, <1>2, <3>1, <3>3, <3>4 DEF BinderInv, BinderType
  <2> QED
    BY <1>2, <2>1, <2>2, <2>3
<1>3. CASE /\ binder' = binder \/ binder' = [binder EXCEPT !["temp"] = Made(k)]
           /\ phase' = end /\ raised' = TRUE /\ failed' = Add(failed, k)
  <2>1. \A g \in Handle \ {"temp"} : binder'[g] = binder[g]
    BY <1>3 DEF BinderInv, BinderType
  <2>2. BinderType'
    <3>1. binder' \in [Handle -> Binders]
      BY <1>3, MadeType DEF BinderInv, BinderType
    <3> QED
      BY <1>1, <1>3, <3>1 DEF BinderInv, BinderType, Add
  <2>3. Balanced'
    <3> SUFFICES ASSUME NEW j \in Kind \ {"SELECT"}
                 PROVE  runs'[j] + failed'[j] = asked'[j] - Due(j)'
      BY DEF Balanced
    <3>1. runs[j] + failed[j] = asked[j] - 0
      BY DEF BinderInv, Balanced, Due
    <3>2. Due(j)' = 0
      BY <1>3 DEF Due, Runs
    <3>3. /\ asked'[j] = IF j = k THEN asked[j] + 1 ELSE asked[j]
          /\ failed'[j] = IF j = k THEN failed[j] + 1 ELSE failed[j]
      BY <1>1, <1>3 DEF Add, BinderInv, BinderType
    <3> QED
      BY <1>1, <3>1, <3>2, <3>3 DEF BinderInv, BinderType
  <2> QED
    BY <1>3, <2>1, <2>2, <2>3
<1> QED
  BY <1>2, <1>3 DEF Prepare

LEMMA PrepareSetupKeeps == BinderInv /\ PrepareSetup => BinderInv'
<1> SUFFICES ASSUME BinderInv, PrepareSetup PROVE BinderInv'
  OBVIOUS
<1>1. phase = "open" /\ ~raised /\ Prepare("setup", "setup", "setup") /\ Nowhere(Handle)
  BY DEF PrepareSetup, BinderInv, Ownership
<1>2. /\ BinderType' /\ Balanced' /\ phase' = "setup"
      /\ \A g \in Handle \ {"temp"} : binder'[g] = binder[g]
  BY <1>1, PrepareKeeps
<1>3. Ownership'
  BY <1>1, <1>2 DEF Ownership, Nowhere
<1> QED
  BY <1>2, <1>3 DEF BinderInv

LEMMA PrepareCallKeeps == BinderInv /\ (PreparePlain \/ PrepareSelect) => BinderInv'
<1> SUFFICES ASSUME BinderInv, PreparePlain \/ PrepareSelect PROVE BinderInv'
  OBVIOUS
<1>1. phase = "serve" /\ ~raised /\ Kept /\ Nowhere({"temp", "first"})
  BY DEF PreparePlain, PrepareSelect, MayCall, BinderInv, Ownership
<1>2. /\ BinderType' /\ Balanced' /\ phase' \in {"extract", "end"}
      /\ phase' = "extract" => ~raised' /\ binder'["temp"] = Made("SELECT")
      /\ \A g \in Handle \ {"temp"} : binder'[g] = binder[g]
  <2>1. CASE Prepare("plain", "end", "end")
    BY <1>1, <2>1, PrepareKeeps
  <2>2. CASE Prepare("SELECT", "extract", "end")
    <3>1. /\ BinderType' /\ Balanced'
          /\ phase' = IF raised' THEN "end" ELSE "extract"
          /\ ~raised' => binder'["temp"] = Made("SELECT")
          /\ \A g \in Handle \ {"temp"} : binder'[g] = binder[g]
      BY <1>1, <2>2, PrepareKeeps
    <3> QED
      BY <3>1
  <2> QED
    BY <2>1, <2>2 DEF PreparePlain, PrepareSelect
<1>3. Ownership'
  BY <1>1, <1>2 DEF Ownership, Nowhere, Kept
<1> QED
  BY <1>2, <1>3 DEF BinderInv

LEMMA ExtractKeeps == BinderInv /\ Extract => BinderInv'
<1> SUFFICES ASSUME BinderInv, Extract PROVE BinderInv'
  OBVIOUS
<1>1. /\ phase = "extract" /\ phase' = "end" /\ runs' = Add(runs, "SELECT")
      /\ asked' = asked /\ failed' = failed /\ raised' \in BOOLEAN
      /\ \/ binder' = [binder EXCEPT !["temp"].started = FALSE]
         \/ binder' = [binder EXCEPT !["temp"].started = TRUE]
  BY DEF Extract, BinderInv, BinderType
<1>2. /\ binder' \in [Handle -> Binders]
      /\ binder'["temp"].stmt = binder["temp"].stmt
      /\ \A g \in Handle \ {"temp"} : binder'[g] = binder[g]
  <2>1. BinderType /\ "temp" \in Handle
    BY DEF BinderInv
  <2>2. CASE binder' = [binder EXCEPT !["temp"].started = FALSE]
    BY <2>1, <2>2, Restarted
  <2>3. CASE binder' = [binder EXCEPT !["temp"].started = TRUE]
    BY <2>1, <2>3, Restarted
  <2> QED
    BY <1>1, <2>2, <2>3
<1>3. BinderType'
  BY <1>1, <1>2 DEF BinderInv, BinderType, Add
<1>4. Ownership' /\ binder'["temp"].stmt = "SELECT"
  BY <1>1, <1>2, MadeType DEF BinderInv, Ownership, Nowhere, Kept
<1>5. Balanced'
  BY <1>1, <1>4 DEF BinderInv, BinderType, Balanced, Due, Add
<1> QED
  BY <1>3, <1>4, <1>5 DEF BinderInv

\* The end of an expression: what was due has been executed or has failed.
LEMMA EndKeeps ==
  ASSUME BinderInv, NEW back, NEW caught \in BOOLEAN, Finish(back, caught),
         phase \in {"setup", "end"}, back \in {"open", "serve"}
  PROVE  /\ BinderType' /\ Balanced'
         /\ phase' = IF raised' THEN "closed" ELSE back
         /\ binder' = [binder EXCEPT !["temp"] = Dead]
<1>1. /\ binder' = [binder EXCEPT !["temp"] = Dead] /\ asked' = asked /\ raised' \in BOOLEAN
      /\ phase' = IF raised' THEN "closed" ELSE back
  BY DEF Finish, Destroyed, BinderInv, BinderType
<1>2. binder' \in [Handle -> Binders]
  BY <1>1, MadeType DEF BinderInv, BinderType
<1>3. \A j \in Kind : Due(j)' = 0
  BY <1>1 DEF Due
<1>4. CASE ~Runs(binder["temp"])
  <2>1. \A h \in {"temp"} : ~Runs(binder[h])
    BY <1>4
  <2>2. runs' = runs /\ failed' = failed
    BY <1>4, <2>1, RunsNothing DEF Finish, BinderInv
  <2>3. BinderType'
    BY <1>1, <1>2, <2>2 DEF BinderInv, BinderType
  <2>4. \A j \in Kind : Due(j) = 0
    BY <1>4 DEF Due
  <2>5. Balanced'
    BY <1>1, <1>3, <2>2, <2>4 DEF BinderInv, Balanced
  <2> QED
    BY <1>1, <2>3, <2>5
<1>5. CASE Runs(binder["temp"])
  <2> DEFINE k == binder["temp"].stmt
  <2>1. k \in Kind
    BY <1>5 DEF Runs
  <2>2. \/ runs' = Add(runs, k) /\ failed' = failed
        \/ runs' = runs /\ failed' = Add(failed, k)
    BY <1>5, <2>1, RunsTemporary DEF Finish, BinderInv
  <2>3. \A j \in Kind : Due(j) = IF j = k THEN 1 ELSE 0
    BY <1>5 DEF Due
  <2> HIDE DEF k
  <2>4. BinderType'
    BY <1>1, <1>2, <2>1, <2>2 DEF BinderInv, BinderType, Add
  <2>5. Balanced'
    <3> SUFFICES ASSUME NEW j \in Kind \ {"SELECT"}
                 PROVE  runs'[j] + failed'[j] = asked'[j] - Due(j)'
      BY DEF Balanced
    <3>1. runs[j] + failed[j] = asked[j] - (IF j = k THEN 1 ELSE 0)
      BY <2>3 DEF BinderInv, Balanced
    <3>2. \/ /\ runs'[j] = runs[j] + (IF j = k THEN 1 ELSE 0)
             /\ failed'[j] = failed[j]
          \/ /\ runs'[j] = runs[j]
             /\ failed'[j] = failed[j] + (IF j = k THEN 1 ELSE 0)
      BY <2>1, <2>2 DEF BinderInv, BinderType, Add
    <3> QED
      BY <1>1, <1>3, <3>1, <3>2 DEF BinderInv, BinderType
  <2> QED
    BY <1>1, <2>4, <2>5
<1> QED
  BY <1>4, <1>5

LEMMA EndSetupKeeps == BinderInv /\ EndSetup => BinderInv'
<1> SUFFICES ASSUME BinderInv, EndSetup PROVE BinderInv'
  OBVIOUS
<1> DEFINE caught == asked["setup"] \in Tolerated
<1>1. phase = "setup" /\ Finish("open", caught)
  BY DEF EndSetup
<1>2. caught \in BOOLEAN
  OBVIOUS
<1> HIDE DEF caught
<1>3. /\ BinderType' /\ Balanced'
      /\ phase' = IF raised' THEN "closed" ELSE "open"
      /\ binder' = [binder EXCEPT !["temp"] = Dead]
  BY <1>1, <1>2, EndKeeps
<1>4. Ownership'
  BY <1>1, <1>3 DEF BinderInv, BinderType, Ownership, Nowhere
<1> QED
  BY <1>3, <1>4 DEF BinderInv

LEMMA EndExpressionKeeps == BinderInv /\ EndExpression => BinderInv'
<1> SUFFICES ASSUME BinderInv, EndExpression PROVE BinderInv'
  OBVIOUS
<1>1. phase = "end" /\ Finish("serve", FALSE)
  BY DEF EndExpression
<1>2. /\ BinderType' /\ Balanced'
      /\ phase' = IF raised' THEN "closed" ELSE "serve"
      /\ binder' = [binder EXCEPT !["temp"] = Dead]
  BY <1>1, EndKeeps
<1>3. Ownership'
  BY <1>1, <1>2 DEF BinderInv, BinderType, Ownership, Nowhere, Kept
<1> QED
  BY <1>2, <1>3 DEF BinderInv

LEMMA MainThrowsKeeps == BinderInv /\ MainThrows => BinderInv'
<1> SUFFICES ASSUME BinderInv, MainThrows PROVE BinderInv'
  OBVIOUS
<1>1. /\ phase = "serve" /\ phase' = "closed" /\ raised' = TRUE
      /\ UNCHANGED <<binder, asked, runs, failed>>
  BY DEF MainThrows
<1>2. BinderType' /\ Ownership'
  BY <1>1 DEF BinderInv, BinderType, Ownership
<1>3. Balanced'
  BY <1>1 DEF BinderInv, Balanced, Due
<1> QED
  BY <1>2, <1>3 DEF BinderInv

LEMMA CloseForWritingKeeps == BinderInv /\ CloseForWriting => BinderInv'
<1> SUFFICES ASSUME BinderInv, CloseForWriting PROVE BinderInv'
  OBVIOUS
<1>1. /\ phase = "serve" /\ ~raised /\ phase' = "closed" /\ UNCHANGED <<raised, asked, runs, failed>>
      /\ binder' = [binder EXCEPT !["insert"].started = TRUE, !["replace"].started = TRUE]
  BY DEF CloseForWriting, BinderInv, Ownership
<1>2. /\ binder' \in [Handle -> Binders]
      /\ binder'["insert"].started = TRUE /\ binder'["replace"].started = TRUE
      /\ binder'["temp"] = binder["temp"] /\ binder'["first"] = binder["first"]
  <2>1. binder["insert"] \in Binders /\ binder["replace"] \in Binders
    BY DEF BinderInv, BinderType
  <2>2. \A r \in Binders : LET q == [r EXCEPT !.started = TRUE] IN q \in Binders /\ q.started = TRUE
    BY DEF Binders
  <2> QED
    BY <1>1, <2>1, <2>2 DEF BinderInv, BinderType
<1>3. BinderType'
  BY <1>1, <1>2 DEF BinderInv, BinderType
<1>4. Ownership'
  BY <1>1, <1>2 DEF BinderInv, Ownership, Nowhere
<1>5. Balanced'
  BY <1>1 DEF BinderInv, Balanced, Due
<1> QED
  BY <1>3, <1>4, <1>5 DEF BinderInv

LEMMA DestroyRunsNothing == BinderInv /\ Destroy => runs' = runs
<1> SUFFICES ASSUME BinderInv, Destroy PROVE runs' = runs
  OBVIOUS
<1>1. phase = "closed" /\ (runs' = RunBy(binder, Handle) \/ runs' = runs)
  BY DEF Destroy
<1>2. \A h \in Handle : ~Runs(binder[h])
  BY <1>1 DEF BinderInv, BinderType, Ownership, Nowhere, Runs, Dead
<1> QED
  BY <1>1, <1>2, RunsNothing DEF BinderInv

LEMMA DestroyKeeps == BinderInv /\ Destroy => BinderInv'
<1> SUFFICES ASSUME BinderInv, Destroy PROVE BinderInv'
  OBVIOUS
<1>1. /\ phase = "closed" /\ phase' = "gone" /\ UNCHANGED <<raised, asked, failed>>
      /\ binder' = Destroyed(binder, Handle) \/ binder' = binder
  BY DEF Destroy
<1>2. binder' \in [Handle -> Binders]
  BY <1>1, MadeType DEF Destroyed, BinderInv, BinderType
<1>3. \A k \in Kind : Due(k) = 0 /\ Due(k)' = 0
  BY <1>1 DEF Due
<1>4. Balanced'
  BY <1>1, <1>3, DestroyRunsNothing DEF BinderInv, Balanced
<1> QED
  BY <1>1, <1>2, <1>4, DestroyRunsNothing DEF BinderInv, BinderType, Ownership

LEMMA BinderStep == BinderInv /\ [BinderNext]_binderVars => BinderInv'
<1> SUFFICES ASSUME BinderInv, [BinderNext]_binderVars PROVE BinderInv'
  OBVIOUS
<1>1. CASE UNCHANGED binderVars
  <2>1. UNCHANGED <<phase, binder, raised, asked, runs, failed>>
    BY <1>1 DEF binderVars
  <2>2. BinderType' /\ Ownership'
    BY <2>1 DEF BinderInv, BinderType, Ownership, Nowhere, Kept
  <2>3. Balanced'
    BY <2>1 DEF BinderInv, Balanced, Due, Runs
  <2> QED
    BY <2>2, <2>3 DEF BinderInv
<1> QED
  BY <1>1, PrepareSetupKeeps, EndSetupKeeps, EmplaceInsertKeeps, EmplaceReplaceKeeps,
     InsertOrReplaceKeeps, PrepareCallKeeps, ExtractKeeps, EndExpressionKeeps, MainThrowsKeeps,
     CloseForWritingKeeps, DestroyKeeps DEF BinderNext

LEMMA BinderInductive == BinderSpec => []BinderInv
<1>1. BinderInv /\ [BinderNext]_binderVars => BinderInv'
  BY BinderStep
<1> QED
  BY Initial, <1>1, PTL DEF BinderSpec

-----------------------------------------------------------------------------
\* However many calls there are and whatever throws: each statement that was asked
\* for has been executed once or has failed (sqlite_modern_cpp.h:120-142, 190-196,
\* 259-265, mbtiles.cpp:64-86, 109-118, 167-168).
THEOREM NoStrayRow == BinderSpec => []RunsAsAsked
<1>1. BinderInv => RunsAsAsked
  <2> SUFFICES ASSUME BinderInv, phase \notin {"setup", "extract", "end"},
                      NEW k \in Kind \ {"SELECT"}
               PROVE  runs[k] + failed[k] = asked[k]
    BY DEF RunsAsAsked
  <2>1. Due(k) = 0
    BY DEF Due
  <2>2. asked[k] - 0 = asked[k]
    BY DEF BinderInv, BinderType
  <2> QED
    BY <2>1, <2>2 DEF BinderInv, Balanced
<1> QED
  BY BinderInductive, <1>1, PTL
(* The chunks partition the file and end at newlines.                      *)

LEMMA SmallerType ==
  ASSUME NEW a \in Int, NEW b \in Int
  PROVE  Smaller(a, b) \in {a, b} /\ Smaller(a, b) <= a /\ Smaller(a, b) <= b
BY DEF Smaller

\* The file only grows, which moves no newline.
LEMMA GrowKeeps ==
  ASSUME TypeOK, Grow
  PROVE  /\ file' \in Seq(Byte) /\ Len(file') = Len(file) + 1
         /\ \A n \in 0 .. Len(file) - 1 : IsNewline(n)' <=> IsNewline(n)
         /\ UNCHANGED <<pc, size, chunkSize, offset, length, at, eof, rv>>
BY DEF Grow, TypeOK, IsNewline

\* A chunk is pushed behind the ones that are there.
LEMMA PushChunk ==
  ASSUME TypeOK, NEW i \in Nat, Push(i)
  PROVE  /\ rv' \in Seq(Chunk) /\ Len(rv') = Len(rv) + 1 /\ Len(rv) \in Nat
         /\ rv' # <<>>
         /\ \A k \in DOMAIN rv' : k \in DOMAIN rv \/ k = Len(rv) + 1
         /\ \A k \in DOMAIN rv : k \in DOMAIN rv' /\ rv'[k] = rv[k] /\ k <= Len(rv)
         /\ rv'[Len(rv) + 1] = [offset |-> offset, length |-> length + i]
         /\ offset' = offset + length + i /\ offset' \in Nat
         /\ length' = length + i /\ length' \in Nat /\ pc' = "chunk"
<1>1. [offset |-> offset, length |-> length + i] \in Chunk
  BY DEF TypeOK, Chunk
<1> QED  BY <1>1, SMTT(30) DEF Push, TypeOK

LEMMA RvEmpty ==
  ASSUME TypeOK
  PROVE  /\ rv = <<>> <=> Len(rv) = 0
         /\ Len(rv) \in Nat /\ DOMAIN rv = 1 .. Len(rv)
BY DEF TypeOK

\* What the two ends of a scan have in common: the chunk [offset, e) ends at
\* the first newline or with the file.
LEMMA PushInv ==
  ASSUME IInv, pc = "scan", NEW i \in Nat, Push(i),
         UNCHANGED <<file, size, chunkSize>>, at' \in Nat, eof' \in BOOLEAN,
         at + i <= Len(file),
         \A n \in at .. at + i - 1 : ~IsNewline(n),
         IF at + i < Len(file) /\ IsNewline(at + i) THEN TRUE ELSE at + i >= size
  PROVE  IInv'
<1> DEFINE new == Len(rv) + 1
           least == offset + Smaller(chunkSize, size - offset)
<1>1. /\ TypeOK /\ offset \in Nat /\ length \in Nat /\ at \in Nat /\ size \in Nat
      /\ chunkSize \in Nat /\ chunkSize > 0 /\ Len(file) \in Nat
      /\ at = offset + length /\ offset < size /\ least <= at
      /\ \A n \in least .. at - 1 : ~IsNewline(n)
  BY DEF IInv, TypeOK, FrontierInv, ScanInv
<1>2. /\ \A k \in DOMAIN rv' : k \in DOMAIN rv \/ k = new
      /\ \A k \in DOMAIN rv : k \in DOMAIN rv' /\ rv'[k] = rv[k] /\ k <= Len(rv)
      /\ rv'[new].offset = offset /\ rv'[new].length = length + i
      /\ rv' \in Seq(Chunk) /\ Len(rv') = new /\ rv' # <<>> /\ Len(rv) \in Nat
      /\ offset' = at + i /\ pc' = "chunk"
  <2>1. /\ rv' \in Seq(Chunk) /\ Len(rv') = new /\ Len(rv) \in Nat /\ rv' # <<>>
        /\ \A k \in DOMAIN rv' : k \in DOMAIN rv \/ k = new
        /\ \A k \in DOMAIN rv : k \in DOMAIN rv' /\ rv'[k] = rv[k] /\ k <= Len(rv)
        /\ rv'[new] = [offset |-> offset, length |-> length + i]
        /\ offset' = offset + length + i /\ pc' = "chunk"
    BY <1>1, PushChunk
  <2>2. offset' = at + i
    BY <1>1, <2>1
  <2>3. rv'[new].offset = offset /\ rv'[new].length = length + i
    BY <2>1
  <2> QED  BY <2>1, <2>2, <2>3
<1>3. DOMAIN rv = 1 .. Len(rv) /\ (rv = <<>> <=> Len(rv) = 0)
  BY <1>1, RvEmpty
<1>4. /\ \A k : k = new => End(k)' = at + i
      /\ \A k \in DOMAIN rv : End(k)' = End(k)
  BY <1>1, <1>2 DEF End
<1>5. /\ Smaller(chunkSize, size - offset) > 0
      /\ Smaller(chunkSize, size - offset) <= chunkSize /\ least \in Nat
      /\ Smaller(chunkSize, size - offset) = chunkSize \/ least = size
  BY <1>1 DEF Smaller
<1>6. TypeOK'
  BY <1>1, PushChunk DEF TypeOK
<1>7. FrontierInv'
  <2>1. End(Len(rv))' = at + i
    BY <1>1, <1>2 DEF End
  <2> QED  BY <1>1, <1>2, <2>1 DEF FrontierInv, IInv
<1>8. Partition'
  <2>1. \A k \in DOMAIN rv' :
          /\ rv'[k].length > 0
          /\ rv'[k].offset = IF k = 1 THEN 0 ELSE End(k - 1)'
          /\ k < Len(rv') => rv'[k].length >= chunkSize
    <3> SUFFICES ASSUME NEW k \in DOMAIN rv'
                 PROVE  /\ rv'[k].length > 0
                        /\ rv'[k].offset = IF k = 1 THEN 0 ELSE End(k - 1)'
                        /\ k < Len(rv') => rv'[k].length >= chunkSize
      OBVIOUS
    <3>1. CASE k = new
      <4>1. rv'[k].length > 0
        BY <1>1, <1>2, <1>5, <3>1
      <4>2. offset = IF k = 1 THEN 0 ELSE End(k - 1)'
        <5>1. CASE rv = <<>>
          BY <1>3, <3>1, <5>1 DEF IInv, FrontierInv
        <5>2. CASE rv # <<>>
          <6>1. k # 1 /\ k - 1 = Len(rv) /\ Len(rv) \in DOMAIN rv
            BY <1>2, <1>3, <3>1, <5>2
          <6>2. offset = End(Len(rv))
            BY <5>2 DEF IInv, FrontierInv
          <6> QED  BY <1>4, <6>1, <6>2
        <5> QED  BY <5>1, <5>2
      <4> QED  BY <1>2, <3>1, <4>1, <4>2
    <3>2. CASE k \in DOMAIN rv
      <4>1. /\ rv[k].length > 0
            /\ rv[k].offset = IF k = 1 THEN 0 ELSE End(k - 1)
            /\ k < Len(rv) => rv[k].length >= chunkSize
        BY <3>2 DEF IInv, Partition
      <4>2. k # 1 => k - 1 \in DOMAIN rv
        BY <1>3, <3>2
      <4>3. k = Len(rv) => rv[k].length >= chunkSize
        <5> SUFFICES ASSUME k = Len(rv) PROVE rv[k].length >= chunkSize
          OBVIOUS
        <5>1. rv[k] \in Chunk
          BY <1>1, <3>2 DEF TypeOK
        <5>2. /\ rv[k].offset + Smaller(chunkSize, size - rv[k].offset) <= End(k)
              /\ End(k) = offset
          BY <1>3, <3>2 DEF IInv, EndsAtFirstNewline, FrontierInv
        <5> QED  BY <1>1, <5>1, <5>2 DEF Smaller, End, Chunk
      <4> QED  BY <1>2, <1>3, <1>4, <3>2, <4>1, <4>2, <4>3
    <3> QED  BY <1>2, <3>1, <3>2
  <2> QED  BY <1>2, <2>1 DEF Partition
<1>9. EndsAtFirstNewline'
  <2>1. \A n : IsNewline(n)' <=> IsNewline(n)
    BY DEF IsNewline
  <2> SUFFICES ASSUME NEW k \in DOMAIN rv'
               PROVE  LET l == rv'[k].offset + Smaller(chunkSize, size - rv'[k].offset)
                      IN /\ l <= End(k)' /\ End(k)' <= Len(file)
                         /\ \A n \in l .. End(k)' - 1 : ~IsNewline(n)
                         /\ IF End(k)' < Len(file) /\ IsNewline(End(k)') THEN TRUE
                            ELSE k = Len(rv') /\ End(k)' >= size
    BY <2>1 DEF EndsAtFirstNewline
  <2>2. CASE k = new
    <3>1. \A n \in least .. at + i - 1 : ~IsNewline(n)
      <4>1. \A n \in least .. at + i - 1 : n \in least .. at - 1 \/ n \in at .. at + i - 1
        BY <1>1, <1>5
      <4> QED  BY <1>1, <4>1
    <3>2. least <= at + i
      BY <1>1, <1>5
    <3>3. /\ rv'[k].offset + Smaller(chunkSize, size - rv'[k].offset) = least
          /\ End(k)' = at + i /\ k = Len(rv')
      BY <1>2, <1>4, <2>2
    <3>4. IF at + i < Len(file) /\ IsNewline(at + i) THEN TRUE ELSE at + i >= size
      OBVIOUS
    <3> HIDE DEF least
    <3> DEFINE l == rv'[k].offset + Smaller(chunkSize, size - rv'[k].offset)
               e == End(k)'
    <3>5. l = least /\ e = at + i
      BY <3>3
    <3> HIDE DEF l, e
    <3>6. l <= e /\ e <= Len(file) /\ \A n \in l .. e - 1 : ~IsNewline(n)
      BY <1>1, <1>5, <3>1, <3>2, <3>5
    <3>7. IF e < Len(file) /\ IsNewline(e) THEN TRUE ELSE k = Len(rv') /\ e >= size
      BY <3>3, <3>4, <3>5
    <3> QED  BY <3>6, <3>7 DEF l, e
  <2>3. CASE k \in DOMAIN rv
    <3>1. LET l == rv[k].offset + Smaller(chunkSize, size - rv[k].offset)
          IN /\ l <= End(k) /\ End(k) <= Len(file)
             /\ \A n \in l .. End(k) - 1 : ~IsNewline(n)
             /\ IF End(k) < Len(file) /\ IsNewline(End(k)) THEN TRUE
                ELSE k = Len(rv) /\ End(k) >= size
      BY <2>3 DEF IInv, EndsAtFirstNewline
    <3>2. ~(k = Len(rv) /\ End(k) >= size)
      BY <1>1, <1>3, <2>3 DEF IInv, FrontierInv
    <3> QED  BY <1>2, <1>4, <2>3, <3>1, <3>2
  <2> QED  BY <1>2, <2>2, <2>3
<1>10. ScanInv'
  BY <1>2 DEF ScanInv
<1> QED  BY <1>6, <1>7, <1>8, <1>9, <1>10 DEF IInv

LEMMA StepInv ==
  ASSUME IInv, [Next]_vars
  PROVE  IInv'
<1>a. TypeOK /\ FrontierInv /\ ScanInv /\ Partition /\ EndsAtFirstNewline
  BY DEF IInv
<1>b. DOMAIN rv = 1 .. Len(rv) /\ Len(rv) \in Nat
  BY <1>a, RvEmpty
<1>c. \A k \in DOMAIN rv : End(k) \in Nat /\ rv[k].offset \in Nat
  <2>1. \A k \in DOMAIN rv : rv[k] \in Chunk
    BY <1>a DEF TypeOK
  <2> QED  BY <2>1 DEF End, Chunk
<1>1. CASE Grow
  <2>1. /\ file' \in Seq(Byte) /\ Len(file') = Len(file) + 1 /\ Len(file) \in Nat
        /\ \A n \in 0 .. Len(file) - 1 : IsNewline(n)' <=> IsNewline(n)
        /\ UNCHANGED <<pc, size, chunkSize, offset, length, at, eof, rv>>
    BY <1>a, <1>1, GrowKeeps DEF TypeOK
  <2>2. TypeOK'
    BY <1>a, <2>1 DEF TypeOK
  <2>3. FrontierInv'
    BY <1>a, <2>1 DEF FrontierInv, End, TypeOK
  <2>4. ScanInv'
    <3> SUFFICES ASSUME pc = "scan"
                 PROVE  LET least == offset + Smaller(chunkSize, size - offset)
                        IN /\ offset < size /\ least <= at /\ at <= Len(file')
                           /\ at = offset + length
                           /\ \A n \in least .. at - 1 : ~IsNewline(n)'
                           /\ eof => at >= size
      BY <2>1 DEF ScanInv
    <3> DEFINE least == offset + Smaller(chunkSize, size - offset)
    <3>1. /\ offset < size /\ least <= at /\ at <= Len(file) /\ at = offset + length
          /\ \A n \in least .. at - 1 : ~IsNewline(n)
          /\ eof => at >= size
          /\ least \in Nat /\ at \in Nat
      BY <1>a DEF ScanInv, TypeOK, Smaller
    <3> HIDE DEF least
    <3>2. \A n \in least .. at - 1 : ~IsNewline(n)'
      BY <2>1, <3>1
    <3>3. at <= Len(file')
      BY <2>1, <3>1
    <3> QED  BY <3>1, <3>2, <3>3 DEF least
  <2>5. Partition'
    BY <1>a, <2>1 DEF Partition, End
  <2>6. EndsAtFirstNewline'
    <3> SUFFICES ASSUME NEW k \in DOMAIN rv
                 PROVE  LET l == rv[k].offset + Smaller(chunkSize, size - rv[k].offset)
                        IN /\ l <= End(k) /\ End(k) <= Len(file')
                           /\ \A n \in l .. End(k) - 1 : ~IsNewline(n)'
                           /\ IF End(k) < Len(file') /\ file'[End(k) + 1] = "newline" THEN TRUE
                              ELSE k = Len(rv) /\ End(k) >= size
      BY <2>1 DEF EndsAtFirstNewline, End, IsNewline
    <3> DEFINE l == rv[k].offset + Smaller(chunkSize, size - rv[k].offset)
    <3>1. /\ l <= End(k) /\ End(k) <= Len(file)
          /\ \A n \in l .. End(k) - 1 : ~IsNewline(n)
          /\ IF End(k) < Len(file) /\ IsNewline(End(k)) THEN TRUE
             ELSE k = Len(rv) /\ End(k) >= size
      BY <1>a DEF EndsAtFirstNewline
    <3>2. l \in Nat /\ End(k) \in Nat
      BY <1>a, <1>c DEF TypeOK, Smaller
    <3> HIDE DEF l
    <3>3. \A n \in l .. End(k) - 1 : ~IsNewline(n)'
      BY <2>1, <3>1, <3>2
    <3>4. End(k) < Len(file) /\ IsNewline(End(k)) => file'[End(k) + 1] = "newline"
      <4>1. End(k) < Len(file) => End(k) \in 0 .. Len(file) - 1
        BY <1>c, <2>1
      <4> QED  BY <2>1, <4>1 DEF IsNewline
    <3> QED  BY <1>c, <2>1, <3>1, <3>3, <3>4 DEF l
  <2> QED  BY <2>2, <2>3, <2>4, <2>5, <2>6 DEF IInv
<1>2. CASE Stat
  <2>1. /\ pc' = "chunk" /\ size' = Len(file) /\ chunkSize' \in Nat /\ chunkSize' > 0
        /\ pc = "stat" /\ UNCHANGED <<file, offset, length, at, eof, rv>>
    <3>1. Len(file) \in Nat /\ Len(file) \div Chunks \in Nat
      BY <1>a, NewlineChunksAssumption DEF TypeOK
    <3> HIDE NewlineChunksAssumption
    <3> QED  BY <1>2, <3>1 DEF Stat
  <2>2. rv = <<>> /\ DOMAIN rv = {} /\ offset = 0
    BY <1>a, <1>b, <2>1, RvEmpty DEF FrontierInv
  <2>3. Len(file) \in Nat
    BY <1>a DEF TypeOK
  <2> QED  BY <1>a, <2>1, <2>2, <2>3
           DEF IInv, TypeOK, FrontierInv, ScanInv, Partition, EndsAtFirstNewline
<1>3. CASE StartChunk
  <2>1. /\ pc = "chunk" /\ offset < size /\ length' = Smaller(chunkSize, size - offset)
        /\ at' = offset + length' /\ eof' = FALSE /\ pc' = "scan"
        /\ UNCHANGED <<file, size, chunkSize, offset, rv>>
    BY <1>3 DEF StartChunk
  <2>2. /\ length' \in Nat /\ length' <= size - offset /\ at' \in Nat
        /\ size \in Nat /\ offset \in Nat /\ Len(file) \in Nat
    BY <1>a, <2>1 DEF TypeOK, Smaller
  <2>3. TypeOK'
    BY <1>a, <2>1, <2>2 DEF TypeOK
  <2>4. FrontierInv' /\ Partition' /\ EndsAtFirstNewline'
    BY <1>a, <2>1 DEF FrontierInv, Partition, EndsAtFirstNewline, End, IsNewline
  <2>5. ScanInv'
    BY <1>a, <2>1, <2>2 DEF ScanInv, FrontierInv
  <2> QED  BY <2>3, <2>4, <2>5 DEF IInv
<1>4. Len(file) \in Nat /\ at \in Nat /\ size \in Nat /\ Buffer \in Nat \ {0}
  BY <1>a, NewlineChunksAssumption DEF TypeOK
<1>5. pc = "scan" => /\ at <= Len(file) /\ Read \in Nat
                     /\ Read <= Len(file) - at /\ Read <= Buffer
                     /\ Read = 0 => at = Len(file)
                     /\ Read < Buffer => at + Read = Len(file)
                     /\ size <= Len(file)
  BY <1>a, <1>4 DEF ScanInv, FrontierInv, Read, Smaller
<1>6. CASE ReadNothing
  <2>1. at + 0 >= size /\ at + 0 <= Len(file) /\ pc = "scan" /\ Push(0)
        /\ UNCHANGED <<file, size, chunkSize, at, eof>>
    BY <1>a, <1>4, <1>5, <1>6 DEF ReadNothing, ScanInv
  <2>2. at' \in Nat /\ eof' \in BOOLEAN
    BY <1>a, <2>1 DEF TypeOK
  <2>3. \A n \in at .. at + 0 - 1 : ~IsNewline(n)
    BY <1>4
  <2> HIDE DEF Push
  <2> QED  BY <2>1, <2>2, <2>3, PushInv
<1>7. CASE Find
  <2> PICK i \in 0 .. Read - 1 : /\ IsNewline(at + i)
                                 /\ \A j \in 0 .. i - 1 : ~IsNewline(at + j)
                                 /\ Push(i) /\ at' = at + Read
    BY <1>7 DEF Find
  <2>1. pc = "scan" /\ UNCHANGED <<file, size, chunkSize, eof>>
    BY <1>7 DEF Find
  <2>2. /\ i \in Nat /\ at + i < Len(file) /\ at + i <= Len(file)
        /\ at' \in Nat /\ eof' \in BOOLEAN
    BY <1>a, <1>4, <1>5, <2>1 DEF TypeOK
  <2>3. \A n \in at .. at + i - 1 : ~IsNewline(n)
    <3> SUFFICES ASSUME NEW n \in at .. at + i - 1 PROVE ~IsNewline(n)
      OBVIOUS
    <3>1. n - at \in 0 .. i - 1 /\ at + (n - at) = n
      BY <1>4, <2>2
    <3> QED  BY <3>1
  <2> HIDE DEF Push
  <2> QED  BY <2>1, <2>2, <2>3, PushInv
<1>8. CASE FindNone
  <2>1. /\ pc = "scan" /\ pc' = "scan" /\ Read > 0 /\ ~eof
        /\ \A j \in 0 .. Read - 1 : ~IsNewline(at + j)
        /\ length' = length + Read /\ at' = at + Read /\ eof' = (Read < Buffer)
        /\ UNCHANGED <<file, size, chunkSize, offset, rv>>
    BY <1>8 DEF FindNone
  <2>2. TypeOK'
    BY <1>a, <1>5, <2>1 DEF TypeOK
  <2>3. FrontierInv' /\ Partition' /\ EndsAtFirstNewline'
    BY <1>a, <2>1 DEF FrontierInv, Partition, EndsAtFirstNewline, End, IsNewline
  <2>4. ScanInv'
    <3> DEFINE least == offset + Smaller(chunkSize, size - offset)
    <3>1. /\ offset < size /\ least <= at /\ at = offset + length
          /\ \A n \in least .. at - 1 : ~IsNewline(n)
          /\ least \in Int /\ offset \in Nat /\ length \in Nat
      BY <1>a, <2>1 DEF ScanInv, TypeOK, Smaller
    <3> HIDE DEF least
    <3>2. \A n \in least .. at + Read - 1 : ~IsNewline(n)
      <4> SUFFICES ASSUME NEW n \in least .. at + Read - 1, ~(n \in least .. at - 1)
                   PROVE  ~IsNewline(n)
        BY <3>1
      <4>1. n - at \in 0 .. Read - 1 /\ at + (n - at) = n
        BY <1>4, <1>5, <2>1, <3>1
      <4> QED  BY <2>1, <4>1
    <3>3. at + Read <= Len(file) /\ least <= at + Read
          /\ at + Read = offset + (length + Read)
          /\ ((Read < Buffer) => at + Read >= size)
      BY <1>4, <1>5, <2>1, <3>1
    <3>4. ScanInv' <=>
            /\ offset < size /\ least <= at' /\ at' <= Len(file)
            /\ at' = offset + length'
            /\ \A n \in least .. at' - 1 : ~IsNewline(n)
            /\ eof' => at' >= size
      BY <2>1 DEF ScanInv, least, IsNewline
    <3>5. eof' => at + Read >= size
      BY <2>1, <3>3, Zenon
    <3>6. at' = at + Read /\ length' = length + Read
      BY <2>1
    <3> QED  BY <1>4, <1>5, <2>1, <3>1, <3>2, <3>3, <3>4, <3>5, <3>6, SMTT(30)
  <2> QED  BY <2>2, <2>3, <2>4 DEF IInv
<1>9. CASE Return
  <2>1. /\ pc = "chunk" /\ pc' = "done" /\ offset >= size
        /\ UNCHANGED <<file, size, chunkSize, offset, length, at, eof, rv>>
    BY <1>9 DEF Return
  <2>2. TypeOK' /\ ScanInv' /\ EndsAtFirstNewline' /\ FrontierInv'
    BY <1>a, <2>1 DEF TypeOK, ScanInv, EndsAtFirstNewline, FrontierInv, End, IsNewline
  <2>3. Partition'
    BY <1>a, <2>1 DEF Partition, FrontierInv, End, TypeOK
  <2> QED  BY <2>2, <2>3 DEF IInv
<1>10. CASE UNCHANGED vars
  BY <1>a, <1>10 DEF vars, IInv, TypeOK, ScanInv, EndsAtFirstNewline, FrontierInv,
     Partition, End, IsNewline
<1> QED  BY <1>1, <1>2, <1>3, <1>6, <1>7, <1>8, <1>9, <1>10 DEF Next, Step

\* The invariant holds for every file and buffer.
THEOREM Inductive == Spec => []IInv
<1>1. Init => IInv
  <2> SUFFICES ASSUME Init PROVE IInv
    OBVIOUS
  <2>1. TypeOK
    <3>1. <<>> \in Seq(Byte) /\ <<>> \in Seq(Chunk)
      OBVIOUS
    <3> QED  BY <3>1 DEF Init, TypeOK
  <2>2. DOMAIN rv = {} /\ Len(file) = 0
    BY DEF Init
  <2> QED  BY <2>1, <2>2
           DEF Init, IInv, FrontierInv, ScanInv, Partition, EndsAtFirstNewline
<1>2. IInv /\ [Next]_vars => IInv'
  BY StepInv
<1> QED  BY <1>1, <1>2, PTL DEF Spec

\* The chunks are a partition of the file (helpers.cpp:195-222).
THEOREM ChunksPartition == Spec => []Partition
<1>1. IInv => Partition
  BY DEF IInv
<1> QED  BY <1>1, Inductive, PTL

\* Where a chunk ends does not depend on the buffer (helpers.cpp:200-218).
THEOREM ChunksEndAtNewlines == Spec => []EndsAtFirstNewline
<1>1. IInv => EndsAtFirstNewline
  BY DEF IInv
<1> QED  BY <1>1, Inductive, PTL

-----------------------------------------------------------------------------
(* The script and its children, of this run and of earlier ones.           *)

USE ParallelScriptAssumption DEF Run, Shard, Child

\* Who has been launched, and into which files: a child of run r meets the
\* file of its own run or a later one.
Generations ==
  /\ generation = IF stage = "rm" THEN run - 1 ELSE run
  /\ stage = "rm" => next = 0
LaunchOrder ==
  /\ \A r \in Run, s \in Shard : r > run \/ (r = run /\ stage = "rm") => child[<<r, s>>] = "none"
  /\ stage = "launch" => \A s \in Shard : child[<<run, s>>] # "none" <=> s < next
  /\ stage = "record" => \A s \in Shard : child[<<run, s>>] # "none" <=> s <= next
  /\ stage = "wait" => \A s \in Shard : child[<<run, s>>] # "none"

\* What a child is good for in each of its states.
ChildInv ==
  \A r \in Run, s \in Shard :
    /\ child[<<r, s>>] \in {"none", "loading"} \/ opened[<<r, s>>] = 0 =>
         opened[<<r, s>>] = 0 /\ batch[<<r, s>>] = 0
    /\ child[<<r, s>>] \in {"writing", "ok"} => opened[<<r, s>>] # 0
    /\ child[<<r, s>>] = "ok" => batch[<<r, s>>] = Batches
    /\ opened[<<r, s>>] # 0 => r <= opened[<<r, s>>] /\ opened[<<r, s>>] <= generation

\* Of all that have opened a file, the one that has written batches of a
\* shard has written all that are there.
OneAuthor ==
  \A r \in Run, s \in Shard :
    opened[<<r, s>>] # 0 /\ batch[<<r, s>>] > 0 => rows[opened[<<r, s>>]][s] = batch[<<r, s>>]

\* What the loops and the handler have seen.
WaitInv ==
  /\ stage = "wait" => \A s \in Shard : s < next => child[<<run, s>>] = "ok"
  /\ stage = "exited" /\ code = 0 => \A s \in Shard : child[<<run, s>>] = "ok"
TrapInv ==
  trap => /\ stage \in {"launch", "record", "wait"} /\ interrupts > 0
          /\ \A s \in Shard : s < kills => ~Alive(<<run, s>>)

ScriptInv ==
  /\ ScriptTypeOK /\ Generations /\ LaunchOrder /\ ChildInv /\ OneAuthor /\ NoBatchTwice
  /\ WaitInv /\ TrapInv /\ LeftBehindByFailure

-----------------------------------------------------------------------------
LEMMA ChildTypes ==
  ASSUME ScriptTypeOK, NEW r \in Run, NEW s \in Shard
  PROVE  /\ <<r, s>> \in Child /\ r \in Int /\ s \in Int
         /\ opened[<<r, s>>] \in 0 .. MaxRuns /\ batch[<<r, s>>] \in 0 .. Batches
         /\ child[<<r, s>>] \in {"none", "loading", "writing", "ok", "failed"}
<1>1. <<r, s>> \in Child /\ r \in Int /\ s \in Int
  OBVIOUS
<1> HIDE DEF Child
<1>2. opened[<<r, s>>] \in 0 .. MaxRuns /\ batch[<<r, s>>] \in 0 .. Batches
  BY <1>1 DEF ScriptTypeOK
<1>3. child[<<r, s>>] \in {"none", "loading", "writing", "ok", "failed"}
  BY <1>1 DEF ScriptTypeOK
<1> QED
  BY <1>1, <1>2, <1>3

LEMMA ScriptInitial == ScriptInit => ScriptInv
<1> SUFFICES ASSUME ScriptInit PROVE ScriptInv
  OBVIOUS
<1>1. ScriptTypeOK
  <2>1. /\ run \in Run /\ stage = "rm" /\ next \in Shard /\ trap = FALSE /\ kills \in 0 .. Shards
        /\ code \in {0, 1} /\ interrupts \in 0 .. Interrupts /\ generation \in 0 .. MaxRuns
    BY DEF ScriptInit
  <2>2. /\ child \in [Child -> {"none", "loading", "writing", "ok", "failed"}]
        /\ opened \in [Child -> 0 .. MaxRuns] /\ batch \in [Child -> 0 .. Batches]
    BY DEF ScriptInit
  <2>3. rows \in [Run -> [Shard -> 0 .. Batches]]
    BY DEF ScriptInit
  <2> QED
    BY <2>1, <2>2, <2>3 DEF ScriptTypeOK
<1>2. Generations /\ WaitInv /\ TrapInv /\ LeftBehindByFailure
  BY DEF ScriptInit, Generations, WaitInv, TrapInv, LeftBehindByFailure
<1>3. LaunchOrder /\ ChildInv /\ OneAuthor /\ NoBatchTwice
  BY DEF ScriptInit, LaunchOrder, ChildInv, OneAuthor, NoBatchTwice
<1> QED
  BY <1>1, <1>2, <1>3 DEF ScriptInv

\* What the invariant says of the files depends on no more than this.
LEMMA FilesKeep ==
  ASSUME ScriptInv, UNCHANGED <<run, opened, batch, rows, generation>>,
         \A r \in Run, s \in Shard :
           \/ child'[<<r, s>>] = child[<<r, s>>]
           \/ child'[<<r, s>>] = "failed"
           \/ child'[<<r, s>>] = "loading" /\ child[<<r, s>>] = "none"
  PROVE  ChildInv' /\ OneAuthor' /\ NoBatchTwice'
<1> HIDE DEF Child, Run, Shard
<1>1. ChildInv'
  BY DEF ScriptInv, ChildInv
<1>2. OneAuthor'
  BY DEF ScriptInv, OneAuthor
<1>3. NoBatchTwice'
  BY DEF ScriptInv, NoBatchTwice
<1> QED
  BY <1>1, <1>2, <1>3

LEMMA RemoveKeeps == ScriptInv /\ Remove => ScriptInv'
<1> SUFFICES ASSUME ScriptInv, Remove PROVE ScriptInv'
  OBVIOUS
<1>1. /\ stage = "rm" /\ stage' = "launch" /\ generation' = generation + 1
      /\ UNCHANGED <<run, next, trap, kills, code, interrupts, child, opened, batch, rows>>
  BY DEF Remove, children
<1>2. generation' = run
  BY <1>1 DEF ScriptInv, ScriptTypeOK, Generations
<1>3. ScriptTypeOK'
  BY <1>1, <1>2 DEF ScriptInv, ScriptTypeOK
<1>4. Generations' /\ WaitInv' /\ TrapInv' /\ LeftBehindByFailure'
  BY <1>1, <1>2 DEF ScriptInv, ScriptTypeOK, Generations, WaitInv, TrapInv, LeftBehindByFailure
<1>5. LaunchOrder'
  <2>1. run \in Run /\ next = 0
    BY <1>1 DEF ScriptInv, ScriptTypeOK, Generations
  <2>2. \A s \in Shard : child[<<run, s>>] = "none"
    BY <1>1, <2>1 DEF ScriptInv, LaunchOrder
  <2>3. \A s \in Shard : ~(s < next)
    BY <2>1
  <2>4. \A r \in Run, s \in Shard : r > run => child[<<r, s>>] = "none"
    BY DEF ScriptInv, LaunchOrder
  <2> QED
    BY <1>1, <2>2, <2>3, <2>4 DEF LaunchOrder
<1>6. ChildInv' /\ OneAuthor' /\ NoBatchTwice'
  <2>1. generation \in Int
    BY DEF ScriptInv, ScriptTypeOK
  <2>2. ChildInv'
    <3> SUFFICES ASSUME NEW r \in Run, NEW s \in Shard, opened[<<r, s>>] # 0,
                        opened[<<r, s>>] <= generation
                 PROVE  opened[<<r, s>>] <= generation + 1
      BY <1>1 DEF ScriptInv, ChildInv
    <3> QED
      BY <2>1, ChildTypes DEF ScriptInv
  <2>3. OneAuthor' /\ NoBatchTwice'
    <3>1. UNCHANGED <<opened, batch, rows>>
      BY <1>1
    <3> HIDE DEF Child, Run, Shard
    <3>2. OneAuthor'
      BY <3>1 DEF ScriptInv, OneAuthor
    <3>3. NoBatchTwice'
      BY <3>1 DEF ScriptInv, NoBatchTwice
    <3> QED
      BY <3>2, <3>3
  <2> QED
    BY <2>2, <2>3
<1> QED
  BY <1>3, <1>4, <1>5, <1>6 DEF ScriptInv

LEMMA LaunchKeeps == ScriptInv /\ Launch => ScriptInv'
<1> SUFFICES ASSUME ScriptInv, Launch PROVE ScriptInv'
  OBVIOUS
<1>1. /\ stage = "launch" /\ ~trap /\ next \in Shard /\ run \in Run /\ generation = run
      /\ child' = [child EXCEPT ![<<run, next>>] = "loading"] /\ stage' = "record"
      /\ UNCHANGED <<run, next, trap, kills, code, interrupts, opened, batch, rows, generation>>
  BY DEF Launch, ScriptInv, ScriptTypeOK, Generations
<1>2. /\ child'[<<run, next>>] = "loading" /\ child[<<run, next>>] = "none"
      /\ \A r \in Run, s \in Shard :
           r # run \/ s # next => child'[<<r, s>>] = child[<<r, s>>]
  <2>1. <<run, next>> \in Child /\ DOMAIN child = Child
    BY <1>1, ChildTypes DEF ScriptInv, ScriptTypeOK
  <2>2. \A r \in Run, s \in Shard : <<r, s>> \in Child
    BY ChildTypes DEF ScriptInv
  <2>3. child'[<<run, next>>] = "loading"
    BY <1>1, <2>1
  <2>4. child[<<run, next>>] = "none"
    BY <1>1 DEF ScriptInv, LaunchOrder
  <2>5. \A r \in Run, s \in Shard :
          r # run \/ s # next => child'[<<r, s>>] = child[<<r, s>>]
    BY <1>1, <2>1, <2>2
  <2> QED
    BY <2>3, <2>4, <2>5
<1>3. LaunchOrder'
  <2>1. \A r \in Run, s \in Shard : r > run => child'[<<r, s>>] = "none"
    BY <1>1, <1>2 DEF ScriptInv, LaunchOrder
  <2>2. \A s \in Shard : child'[<<run, s>>] # "none" <=> s <= next
    BY <1>1, <1>2 DEF ScriptInv, LaunchOrder
  <2> QED
    BY <1>1, <2>1, <2>2 DEF LaunchOrder
<1>4. ScriptTypeOK'
  <2>1. child' \in [Child -> {"none", "loading", "writing", "ok", "failed"}]
    BY <1>1 DEF ScriptInv, ScriptTypeOK
  <2> QED
    BY <1>1, <2>1 DEF ScriptInv, ScriptTypeOK
<1>5. Generations'
  BY <1>1 DEF Generations
<1>6. ChildInv' /\ OneAuthor' /\ NoBatchTwice'
  BY <1>1, <1>2, FilesKeep
<1>7. WaitInv' /\ TrapInv' /\ LeftBehindByFailure'
  BY <1>1 DEF WaitInv, TrapInv, LeftBehindByFailure
<1> QED
  BY <1>3, <1>4, <1>5, <1>6, <1>7 DEF ScriptInv

LEMMA RecordKeeps == ScriptInv /\ Record => ScriptInv'
<1> SUFFICES ASSUME ScriptInv, Record PROVE ScriptInv'
  OBVIOUS
<1>1. /\ stage = "record" /\ ~trap /\ next \in Shard /\ run \in Run
      /\ next' = (next + 1) % Shards
      /\ stage' = IF next' = 0 THEN "wait" ELSE "launch"
      /\ UNCHANGED <<run, trap, kills, code, interrupts, generation>>
      /\ UNCHANGED <<child, opened, batch, rows>>
  BY DEF Record, children, ScriptInv, ScriptTypeOK
<1>2. /\ next + 1 < Shards => next' = next + 1 /\ stage' = "launch"
      /\ next + 1 = Shards => next' = 0 /\ stage' = "wait"
      /\ next + 1 <= Shards
  BY <1>1
<1>3. next' \in Shard /\ stage' \in {"launch", "wait"}
  BY <1>1, <1>2
<1>4. LaunchOrder'
  <2>1. \A r \in Run, s \in Shard : r > run => child'[<<r, s>>] = "none"
    BY <1>1 DEF ScriptInv, LaunchOrder
  <2>2. \A s \in Shard : child'[<<run, s>>] # "none" <=> s <= next
    BY <1>1 DEF ScriptInv, LaunchOrder
  <2> QED
    BY <1>1, <1>2, <1>3, <2>1, <2>2 DEF LaunchOrder
<1>5. ScriptTypeOK'
  BY <1>1, <1>3, <1>4 DEF ScriptInv, ScriptTypeOK, LaunchOrder, Launched
<1>6. Generations'
  BY <1>1, <1>3 DEF ScriptInv, Generations
<1>7. ChildInv' /\ OneAuthor' /\ NoBatchTwice'
  BY <1>1, FilesKeep
<1>8. WaitInv' /\ TrapInv' /\ LeftBehindByFailure'
  BY <1>1, <1>2, <1>3 DEF WaitInv, TrapInv, LeftBehindByFailure
<1> QED
  BY <1>4, <1>5, <1>6, <1>7, <1>8 DEF ScriptInv

\* The steps of the script that leave the children alone.
LEMMA ScriptKeeps ==
  ASSUME ScriptInv, UNCHANGED <<run, children, generation>>, stage \in {"launch", "record", "wait"},
         stage' \in {stage, "exited"}, next' \in Shard, trap' \in BOOLEAN, kills' \in 0 .. Shards,
         code' \in {0, 1}, interrupts' \in 0 .. Interrupts,
         stage' # "exited" /\ stage # "wait" => next' = next
  PROVE  /\ ScriptTypeOK' /\ Generations' /\ ChildInv' /\ OneAuthor' /\ NoBatchTwice'
         /\ LaunchOrder'
<1>1. UNCHANGED <<child, opened, batch, rows>>
  BY DEF children
<1>2. ScriptTypeOK'
  BY <1>1 DEF ScriptInv, ScriptTypeOK, Launched
<1>3. Generations'
  BY DEF ScriptInv, Generations
<1>4. ChildInv' /\ OneAuthor' /\ NoBatchTwice'
  BY <1>1, FilesKeep
<1>5. LaunchOrder'
  BY <1>1 DEF ScriptInv, LaunchOrder
<1> QED
  BY <1>2, <1>3, <1>4, <1>5

LEMMA WaitKeeps == ScriptInv /\ Wait => ScriptInv'
<1> SUFFICES ASSUME ScriptInv, Wait PROVE ScriptInv'
  OBVIOUS
<1>1. /\ stage = "wait" /\ ~trap /\ ~Alive(<<run, next>>) /\ next \in Shard /\ run \in Run
      /\ UNCHANGED <<run, trap, kills, interrupts, children, generation>>
  BY DEF Wait, ScriptInv, ScriptTypeOK
<1>2. child' = child /\ code \in {0, 1} /\ kills \in 0 .. Shards /\ interrupts \in 0 .. Interrupts
      /\ trap \in BOOLEAN
  BY <1>1 DEF children, ScriptInv, ScriptTypeOK
<1>3. CASE child[<<run, next>>] = "ok" /\ next + 1 < Shards
  <2>1. next' = next + 1 /\ stage' = stage /\ code' = code
    BY <1>3 DEF Wait
  <2>2. next' \in Shard
    BY <1>1, <1>3, <2>1
  <2>3. \A s \in Shard : s < next' => child'[<<run, s>>] = "ok"
    BY <1>1, <1>2, <1>3, <2>1 DEF ScriptInv, WaitInv
  <2>4. WaitInv' /\ TrapInv' /\ LeftBehindByFailure'
    BY <1>1, <2>1, <2>3 DEF WaitInv, TrapInv, LeftBehindByFailure
  <2> QED
    BY <1>1, <1>2, <2>1, <2>2, <2>4, ScriptKeeps DEF ScriptInv
<1>4. CASE ~(child[<<run, next>>] = "ok" /\ next + 1 < Shards)
  <2>1. /\ stage' = "exited" /\ next' = next
        /\ code' = IF child[<<run, next>>] = "ok" THEN 0 ELSE 1
    BY <1>4 DEF Wait, Exit
  <2>2. CASE child[<<run, next>>] = "ok"
    <3>1. \A s \in Shard : s < next \/ s = next
      BY <1>1, <1>4, <2>2
    <3>2. \A s \in Shard : child[<<run, s>>] = "ok"
      BY <1>1, <2>2, <3>1 DEF ScriptInv, WaitInv
    <3> QED
      BY <1>1, <1>2, <2>1, <3>2, ScriptKeeps DEF ScriptInv, WaitInv, TrapInv, LeftBehindByFailure, Alive
  <2>3. CASE child[<<run, next>>] # "ok"
    <3>1. child[<<run, next>>] = "failed"
      BY <1>1, <2>3, ChildTypes DEF ScriptInv, LaunchOrder, Alive
    <3>2. LeftBehindByFailure'
      <4> SUFFICES ASSUME NEW s \in Shard, Alive(<<run, s>>)'
                   PROVE  \E t \in Shard : t < s /\ child'[<<run, t>>] = "failed"
        BY <1>1 DEF LeftBehindByFailure
      <4>1. Alive(<<run, s>>)
        BY <1>1, <1>2 DEF Alive
      <4>2. ~(s < next) /\ s # next
        BY <1>1, <4>1 DEF ScriptInv, WaitInv, Alive
      <4>3. next < s
        BY <1>1, <4>2
      <4> QED
        BY <1>1, <1>2, <3>1, <4>3
    <3>3. WaitInv' /\ TrapInv'
      BY <1>1, <2>1, <2>3 DEF WaitInv, TrapInv
    <3> QED
      BY <1>1, <1>2, <2>1, <2>3, <3>2, <3>3, ScriptKeeps DEF ScriptInv
  <2> QED
    BY <2>2, <2>3
<1> QED
  BY <1>3, <1>4

LEMMA InterruptKeeps == ScriptInv /\ Interrupt => ScriptInv'
<1> SUFFICES ASSUME ScriptInv, Interrupt PROVE ScriptInv'
  OBVIOUS
<1>1. /\ stage \in {"launch", "record", "wait"} /\ stage' = stage /\ next' = next /\ code' = code
      /\ trap' = TRUE /\ kills' = 0 /\ interrupts' = interrupts + 1 /\ interrupts < Interrupts
      /\ UNCHANGED <<run, children, generation>> /\ child' = child
  BY DEF Interrupt, children
<1>2. /\ next' \in Shard /\ kills' \in 0 .. Shards /\ code' \in {0, 1}
      /\ interrupts' \in 0 .. Interrupts /\ interrupts' > 0
  BY <1>1 DEF ScriptInv, ScriptTypeOK
<1>3. WaitInv' /\ LeftBehindByFailure'
  BY <1>1 DEF ScriptInv, WaitInv, LeftBehindByFailure
<1>4. TrapInv'
  BY <1>1, <1>2 DEF TrapInv
<1> QED
  BY <1>1, <1>2, <1>3, <1>4, ScriptKeeps DEF ScriptInv

\* What happens to a child that fails, or that is killed.
LEMMA FailureKeeps ==
  ASSUME ScriptInv, NEW c \in Child, Alive(c), child' = [child EXCEPT ![c] = "failed"],
         UNCHANGED <<run, stage, next, code, interrupts, opened, batch, rows, generation>>,
         trap' = trap, kills' \in 0 .. Shards
  PROVE  /\ ScriptTypeOK' /\ Generations' /\ LaunchOrder' /\ ChildInv' /\ OneAuthor' /\ NoBatchTwice'
         /\ WaitInv' /\ LeftBehindByFailure'
         /\ kills' = kills => TrapInv'
<1>1. \A r \in Run, s \in Shard : <<r, s>> \in Child
  BY ChildTypes DEF ScriptInv
<1>2. /\ child[c] \in {"loading", "writing"} /\ child'[c] = "failed"
      /\ \A d \in Child : d # c => child'[d] = child[d]
  BY DEF ScriptInv, ScriptTypeOK, Alive
<1>3. \A d \in Child : /\ child'[d] = "none" <=> child[d] = "none"
                       /\ child[d] = "ok" => child'[d] = "ok"
                       /\ child[d] = "failed" => child'[d] = "failed"
                       /\ Alive(d)' => Alive(d)
                       /\ child'[d] = child[d] \/ child'[d] = "failed"
  BY <1>2 DEF Alive
<1>4. run \in Run
  BY DEF ScriptInv, ScriptTypeOK
<1> HIDE DEF Child, Run, Shard
<1>5. child' \in [Child -> {"none", "loading", "writing", "ok", "failed"}]
  BY DEF ScriptInv, ScriptTypeOK
<1>6. LaunchOrder'
  BY <1>1, <1>3, <1>4 DEF ScriptInv, LaunchOrder
<1>7. ScriptTypeOK'
  BY <1>1, <1>3, <1>4, <1>5 DEF ScriptInv, ScriptTypeOK, Launched
<1>8. ChildInv' /\ OneAuthor' /\ NoBatchTwice'
  BY <1>1, <1>3, FilesKeep
<1>9. Generations' /\ WaitInv'
  BY <1>1, <1>3, <1>4 DEF ScriptInv, Generations, WaitInv
<1>10. LeftBehindByFailure'
  BY <1>1, <1>3, <1>4 DEF ScriptInv, LeftBehindByFailure
<1>11. kills' = kills => TrapInv'
  BY <1>1, <1>3, <1>4 DEF ScriptInv, TrapInv
<1> QED
  BY <1>6, <1>7, <1>8, <1>9, <1>10, <1>11

LEMMA KillKeeps == ScriptInv /\ Kill => ScriptInv'
<1> SUFFICES ASSUME ScriptInv, Kill PROVE ScriptInv'
  OBVIOUS
<1>1. /\ trap /\ kills < Shards /\ kills' = kills + 1 /\ run \in Run /\ kills \in Shard
      /\ UNCHANGED <<run, stage, next, trap, code, interrupts, opened, batch, rows, generation>>
      /\ stage \in {"launch", "record", "wait"}
  BY DEF Kill, ToKill, ScriptInv, ScriptTypeOK, TrapInv
<1>2. <<run, kills>> \in Child /\ kills' \in 0 .. Shards
  BY <1>1
<1>3. \A s \in Shard : s < kills' => s < kills \/ s = kills
  BY <1>1
<1>4. CASE Alive(<<run, kills>>)
  <2>1. child' = [child EXCEPT ![<<run, kills>>] = "failed"]
    BY <1>4 DEF Kill
  <2>2. /\ child'[<<run, kills>>] = "failed"
        /\ \A s \in Shard : s # kills => child'[<<run, s>>] = child[<<run, s>>]
    BY <1>1, <1>2, <2>1, ChildTypes DEF ScriptInv, ScriptTypeOK
  <2>3. TrapInv'
    <3>1. \A s \in Shard : s < kills' => ~Alive(<<run, s>>)'
      BY <1>1, <1>3, <2>2 DEF ScriptInv, TrapInv, Alive
    <3> QED
      BY <1>1, <3>1 DEF ScriptInv, TrapInv
  <2> QED
    BY <1>1, <1>2, <1>4, <2>1, <2>3, FailureKeeps DEF ScriptInv
<1>5. CASE ~Alive(<<run, kills>>)
  <2>1. child' = child /\ UNCHANGED children
    BY <1>1, <1>5 DEF Kill, children
  <2>2. TrapInv'
    BY <1>1, <1>3, <1>5, <2>1 DEF ScriptInv, TrapInv, Alive
  <2>3. WaitInv' /\ LeftBehindByFailure'
    BY <1>1, <2>1 DEF ScriptInv, WaitInv, LeftBehindByFailure
  <2>4. /\ next' \in Shard /\ trap' \in BOOLEAN /\ code' \in {0, 1}
        /\ interrupts' \in 0 .. Interrupts
    BY <1>1 DEF ScriptInv, ScriptTypeOK
  <2> QED
    BY <1>1, <1>2, <2>1, <2>2, <2>3, <2>4, ScriptKeeps DEF ScriptInv
<1> QED
  BY <1>4, <1>5

LEMMA KillFailsKeeps == ScriptInv /\ KillFails => ScriptInv'
<1> SUFFICES ASSUME ScriptInv, KillFails PROVE ScriptInv'
  OBVIOUS
<1>1. /\ trap /\ stage' = "exited" /\ code' = 1 /\ trap' = FALSE
      /\ UNCHANGED <<run, next, kills, interrupts, children, generation>>
      /\ stage \in {"launch", "record", "wait"} /\ interrupts > 0
  BY DEF KillFails, Exit, ScriptInv, TrapInv
<1>2. next' \in Shard /\ kills' \in 0 .. Shards /\ interrupts' \in 0 .. Interrupts /\ ~(interrupts = 0)
  BY <1>1 DEF ScriptInv, ScriptTypeOK
<1>3. WaitInv' /\ TrapInv' /\ LeftBehindByFailure'
  BY <1>1, <1>2 DEF WaitInv, TrapInv, LeftBehindByFailure
<1> QED
  BY <1>1, <1>2, <1>3, ScriptKeeps DEF ScriptInv

LEMMA TrapReturnsKeeps == ScriptInv /\ TrapReturns => ScriptInv'
<1> SUFFICES ASSUME ScriptInv, TrapReturns PROVE ScriptInv'
  OBVIOUS
<1>1. /\ trap /\ trap' = FALSE
      /\ UNCHANGED <<run, next, kills, interrupts, children, generation>> /\ child' = child
      /\ stage \in {"launch", "record", "wait"} /\ interrupts > 0
      /\ (stage' = stage /\ code' = code) \/ (stage' = "exited" /\ code' = 1)
  BY DEF TrapReturns, Exit, children, ScriptInv, TrapInv
<1>2. /\ next' \in Shard /\ kills' \in 0 .. Shards /\ interrupts' \in 0 .. Interrupts
      /\ ~(interrupts = 0) /\ code' \in {0, 1}
  BY <1>1 DEF ScriptInv, ScriptTypeOK
<1>3. WaitInv' /\ TrapInv' /\ LeftBehindByFailure'
  BY <1>1, <1>2 DEF ScriptInv, WaitInv, TrapInv, LeftBehindByFailure
<1> QED
  BY <1>1, <1>2, <1>3, ScriptKeeps DEF ScriptInv

LEMMA RerunKeeps == ScriptInv /\ Rerun => ScriptInv'
<1> SUFFICES ASSUME ScriptInv, Rerun PROVE ScriptInv'
  OBVIOUS
<1>1. /\ stage = "exited" /\ run < MaxRuns /\ run' = run + 1 /\ stage' = "rm" /\ next' = 0
      /\ interrupts' = 0 /\ ~trap
      /\ UNCHANGED <<trap, kills, code, children, generation, child, opened, batch, rows>>
  BY DEF Rerun, children, ScriptInv, TrapInv
<1>2. run' \in Run /\ next' \in Shard /\ run \in Int /\ interrupts' \in 0 .. Interrupts
  BY <1>1 DEF ScriptInv, ScriptTypeOK
<1>3. ScriptTypeOK'
  BY <1>1, <1>2 DEF ScriptInv, ScriptTypeOK
<1>4. Generations'
  BY <1>1, <1>2 DEF ScriptInv, Generations
<1>5. LaunchOrder'
  <2>1. \A r \in Run : r > run' \/ r = run' => r > run
    BY <1>1, <1>2
  <2> QED
    BY <1>1, <2>1 DEF ScriptInv, LaunchOrder
<1>6. ChildInv' /\ OneAuthor' /\ NoBatchTwice'
  <2>1. UNCHANGED <<child, opened, batch, rows, generation>>
    BY <1>1
  <2> HIDE DEF Child, Run, Shard
  <2>2. ChildInv'
    BY <2>1 DEF ScriptInv, ChildInv
  <2>3. OneAuthor'
    BY <2>1 DEF ScriptInv, OneAuthor
  <2>4. NoBatchTwice'
    BY <2>1 DEF ScriptInv, NoBatchTwice
  <2> QED
    BY <2>2, <2>3, <2>4
<1>7. WaitInv' /\ TrapInv' /\ LeftBehindByFailure'
  BY <1>1 DEF WaitInv, TrapInv, LeftBehindByFailure
<1> QED
  BY <1>3, <1>4, <1>5, <1>6, <1>7 DEF ScriptInv

-----------------------------------------------------------------------------
\* The parts of the invariant that are not about files, when a child gets on.
LEMMA ProgressKeeps ==
  ASSUME ScriptInv, NEW c \in Child, NEW st \in {"writing", "ok"}, child[c] \in {"loading", "writing"},
         child' = [child EXCEPT ![c] = st] \/ child' = child,
         opened' \in [Child -> 0 .. MaxRuns], batch' \in [Child -> 0 .. Batches],
         rows' \in [Run -> [Shard -> 0 .. Batches]],
         UNCHANGED <<script, generation>>
  PROVE  ScriptTypeOK' /\ Generations' /\ LaunchOrder' /\ WaitInv' /\ TrapInv' /\ LeftBehindByFailure'
<1>1. \A r \in Run, s \in Shard : <<r, s>> \in Child
  BY ChildTypes DEF ScriptInv
<1>2. \A d \in Child : /\ child'[d] = "none" <=> child[d] = "none"
                       /\ child[d] = "ok" => child'[d] = "ok"
                       /\ child[d] = "failed" => child'[d] = "failed"
                       /\ Alive(d)' => Alive(d)
  BY DEF ScriptInv, ScriptTypeOK, Alive
<1>3. run \in Run /\ UNCHANGED <<run, stage, next, trap, kills, code, interrupts>>
  BY DEF ScriptInv, ScriptTypeOK, script
<1> HIDE DEF Child, Run, Shard
<1>4. child' \in [Child -> {"none", "loading", "writing", "ok", "failed"}]
  BY DEF ScriptInv, ScriptTypeOK
<1>5. LaunchOrder'
  BY <1>1, <1>2, <1>3 DEF ScriptInv, LaunchOrder
<1>6. ScriptTypeOK'
  BY <1>1, <1>2, <1>3, <1>4 DEF ScriptInv, ScriptTypeOK, Launched
<1>7. Generations' /\ WaitInv'
  BY <1>1, <1>2, <1>3 DEF ScriptInv, Generations, WaitInv
<1>8. TrapInv' /\ LeftBehindByFailure'
  BY <1>1, <1>2, <1>3 DEF ScriptInv, TrapInv, LeftBehindByFailure
<1> QED
  BY <1>5, <1>6, <1>7, <1>8

LEMMA ChildOpensKeeps ==
  ASSUME NEW c \in Child PROVE ScriptInv /\ ChildOpens(c) => ScriptInv'
<1> SUFFICES ASSUME ScriptInv, ChildOpens(c) PROVE ScriptInv'
  OBVIOUS
<1>1. /\ child[c] = "loading" /\ child' = [child EXCEPT ![c] = "writing"]
      /\ opened' = [opened EXCEPT ![c] = generation]
      /\ UNCHANGED <<script, batch, rows, generation>>
  BY DEF ChildOpens
<1>2. PICK r \in Run, s \in Shard : c = <<r, s>>
  BY DEF Child
<1>3. generation \in 1 .. MaxRuns /\ r <= generation
  <2>1. ~(r > run) /\ ~(r = run /\ stage = "rm") /\ run \in Run
    BY <1>1, <1>2 DEF ScriptInv, ScriptTypeOK, LaunchOrder
  <2> QED
    BY <2>1 DEF ScriptInv, Generations
<1>4. \A q \in Run, t \in Shard : <<q, t>> \in Child
  BY ChildTypes DEF ScriptInv
<1>5. batch[c] = 0
  BY <1>1, <1>2 DEF ScriptInv, ChildInv
<1>6. \A d \in Child : child'[d] = (IF d = c THEN "writing" ELSE child[d])
                      /\ opened'[d] = (IF d = c THEN generation ELSE opened[d])
  BY <1>1 DEF ScriptInv, ScriptTypeOK
<1>7. batch' = batch /\ rows' = rows /\ generation' = generation
  BY <1>1
<1> HIDE DEF Child, Run, Shard
<1>8. opened' \in [Child -> 0 .. MaxRuns]
  BY <1>1, <1>3 DEF ScriptInv, ScriptTypeOK
<1>9. ChildInv'
  <2> SUFFICES ASSUME NEW q \in Run, NEW t \in Shard
               PROVE  /\ child'[<<q, t>>] \in {"none", "loading"} \/ opened'[<<q, t>>] = 0 =>
                           opened'[<<q, t>>] = 0 /\ batch[<<q, t>>] = 0
                      /\ child'[<<q, t>>] \in {"writing", "ok"} => opened'[<<q, t>>] # 0
                      /\ child'[<<q, t>>] = "ok" => batch[<<q, t>>] = Batches
                      /\ opened'[<<q, t>>] # 0 =>
                           q <= opened'[<<q, t>>] /\ opened'[<<q, t>>] <= generation
    BY <1>7 DEF ChildInv
  <2>1. CASE <<q, t>> = c
    BY <1>2, <1>3, <1>5, <1>6, <2>1
  <2>2. CASE <<q, t>> # c
    BY <1>4, <1>6, <2>2 DEF ScriptInv, ChildInv
  <2> QED
    BY <2>1, <2>2
<1>10. OneAuthor' /\ NoBatchTwice'
  <2>1. OneAuthor'
    BY <1>4, <1>5, <1>6, <1>7 DEF ScriptInv, OneAuthor
  <2>2. NoBatchTwice'
    BY <1>4, <1>5, <1>6, <1>7 DEF ScriptInv, NoBatchTwice
  <2> QED
    BY <2>1, <2>2
<1>11. ScriptTypeOK' /\ Generations' /\ LaunchOrder' /\ WaitInv' /\ TrapInv' /\ LeftBehindByFailure'
  <2>1. batch' \in [Child -> 0 .. Batches] /\ rows' \in [Run -> [Shard -> 0 .. Batches]]
    BY <1>7 DEF ScriptInv, ScriptTypeOK
  <2> QED
    BY <1>1, <1>8, <2>1, ProgressKeeps
<1> QED
  BY <1>9, <1>10, <1>11 DEF ScriptInv

LEMMA ChildCommitsKeeps ==
  ASSUME NEW c \in Child PROVE ScriptInv /\ ChildCommits(c) => ScriptInv'
<1> SUFFICES ASSUME ScriptInv, ChildCommits(c) PROVE ScriptInv'
  OBVIOUS
<1>1. PICK r \in Run, s \in Shard : c = <<r, s>>
  BY DEF Child
<1>2. /\ child[c] = "writing" /\ batch[c] < Batches /\ c[2] = s
      /\ UNCHANGED <<script, opened, generation>>
  BY <1>1 DEF ChildCommits
<1>3. CASE rows[opened[c]][s] # batch[c]
  <2>1. child' = [child EXCEPT ![c] = "failed"] /\ UNCHANGED <<rows, batch>>
    BY <1>2, <1>3 DEF ChildCommits
  <2>2. UNCHANGED <<run, stage, next, trap, kills, code, interrupts>> /\ kills' \in 0 .. Shards
    BY <1>2 DEF script, ScriptInv, ScriptTypeOK
  <2> QED
    BY <1>2, <2>1, <2>2, FailureKeeps DEF ScriptInv, Alive
<1>4. CASE rows[opened[c]][s] = batch[c]
  <2> DEFINE g == opened[c]
  <2>1. /\ rows' = [rows EXCEPT ![g][s] = @ + 1]
        /\ batch' = [batch EXCEPT ![c] = @ + 1] /\ child' = child
    BY <1>2, <1>4 DEF ChildCommits
  <2>2. g \in Run /\ batch[c] \in 0 .. Batches /\ batch[c] + 1 \in 0 .. Batches
    BY <1>1, <1>2, ChildTypes DEF ScriptInv, ChildInv
  <2>3. \A q \in Run, t \in Shard : <<q, t>> \in Child
    BY ChildTypes DEF ScriptInv
  <2>4. \A d \in Child : batch'[d] = IF d = c THEN batch[c] + 1 ELSE batch[d]
    BY <2>1 DEF ScriptInv, ScriptTypeOK
  <2>5. \A h \in Run, t \in Shard :
          rows'[h][t] = IF h = g /\ t = s THEN batch[c] + 1 ELSE rows[h][t]
    BY <1>4, <2>1, <2>2 DEF ScriptInv, ScriptTypeOK
  <2>6. /\ batch' \in [Child -> 0 .. Batches] /\ rows' \in [Run -> [Shard -> 0 .. Batches]]
        /\ opened' \in [Child -> 0 .. MaxRuns] /\ opened' = opened
    <3>1. batch' \in [Child -> 0 .. Batches]
      BY <2>1, <2>2 DEF ScriptInv, ScriptTypeOK
    <3>2. rows[g] \in [Shard -> 0 .. Batches]
      BY <2>2 DEF ScriptInv, ScriptTypeOK
    <3>3. [rows[g] EXCEPT ![s] = @ + 1] \in [Shard -> 0 .. Batches]
      BY <1>4, <2>2, <3>2
    <3>4. rows' \in [Run -> [Shard -> 0 .. Batches]]
      BY <2>1, <2>2, <3>3 DEF ScriptInv, ScriptTypeOK
    <3> QED
      BY <1>2, <3>1, <3>4 DEF ScriptInv, ScriptTypeOK
  <2>7. \A q \in Run : q # r /\ opened[<<q, s>>] = g => batch[<<q, s>>] = 0
    <3> SUFFICES ASSUME NEW q \in Run, q # r, opened[<<q, s>>] = g, batch[<<q, s>>] # 0
                 PROVE  FALSE
      OBVIOUS
    <3>1. batch[<<q, s>>] > 0 /\ g # 0
      BY <2>2, ChildTypes DEF ScriptInv
    <3>2. batch[c] = batch[<<q, s>>]
      BY <1>4, <3>1 DEF ScriptInv, OneAuthor
    <3> QED
      BY <1>1, <2>2, <3>1, <3>2 DEF ScriptInv, NoBatchTwice
  <2> HIDE DEF g, Child, Run, Shard
  <2>8. ChildInv'
    <3> SUFFICES ASSUME NEW q \in Run, NEW t \in Shard
                 PROVE  /\ child[<<q, t>>] \in {"none", "loading"} \/ opened[<<q, t>>] = 0 =>
                             opened[<<q, t>>] = 0 /\ batch'[<<q, t>>] = 0
                        /\ child[<<q, t>>] \in {"writing", "ok"} => opened[<<q, t>>] # 0
                        /\ child[<<q, t>>] = "ok" => batch'[<<q, t>>] = Batches
                        /\ opened[<<q, t>>] # 0 =>
                             q <= opened[<<q, t>>] /\ opened[<<q, t>>] <= generation
      BY <1>2, <2>1, <2>6 DEF ChildInv
    <3>1. CASE <<q, t>> = c
      BY <1>1, <1>2, <3>1 DEF ScriptInv, ChildInv
    <3>2. CASE <<q, t>> # c
      BY <2>3, <2>4, <3>2 DEF ScriptInv, ChildInv
    <3> QED
      BY <3>1, <3>2
  <2>9. OneAuthor'
    <3> SUFFICES ASSUME NEW q \in Run, NEW t \in Shard,
                        opened[<<q, t>>] # 0, batch'[<<q, t>>] > 0
                 PROVE  rows'[opened[<<q, t>>]][t] = batch'[<<q, t>>]
      BY <2>6 DEF OneAuthor
    <3>1. opened[<<q, t>>] \in Run
      BY ChildTypes DEF ScriptInv, Run
    <3>2. CASE <<q, t>> = c
      BY <1>1, <2>3, <2>4, <2>5, <3>1, <3>2 DEF g
    <3>3. CASE <<q, t>> # c
      <4>1. batch[<<q, t>>] > 0 /\ batch'[<<q, t>>] = batch[<<q, t>>]
        BY <2>3, <2>4, <3>3
      <4>2. rows[opened[<<q, t>>]][t] = batch[<<q, t>>]
        BY <4>1 DEF ScriptInv, OneAuthor
      <4>3. ~(opened[<<q, t>>] = g /\ t = s)
        BY <1>1, <2>7, <3>3, <4>1
      <4> QED
        BY <2>5, <3>1, <4>1, <4>2, <4>3
    <3> QED
      BY <3>2, <3>3
  <2>10. NoBatchTwice'
    <3> SUFFICES ASSUME NEW h \in Run, NEW t \in Shard, NEW p \in Run, NEW q \in Run,
                        p # q, opened[<<p, t>>] = h, opened[<<q, t>>] = h, batch'[<<p, t>>] > 0
                 PROVE  batch'[<<q, t>>] = 0
      BY <2>6 DEF NoBatchTwice
    <3>1. CASE <<p, t>> = c
      <4>1. p = r /\ t = s /\ h = g /\ <<q, t>> # c
        BY <1>1, <3>1 DEF g
      <4> QED
        BY <2>3, <2>4, <2>7, <4>1
    <3>2. CASE <<q, t>> = c
      <4>1. q = r /\ t = s /\ h = g /\ <<p, t>> # c
        BY <1>1, <3>2 DEF g
      <4>2. batch'[<<p, t>>] = 0
        BY <2>3, <2>4, <2>7, <4>1
      <4> QED
        BY <4>2
    <3>3. CASE <<p, t>> # c /\ <<q, t>> # c
      BY <2>3, <2>4, <3>3 DEF ScriptInv, NoBatchTwice
    <3> QED
      BY <3>1, <3>2, <3>3
  <2>11. ScriptTypeOK' /\ Generations' /\ LaunchOrder' /\ WaitInv' /\ TrapInv' /\ LeftBehindByFailure'
    BY <1>2, <2>1, <2>6, ProgressKeeps
  <2> QED
    BY <2>8, <2>9, <2>10, <2>11 DEF ScriptInv
<1> QED
  BY <1>3, <1>4

LEMMA ChildReturnsKeeps ==
  ASSUME NEW c \in Child PROVE ScriptInv /\ ChildReturns(c) => ScriptInv'
<1> SUFFICES ASSUME ScriptInv, ChildReturns(c) PROVE ScriptInv'
  OBVIOUS
<1>1. /\ child[c] = "writing" /\ batch[c] = Batches /\ child' = [child EXCEPT ![c] = "ok"]
      /\ UNCHANGED <<script, opened, batch, rows, generation>>
  BY DEF ChildReturns
<1>2. PICK r \in Run, s \in Shard : c = <<r, s>>
  BY DEF Child
<1>3. \A q \in Run, t \in Shard : <<q, t>> \in Child
  BY ChildTypes DEF ScriptInv
<1>4. \A d \in Child : child'[d] = IF d = c THEN "ok" ELSE child[d]
  BY <1>1 DEF ScriptInv, ScriptTypeOK
<1>5. ChildInv'
  <2> SUFFICES ASSUME NEW q \in Run, NEW t \in Shard
               PROVE  /\ child'[<<q, t>>] \in {"none", "loading"} \/ opened[<<q, t>>] = 0 =>
                           opened[<<q, t>>] = 0 /\ batch[<<q, t>>] = 0
                      /\ child'[<<q, t>>] \in {"writing", "ok"} => opened[<<q, t>>] # 0
                      /\ child'[<<q, t>>] = "ok" => batch[<<q, t>>] = Batches
                      /\ opened[<<q, t>>] # 0 =>
                           q <= opened[<<q, t>>] /\ opened[<<q, t>>] <= generation
    BY <1>1 DEF ChildInv
  <2> HIDE DEF Child, Run, Shard
  <2>1. CASE <<q, t>> = c
    BY <1>1, <1>3, <1>4, <2>1 DEF ScriptInv, ChildInv
  <2>2. CASE <<q, t>> # c
    BY <1>3, <1>4, <2>2 DEF ScriptInv, ChildInv
  <2> QED
    BY <2>1, <2>2
<1>6. OneAuthor' /\ NoBatchTwice'
  <2>1. UNCHANGED <<opened, batch, rows>>
    BY <1>1
  <2> HIDE DEF Child, Run, Shard
  <2>2. OneAuthor'
    BY <2>1 DEF ScriptInv, OneAuthor
  <2>3. NoBatchTwice'
    BY <2>1 DEF ScriptInv, NoBatchTwice
  <2> QED
    BY <2>2, <2>3
<1>7. /\ opened' \in [Child -> 0 .. MaxRuns] /\ batch' \in [Child -> 0 .. Batches]
      /\ rows' \in [Run -> [Shard -> 0 .. Batches]]
  BY <1>1 DEF ScriptInv, ScriptTypeOK
<1>8. ScriptTypeOK' /\ Generations' /\ LaunchOrder' /\ WaitInv' /\ TrapInv' /\ LeftBehindByFailure'
  BY <1>1, <1>7, ProgressKeeps
<1> QED
  BY <1>5, <1>6, <1>8 DEF ScriptInv

LEMMA ChildFailsKeeps ==
  ASSUME NEW c \in Child PROVE ScriptInv /\ ChildFails(c) => ScriptInv'
<1> SUFFICES ASSUME ScriptInv, ChildFails(c) PROVE ScriptInv'
  OBVIOUS
<1>1. /\ Alive(c) /\ child' = [child EXCEPT ![c] = "failed"]
      /\ UNCHANGED <<run, stage, next, trap, kills, code, interrupts, opened, batch, rows, generation>>
  BY DEF ChildFails, script
<1>2. kills' \in 0 .. Shards
  BY <1>1 DEF ScriptInv, ScriptTypeOK
<1> QED
  BY <1>1, <1>2, FailureKeeps DEF ScriptInv

LEMMA Stuttering == ScriptInv /\ UNCHANGED scriptVars => ScriptInv'
<1> SUFFICES ASSUME ScriptInv, UNCHANGED scriptVars PROVE ScriptInv'
  OBVIOUS
<1>1. /\ UNCHANGED <<run, stage, next, trap, kills, code, interrupts>>
      /\ UNCHANGED <<child, opened, batch, rows, generation>>
  BY DEF scriptVars, script, children
<1>2. ScriptTypeOK' /\ Generations' /\ LaunchOrder'
  BY <1>1 DEF ScriptInv, ScriptTypeOK, Launched, Generations, LaunchOrder
<1>3. ChildInv' /\ OneAuthor' /\ NoBatchTwice'
  <2> HIDE DEF Child, Run, Shard
  <2>1. ChildInv'
    BY <1>1 DEF ScriptInv, ChildInv
  <2>2. OneAuthor'
    BY <1>1 DEF ScriptInv, OneAuthor
  <2>3. NoBatchTwice'
    BY <1>1 DEF ScriptInv, NoBatchTwice
  <2> QED
    BY <2>1, <2>2, <2>3
<1>4. WaitInv' /\ TrapInv' /\ LeftBehindByFailure'
  BY <1>1 DEF ScriptInv, WaitInv, TrapInv, LeftBehindByFailure, Alive
<1> QED
  BY <1>2, <1>3, <1>4 DEF ScriptInv

LEMMA ScriptStep == ScriptInv /\ [ScriptNext]_scriptVars => ScriptInv'
BY RemoveKeeps, LaunchKeeps, RecordKeeps, WaitKeeps, InterruptKeeps, KillKeeps, KillFailsKeeps,
   TrapReturnsKeeps, RerunKeeps, ChildOpensKeeps, ChildCommitsKeeps, ChildReturnsKeeps,
   ChildFailsKeeps, Stuttering DEF ScriptNext, Script, Process

\* The invariant of the script and its children: what the files have, who has
\* written it, and what the loops have seen.
THEOREM ScriptInvariant == ScriptSpec => []ScriptInv
<1>1. ScriptInv /\ [ScriptNext]_scriptVars => ScriptInv'
  BY ScriptStep
<1> QED
  BY ScriptInitial, <1>1, PTL DEF ScriptSpec

-----------------------------------------------------------------------------
\* Exit status 0 means that the table is complete, whatever processes of
\* earlier runs are still alive (tile-smush-parallel:2, 24-32).
THEOREM ZeroMeansComplete == ScriptSpec => []ExitZeroComplete
<1>1. ScriptInv => ExitZeroComplete
  <2> SUFFICES ASSUME ScriptInv, stage = "exited", code = 0, NEW s \in Shard
               PROVE  child[<<run, s>>] = "ok" /\ rows[generation][s] = Batches
    BY DEF ExitZeroComplete
  <2>1. run \in Run /\ generation = run
    BY DEF ScriptInv, ScriptTypeOK, Generations
  <2>2. child[<<run, s>>] = "ok"
    BY DEF ScriptInv, WaitInv
  <2>3. batch[<<run, s>>] = Batches /\ opened[<<run, s>>] = generation
    BY <2>1, <2>2, ChildTypes DEF ScriptInv, ChildInv
  <2> QED
    BY <2>1, <2>2, <2>3 DEF ScriptInv, OneAuthor
<1> QED
  BY ScriptInvariant, <1>1, PTL

\* No batch of a shard is written by two processes to one file, in any number of
\* runs (mbtiles.cpp:84, tile-smush-parallel:10).
THEOREM BatchesWrittenOnce == ScriptSpec => []NoBatchTwice
<1>1. ScriptInv => NoBatchTwice
  BY DEF ScriptInv
<1> QED
  BY ScriptInvariant, <1>1, PTL

\* Without a SIGINT only a failure leaves processes behind
\* (tile-smush-parallel:30-32).
THEOREM OnlyFailureLeavesBehind == ScriptSpec => []LeftBehindByFailure
<1>1. ScriptInv => LeftBehindByFailure
  BY DEF ScriptInv
<1> QED
  BY ScriptInvariant, <1>1, PTL

\* A handler that gets to its end leaves at most one child alive, the one whose
\* pid the script has not written down yet (tile-smush-parallel:14-20, 25-28).
THEOREM HandlerLeavesTheLast == ScriptSpec => HandlerMissesOne
<1>1. ScriptInv /\ [ScriptNext]_scriptVars =>
        [trap /\ ~trap' /\ stage' # "exited" =>
           \A s \in Shard : Alive(<<run, s>>) => stage = "record" /\ s = next]_scriptVars
  <2> SUFFICES ASSUME ScriptInv, ScriptNext, trap, ~trap', stage' # "exited", NEW s \in Shard,
                      Alive(<<run, s>>)
               PROVE  stage = "record" /\ s = next
    BY DEF scriptVars
  <2>1. stage \in {"launch", "record", "wait"}
    BY DEF ScriptInv, TrapInv
  <2>2. TrapReturns
    BY <2>1 DEF ScriptNext, Script, Process, Remove, Launch, Record, Wait, Kill, KillFails, Exit, Interrupt,
                Rerun, ChildOpens, ChildCommits, ChildReturns, ChildFails, script
  <2>3. kills \in 0 .. Shards /\ next \in Shard /\ run \in Run
    BY DEF ScriptInv, ScriptTypeOK
  <2>4. ~(s < kills)
    BY DEF ScriptInv, TrapInv
  <2>5. kills \in Shard /\ stage # "wait" /\ ~(s < next)
    BY <2>2, <2>3, <2>4 DEF TrapReturns, ToKill, Recorded
  <2>6. child[<<run, s>>] # "none"
    BY DEF Alive
  <2>7. stage = "record" /\ s <= next
    BY <2>1, <2>5, <2>6 DEF ScriptInv, LaunchOrder
  <2> QED
    BY <2>3, <2>5, <2>7
<1> QED
  BY ScriptInvariant, <1>1, PTL DEF ScriptSpec, HandlerMissesOne

=============================================================================
