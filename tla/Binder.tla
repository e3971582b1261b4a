------------------------------- MODULE Binder -------------------------------
(***************************************************************************)
(* The life of the statements of the MBTiles object that writes, as        *)
(* sqlite_modern_cpp.h manages it: `db << sql' is a database_binder, which *)
(* is moved into a vector to be kept, or else destroyed at the end of the  *)
(* expression, and whose destructor executes the statement if nobody has.  *)
(* A statement that changes nothing when it is executed once more is       *)
(* harmless; an INSERT that is executed once more writes a row.            *)
(*                                                                         *)
(* Any of it may throw: preparing a statement, binding its values,         *)
(* executing it by a call or by a destructor.  Three of the PRAGMAs of     *)
(* openForWriting may fail without harm: their exceptions are caught, and  *)
(* the next statement is executed.  All others unwind the stack.           *)
(***************************************************************************)
EXTENDS Integers, FiniteSets

CONSTANT MaxCalls  \* a bound on the calls of each kind

ASSUME BinderAssumption == MaxCalls \in Nat

\* The statements of openForWriting that are not kept, the two that are, any
\* other statement without a result (BEGIN, COMMIT, a REPLACE of metadata, ...),
\* and any SELECT with a >>.
Kind == {"setup", "INSERT", "REPLACE", "plain", "SELECT"}

\* The temporary of an expression, the element of a vector with room for
\* one, and the two elements of the vector it grows to.
Handle == {"temp", "first", "insert", "replace"}

\* Four PRAGMAs, page_size, VACUUM, two tables and an index; the second to the
\* fourth of them in a try.
Setup == 9
Tolerated == 2 .. 4

Dead == [stmt |-> "dead", started |-> TRUE]
Made(k) == [stmt |-> k, started |-> FALSE]

VARIABLES
  phase,   \* "open", "setup", "emplaced", "serve", "extract", "end", "closed", "gone"
  binder,  \* the database_binders: the statement each owns, and whether
           \* execution_started is set
  raised,  \* an exception is in flight
  asked,   \* the calls that have been made of each kind
  runs,    \* how often statements of each kind have been executed
  failed   \* how many calls have thrown before the statement was executed

binderVars == <<phase, binder, raised, asked, runs, failed>>

Add(f, k) == [f EXCEPT ![k] = @ + 1]

-----------------------------------------------------------------------------
\* The condition of the destructor.
Runs(b) == ~b.started /\ ~raised /\ b.stmt \in Kind

\* What is executed when the binders H of the function b are destroyed.
RunBy(b, H) ==
  [k \in Kind |-> runs[k] + Cardinality({h \in H : Runs(b[h]) /\ b[h].stmt = k})]

Destroyed(b, H) == [h \in Handle |-> IF h \in H THEN Dead ELSE b[h]]

\* The move constructor leaves a null statement behind.
Moved(b, from, to) ==
  [b EXCEPT ![to] = b[from], ![from].stmt = "null"]

\* The constructor of a temporary for a call of kind k, and the values that are
\* bound to it; those of openForWriting have none.  An exception leads to the end
\* of the expression: without a binder if _prepare throws, with one if a value
\* cannot be bound.
Prepare(k, then, end) ==
  /\ asked' = Add(asked, k)
  /\ \/ /\ binder' = [binder EXCEPT !["temp"] = Made(k)]
        /\ phase' = then
        /\ UNCHANGED <<raised, failed>>
     \/ /\ \/ UNCHANGED binder
           \/ k # "setup" /\ binder' = [binder EXCEPT !["temp"] = Made(k)]
        /\ phase' = end
        /\ raised' = TRUE /\ failed' = Add(failed, k)
  /\ UNCHANGED runs

\* The end of an expression: the destructor, which may execute and throw, and the
\* catch behind it, if there is one.
Finish(back, caught) ==
  /\ binder' = Destroyed(binder, {"temp"})
  /\ \/ /\ runs' = RunBy(binder, {"temp"})
        /\ raised' = (raised /\ ~caught)
        /\ UNCHANGED failed
     \/ /\ Runs(binder["temp"])
        /\ raised' = ~caught /\ failed' = Add(failed, binder["temp"].stmt)
        /\ UNCHANGED runs
  /\ phase' = IF raised' THEN "closed" ELSE back
  /\ UNCHANGED asked

\* openForWriting: one statement after the other.
PrepareSetup ==
  /\ phase = "open" /\ asked["setup"] < Setup
  /\ Prepare("setup", "setup", "setup")

EndSetup == phase = "setup" /\ Finish("open", asked["setup"] \in Tolerated)

\* The first of the two that are kept is moved into the vector, unless it cannot
\* be prepared ...
EmplaceInsert ==
  /\ phase = "open" /\ asked["setup"] = Setup
  /\ \/ /\ LET b == Moved([binder EXCEPT !["temp"] = Made("INSERT")], "temp", "first")
           IN binder' = Destroyed(b, {"temp"}) /\ runs' = RunBy(b, {"temp"})
        /\ phase' = "emplaced" /\ UNCHANGED raised
     \/ raised' = TRUE /\ phase' = "closed" /\ UNCHANGED <<binder, runs>>
  /\ UNCHANGED <<asked, failed>>

\* ... and moved once more when the vector grows for the second one.
EmplaceReplace ==
  /\ phase = "emplaced"
  /\ \/ /\ LET made  == [binder EXCEPT !["temp"] = Made("REPLACE")]
               grown == Moved(Moved(made, "temp", "replace"), "first", "insert")
           IN /\ binder' = Destroyed(grown, {"temp", "first"})
              /\ runs' = RunBy(grown, {"temp", "first"})
        /\ phase' = "serve" /\ UNCHANGED raised
     \/ raised' = TRUE /\ phase' = "closed" /\ UNCHANGED <<binder, runs>>
  /\ UNCHANGED <<asked, failed>>

-----------------------------------------------------------------------------
MayCall(k) == phase = "serve" /\ asked[k] < MaxCalls

\* insertOrReplace, which is only called for the INSERT: reset, bind and
\* execute; either of the last two throws if SQLite refuses.
InsertOrReplace ==
  /\ MayCall("INSERT")
  /\ asked' = Add(asked, "INSERT")
  /\ \/ /\ binder' = [binder EXCEPT !["insert"].started = TRUE]
        /\ runs' = Add(runs, "INSERT")
        /\ UNCHANGED <<phase, raised, failed>>
     \/ /\ binder' = [binder EXCEPT !["insert"].started = FALSE]
        /\ raised' = TRUE /\ phase' = "closed" /\ failed' = Add(failed, "INSERT")
        /\ UNCHANGED runs

\* db << sql, as an expression of its own or with a >> behind it.
PreparePlain  == MayCall("plain") /\ Prepare("plain", "end", "end")
PrepareSelect == MayCall("SELECT") /\ Prepare("SELECT", "extract", "end")

\* _extract and _extract_single_value: the statement is executed and reset,
\* which clears execution_started; or they throw in between.
Extract ==
  /\ phase = "extract"
  /\ runs' = Add(runs, "SELECT")
  /\ phase' = "end"
  /\ \/ /\ binder' = [binder EXCEPT !["temp"].started = FALSE]
        /\ UNCHANGED raised
     \/ /\ binder' = [binder EXCEPT !["temp"].started = TRUE]
        /\ raised' = TRUE
  /\ UNCHANGED <<asked, failed>>

EndExpression == phase = "end" /\ Finish("serve", FALSE)

\* What main() calls between two statements throws: a corrupt tile, say.
MainThrows ==
  /\ phase = "serve"
  /\ raised' = TRUE /\ phase' = "closed"
  /\ UNCHANGED <<binder, asked, runs, failed>>

\* Mutant: the statement that is never executed is forgotten.
CloseInsert ==
  /\ phase = "serve"
  /\ binder' = [binder EXCEPT !["insert"].started = TRUE]
  /\ phase' = "closed"
  /\ UNCHANGED <<raised, asked, runs, failed>>

\* closeForWriting: used(true) for both.
CloseForWriting ==
  /\ phase = "serve"
  /\ binder' = [binder EXCEPT !["insert"].started = TRUE, !["replace"].started = TRUE]
  /\ phase' = "closed"
  /\ UNCHANGED <<raised, asked, runs, failed>>

\* The members of MBTiles are destroyed when main() returns, or when an
\* exception unwinds the stack, or not at all if it does not.
Destroy ==
  /\ phase = "closed"
  /\ \/ binder' = Destroyed(binder, Handle) /\ runs' = RunBy(binder, Handle)
     \/ raised /\ UNCHANGED <<binder, runs>>
  /\ phase' = "gone"
  /\ UNCHANGED <<raised, asked, failed>>

BinderInit ==
  /\ phase = "open"
  /\ binder = [h \in Handle |-> Dead]
  /\ raised = FALSE
  /\ asked = [k \in Kind |-> 0] /\ runs = [k \in Kind |-> 0] /\ failed = [k \in Kind |-> 0]

BinderNext ==
  \/ PrepareSetup \/ EndSetup \/ EmplaceInsert \/ EmplaceReplace
  \/ InsertOrReplace \/ PreparePlain \/ PrepareSelect
  \/ Extract \/ EndExpression \/ MainThrows \/ CloseForWriting \/ Destroy
  \/ phase = "gone" /\ UNCHANGED binderVars

BinderSpec == BinderInit /\ [][BinderNext]_binderVars

-----------------------------------------------------------------------------
\* Between two expressions, and at the end, each statement that was asked for has
\* been executed once or has failed, and not both: not when a statement is moved,
\* nor when an exception that is caught or not caught destroys it before, while or
\* after it is executed, nor when the vector is destroyed with a statement that was
\* never executed, of which SQLite would insert a row of NULLs
\* (sqlite_modern_cpp.h:120-142, 190-196, 259-265, mbtiles.cpp:64-86, 109-118,
\* 167-168).
RunsAsAsked ==
  phase \notin {"setup", "extract", "end"} =>
    \A k \in Kind \ {"SELECT"} : runs[k] + failed[k] = asked[k]

\* "Will be executed if no >>op is found": the destructor leaves alone what a
\* >> has executed (sqlite_modern_cpp.h:260-264).
QueriedOnce == phase = "serve" => runs["SELECT"] = asked["SELECT"]

=============================================================================
