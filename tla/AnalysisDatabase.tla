---------------------------- MODULE AnalysisDatabase ----------------------------
(***************************************************************************)
(* AnalysisDatabase over one SQLite connection: the saves that run in a    *)
(* transaction of their own (SaveFunctions, SaveBasicBlocks,               *)
(* SaveSymbolTable, and SaveModule, which calls the first and the last),   *)
(* the single statements (SaveXref, SaveAnnotation, DeleteAnnotation), the *)
(* transactions a caller opens, Close, Open, and the death of the process  *)
(* between any two statements.                                             *)
(*                                                                         *)
(* Of SQLite (not part of the repository) the model keeps what the code    *)
(* depends on: BEGIN fails inside a transaction; COMMIT and ROLLBACK fail  *)
(* outside one; any statement may fail without an effect, and may then     *)
(* also roll the whole transaction back (disk full, I/O error) or leave it *)
(* open (a COMMIT that finds the file locked); closing the connection, or  *)
(* dying, rolls an open transaction back.                                  *)
(***************************************************************************)
EXTENDS Naturals, Bags

CONSTANTS
    Addr,       \* addresses
    Programs,   \* what the analysis may have recovered when it is saved
    Notes,      \* contents of an annotation
    MaxCalls    \* bound: how many calls are made

\* A program: its functions with their size, the blocks of each function, the
\* call sites of each function, and its symbols.
Program ==
    [functions : SUBSET (Addr \X Nat), blocks : SUBSET (Addr \X Addr),
     calls : SUBSET (Addr \X Addr), symbols : SUBSET Addr]

\* An address begins one function: a second pass over it adds none.
ASSUME ProgramsAssumption ==
    /\ Programs \subseteq Program
    /\ \A p \in Programs : \A f, g \in p.functions : f[1] = g[1] => f = g

ASSUME MaxCallsAssumption == MaxCalls \in Nat

VARIABLES
    open,           \* m_db is not null
    db,             \* the tables, as this connection sees them
    saved, inTx,    \* the tables at the last BEGIN; a transaction is open
    program,        \* the module being saved
    active,         \* the save whose statements run
    inModule,       \* the call was SaveModule
    at,             \* its next statement
    answer,         \* what the last call returned
    calls,
    before,         \* history: the committed tables when the last call started
    noted,          \* history: the annotations that calls have acknowledged
    failed,         \* history: a statement of the last call was refused by SQLite
    callerTx,       \* history: the caller has a transaction open, as far as it knows
    commitFailed    \* history: a COMMIT failed on this connection

tables == <<db, saved, inTx>>
control == <<program, active, inModule, at, answer>>
history == <<before, noted, failed, callerTx, commitFailed>>
vars == <<open, tables, control, calls, history>>

Empty == [functions |-> {}, blocks |-> EmptyBag, xrefs |-> {}, symbols |-> EmptyBag, notes |-> {}]

\* What is on disk: what another process, or this one after a crash, sees.
Committed == IF inTx THEN saved ELSE db

Init ==
    /\ open = TRUE
    /\ db = Empty /\ saved = Empty /\ inTx = FALSE
    /\ program \in Programs
    /\ active = "none" /\ inModule = FALSE /\ at = "idle" /\ answer = TRUE
    /\ calls = 0
    /\ before = Empty /\ noted = {} /\ failed = FALSE
    /\ callerTx = FALSE /\ commitFailed = FALSE

-----------------------------------------------------------------------------
(* Rows. *)

AddressesOf(rows) == {r[1] : r \in rows}

\* ON CONFLICT(address) DO UPDATE: one row per address, the last one written.
Upsert(rows, new) == {r \in rows : r[1] \notin AddressesOf(new)} \cup new

\* The rows SaveModule writes: of the functions that QueryFunctions returned.
ModuleRows(known) == {r \in program.blocks \cup program.calls : r[1] \in known}

\* QueryFunctions, in the order of their addresses: of a query that fails, the
\* rows it has returned by then.
QueryFunctions ==
    {known \in SUBSET AddressesOf(db.functions) :
        \A a \in known, b \in AddressesOf(db.functions) \ known : a < b}

\* What each save sends to SQLite.
RowsOf(save) ==
    CASE save = "SaveFunctions" -> {program.functions}
      [] save = "SaveBasicBlocks" -> {program.blocks}
      [] save = "SaveSymbolTable" -> {program.symbols}
      [] save = "SaveModule" -> {ModuleRows(known) : known \in QueryFunctions}

\* basic_blocks and symbols have no UNIQUE column for their ON CONFLICT DO
\* NOTHING to apply to; xrefs is unique in all three of its columns.
Written(tab, save, rows) ==
    CASE save = "SaveFunctions" -> [tab EXCEPT !.functions = Upsert(@, rows)]
      [] save = "SaveBasicBlocks" -> [tab EXCEPT !.blocks = @ (+) SetToBag(rows)]
      [] save = "SaveSymbolTable" -> [tab EXCEPT !.symbols = @ (+) SetToBag(rows)]
      [] save = "SaveModule" ->
            [tab EXCEPT !.blocks = @ (+) SetToBag(rows \cap program.blocks),
                        !.xrefs = @ \cup (rows \cap program.calls)]

-----------------------------------------------------------------------------
(* SQLite. *)

\* A statement is refused, with or without the transaction it is part of.
Refused ==
    \/ UNCHANGED tables
    \/ /\ inTx
       /\ db' = saved /\ inTx' = FALSE
       /\ UNCHANGED saved

\* Mutant: the failure path commits.
CommitStatement == inTx' = FALSE /\ UNCHANGED <<db, saved>>

\* ROLLBACK: without a transaction it fails, which its callers ignore.
RollbackStatement ==
    /\ db' = Committed /\ inTx' = FALSE
    /\ UNCHANGED saved

-----------------------------------------------------------------------------
(* Calls and their return. *)

Call ==
    /\ open /\ at = "idle" /\ calls < MaxCalls
    /\ calls' = calls + 1
    /\ before' = Committed
    /\ UNCHANGED open

\* The save that runs returns v: to the caller, or to SaveModule, which goes on
\* with its own rows after SaveFunctions and ends with what SaveSymbolTable says.
Return(v) ==
    IF inModule /\ active = "SaveFunctions" /\ v
    THEN active' = "SaveModule" /\ at' = "begin" /\ UNCHANGED answer
    ELSE IF inModule /\ active = "SaveSymbolTable"
    THEN active' = "SaveModule" /\ at' = (IF v THEN "commit" ELSE "rollback") /\ UNCHANGED answer
    ELSE at' = "idle" /\ answer' = v /\ UNCHANGED active

-----------------------------------------------------------------------------
(* The saves that run in a transaction of their own. *)

Saves == {"SaveFunctions", "SaveBasicBlocks", "SaveSymbolTable", "SaveModule"}

Save(save) ==
    /\ Call
    /\ program' \in Programs
    /\ inModule' = (save = "SaveModule")
    /\ active' = IF save = "SaveModule" THEN "SaveFunctions" ELSE save
    /\ at' = "begin" /\ failed' = FALSE
    /\ UNCHANGED <<tables, answer, noted, callerTx, commitFailed>>

\* if (!BeginTransaction()) return false
Begin ==
    /\ at = "begin"
    /\ \E refused \in BOOLEAN :
          /\ failed' = (failed \/ refused)
          /\ IF refused \/ inTx
             THEN UNCHANGED tables /\ Return(FALSE)
             ELSE /\ saved' = db /\ inTx' = TRUE
                  /\ at' = "rows"
                  /\ UNCHANGED <<db, active, answer>>
    /\ UNCHANGED <<open, program, inModule, calls, before, noted, callerTx, commitFailed>>

\* All rows are written.
RowsWritten ==
    /\ at = "rows"
    /\ \E rows \in RowsOf(active) : db' = Written(db, active, rows)
    /\ IF active = "SaveModule"
       THEN active' = "SaveSymbolTable" /\ at' = "begin"
       ELSE at' = "commit" /\ UNCHANGED active
    /\ UNCHANGED <<open, saved, inTx, program, inModule, answer, calls, history>>

\* Some rows are written, and then a statement is refused.
RowRefused ==
    /\ at = "rows"
    /\ \E rows \in RowsOf(active), lost \in BOOLEAN :
          /\ rows # {}
          /\ \E part \in SUBSET rows \ {rows} :
                db' = IF lost THEN saved ELSE Written(db, active, part)
          /\ inTx' = ~lost
    /\ at' = "rollback" /\ failed' = TRUE
    /\ UNCHANGED <<open, saved, program, active, inModule, answer, calls,
                   before, noted, callerTx, commitFailed>>

\* Mutant: a save returns with its transaction open.
EndWithoutCommit ==
    /\ at = "commit"
    /\ Return(TRUE)
    /\ UNCHANGED <<open, tables, program, inModule, calls, history>>

EndSave ==
    /\ at = "commit"
    /\ \/ /\ inTx' = FALSE /\ Return(TRUE)
          /\ UNCHANGED <<db, saved, failed, commitFailed>>
       \/ /\ Refused /\ Return(FALSE)
          /\ failed' = TRUE /\ commitFailed' = (commitFailed \/ inTx')
    /\ UNCHANGED <<open, program, inModule, calls, before, noted, callerTx>>

\* Mutant: a save that fails returns without ROLLBACK.
AbandonOpen ==
    /\ at = "rollback"
    /\ Return(FALSE)
    /\ UNCHANGED <<open, tables, program, inModule, calls, history>>

Abandon ==
    /\ at = "rollback"
    /\ RollbackStatement
    /\ Return(FALSE)
    /\ UNCHANGED <<open, program, inModule, calls, history>>

-----------------------------------------------------------------------------
(* Single statements. *)

\* The tables become tab, or the statement is refused; outside a transaction
\* that is also the commit.
Statement(tab) ==
    /\ Call
    /\ \/ /\ db' = tab /\ answer' = TRUE /\ failed' = FALSE
          /\ noted' = IF callerTx THEN noted ELSE tab.notes
          /\ UNCHANGED <<saved, inTx>>
       \/ /\ Refused /\ answer' = FALSE /\ failed' = TRUE
          /\ UNCHANGED noted
    /\ active' = "none" /\ inModule' = FALSE
    /\ UNCHANGED <<program, at, callerTx, commitFailed>>

SaveFunction(fn) ==
    Statement([db EXCEPT !.functions = Upsert(@, {fn})])

SaveXref(from, to) ==
    Statement([db EXCEPT !.xrefs = @ \cup {<<from, to>>}])

SaveAnnotation(address, note) ==
    Statement([db EXCEPT !.notes = Upsert(@, {<<address, note>>})])

DeleteAnnotation(address) ==
    Statement([db EXCEPT !.notes = {n \in @ : n[1] # address}])

-----------------------------------------------------------------------------
(* Transactions of the caller. *)

BeginTransaction ==
    /\ Call
    /\ \E refused \in BOOLEAN :
          /\ failed' = refused /\ answer' = ~(refused \/ inTx)
          /\ callerTx' = (callerTx \/ answer')
          /\ saved' = IF answer' THEN db ELSE saved
          /\ inTx' = (inTx \/ answer')
    /\ active' = "none" /\ inModule' = FALSE
    /\ UNCHANGED <<db, program, at, noted, commitFailed>>

\* A caller with a transaction knows what is stored once it has ended.
Commit ==
    /\ Call
    /\ \/ /\ inTx
          /\ inTx' = FALSE /\ answer' = TRUE /\ failed' = FALSE
          /\ callerTx' = FALSE /\ noted' = db.notes
          /\ UNCHANGED <<db, saved, commitFailed>>
       \/ /\ Refused /\ answer' = FALSE /\ failed' = TRUE
          /\ commitFailed' = (commitFailed \/ inTx')
          /\ UNCHANGED <<callerTx, noted>>
    /\ active' = "none" /\ inModule' = FALSE
    /\ UNCHANGED <<program, at>>

Rollback ==
    /\ Call
    /\ RollbackStatement
    /\ answer' = inTx /\ failed' = ~inTx
    /\ callerTx' = FALSE
    /\ noted' = IF callerTx \/ commitFailed THEN Committed.notes ELSE noted
    /\ active' = "none" /\ inModule' = FALSE
    /\ UNCHANGED <<program, at, commitFailed>>

-----------------------------------------------------------------------------
(* The connection. *)

Disconnect ==
    /\ open /\ open' = FALSE
    /\ RollbackStatement
    /\ at' = "idle" /\ active' = "none" /\ inModule' = FALSE
    /\ callerTx' = FALSE
    /\ noted' = IF callerTx \/ commitFailed THEN Committed.notes ELSE noted
    /\ UNCHANGED <<program, answer, calls, before, failed, commitFailed>>

Close == at = "idle" /\ Disconnect

\* The process dies between two statements of a call.
Crash == at # "idle" /\ Disconnect

Open ==
    /\ ~open /\ open' = TRUE
    /\ answer' = TRUE /\ failed' = FALSE /\ commitFailed' = FALSE
    /\ UNCHANGED <<tables, program, active, inModule, at, calls, before, noted, callerTx>>

Next ==
    \/ \E save \in Saves : Save(save)
    \/ Begin \/ RowsWritten \/ RowRefused \/ EndSave \/ Abandon
    \/ \E fn \in program.functions : SaveFunction(fn)
    \/ \E from, to \in Addr : SaveXref(from, to)
    \/ \E address \in Addr : DeleteAnnotation(address) \/ \E note \in Notes : SaveAnnotation(address, note)
    \/ BeginTransaction \/ Commit \/ Rollback
    \/ Close \/ Crash \/ Open

Spec == Init /\ [][Next]_vars

-----------------------------------------------------------------------------
(* Properties. *)

Tables(t) ==
    /\ DOMAIN t = DOMAIN Empty
    /\ t.functions \subseteq Addr \X Nat
    /\ IsABag(t.blocks) /\ BagToSet(t.blocks) \subseteq Addr \X Addr
    /\ t.xrefs \subseteq Addr \X Addr
    /\ IsABag(t.symbols) /\ BagToSet(t.symbols) \subseteq Addr
    /\ t.notes \subseteq Addr \X Notes

\* The tables hold rows of the schema, and each table that is keyed by an
\* address has one row for it.
TypeOK ==
    /\ Tables(db) /\ Tables(saved) /\ Tables(before)
    /\ \A r, s \in db.functions : r[1] = s[1] => r = s
    /\ \A r, s \in db.notes : r[1] = s[1] => r = s
    /\ program \in Programs /\ noted \subseteq Addr \X Notes
    /\ active \in Saves \cup {"none"} /\ at \in {"idle", "begin", "rows", "commit", "rollback"}
    /\ {open, inTx, inModule, answer, failed, callerTx, commitFailed} \subseteq BOOLEAN
    /\ calls \in 0 .. MaxCalls

\* A save that returns has ended its transaction: one is open between calls
\* only because the caller opened it, or because SQLite refused a COMMIT.
TransactionsClosed ==
    at = "idle" /\ inTx => callerTx \/ commitFailed

\* What SaveModule commits before its own transaction: its functions.
FunctionsOnly == Written(before, "SaveFunctions", program.functions)

\* Whatever statement SQLite refuses and wherever the process dies, a save that
\* returned true is on disk with all its rows, and one that did not has left
\* nothing there; SaveModule alone may leave its functions.  (With the type
\* invariant, which says that keys are kept.)
SavesAreAtomic ==
    /\ TypeOK
    /\ active \in Saves =>
          IF at = "idle" /\ answer
          THEN \E rows \in RowsOf(active) : Committed = Written(before, active, rows)
          ELSE Committed \in {before} \cup (IF inModule THEN {FunctionsOnly} ELSE {})

\* An annotation whose save or deletion returned true outside a transaction of
\* the caller stays as it is on disk, across other saves that fail and across
\* crashes, as long as SQLite refuses no COMMIT.
AcknowledgedNotesDurable ==
    ~callerTx /\ ~commitFailed => Committed.notes = noted

\* docs/WORK_PLAN.md:322 lists SaveModule as implemented: with no statement
\* refused and no transaction of the caller in the way, it should return true.
SaveModuleCompletes ==
    at = "idle" /\ inModule /\ ~failed /\ ~callerTx /\ ~commitFailed => answer
=============================================================================
