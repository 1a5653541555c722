------------------------- MODULE AnalysisDatabaseProofs -------------------------
(***************************************************************************)
(* Proofs about AnalysisDatabase, for every set of addresses, programs and *)
(* annotations and any number of calls: a save ends the transaction it     *)
(* begins, and what an annotation call acknowledged stays on disk.         *)
(***************************************************************************)
EXTENDS AnalysisDatabase, TLAPS

\* SaveSymbolTable called by SaveModule, inside SaveModule's transaction.
Nested == inModule /\ active = "SaveSymbolTable"

\* Where a save stands and whose transaction is open there: while its rows are
\* written its own; when it is about to begin, only one that the caller opened or
\* that a refused COMMIT left behind, unless it is nested.
TransactionInv ==
    /\ inTx \in BOOLEAN /\ inModule \in BOOLEAN /\ callerTx \in BOOLEAN /\ commitFailed \in BOOLEAN
    /\ at # "idle" => active \in Saves
    /\ active = "SaveModule" => inModule
    /\ at \in {"rows", "commit"} => inTx
    /\ Nested => at = "begin" /\ inTx
    /\ at \in {"idle", "begin"} /\ inTx => callerTx \/ commitFailed \/ Nested

\* The annotations that this connection sees, and the ones it would go back to,
\* are those noted: between two calls and, as no save touches them, within one.
NotesInv ==
    /\ "notes" \in DOMAIN db /\ "notes" \in DOMAIN saved
    /\ ~callerTx /\ ~commitFailed =>
            /\ db.notes = noted
            /\ inTx => saved.notes = noted
    /\ ~open => at = "idle" /\ ~inTx /\ ~callerTx /\ db.notes = noted

DatabaseInv == TransactionInv /\ NotesInv

\* The rows of a save leave the annotations alone.
LEMMA WrittenKeepsNotes ==
    ASSUME NEW save \in Saves, NEW rows, "notes" \in DOMAIN db
    PROVE  /\ "notes" \in DOMAIN Written(db, save, rows)
           /\ Written(db, save, rows).notes = db.notes
<1>1. CASE save = "SaveFunctions" BY <1>1 DEF Written
<1>2. CASE save = "SaveBasicBlocks" BY <1>2 DEF Written
<1>3. CASE save = "SaveSymbolTable" BY <1>3 DEF Written
<1>4. CASE save = "SaveModule" BY <1>4 DEF Written
<1>. QED BY <1>1, <1>2, <1>3, <1>4 DEF Saves

LEMMA InitDatabase == Init => DatabaseInv
<1> SUFFICES ASSUME Init PROVE DatabaseInv
  OBVIOUS
<1>1. TransactionInv
  BY DEF Init, TransactionInv, Nested
<1>2. NotesInv
  BY DEF Init, NotesInv, Empty
<1>. QED BY <1>1, <1>2 DEF DatabaseInv

\* A single statement.
LEMMA StatementKeeps ==
    ASSUME DatabaseInv, NEW STATE tab, "notes" \in DOMAIN tab, Statement(tab)
    PROVE  DatabaseInv'
<1>1. TransactionInv'
  <2>1. inTx' = inTx \/ inTx' = FALSE
    <3>1. UNCHANGED <<saved, inTx>> \/ Refused
      BY DEF Statement
    <3>. QED BY <3>1 DEF Refused, tables
  <2>2. /\ at = "idle" /\ at' = at
        /\ active' = "none" /\ inModule' = FALSE
        /\ callerTx' = callerTx /\ commitFailed' = commitFailed
    BY DEF Statement, Call
  <2>3. inTx' \in BOOLEAN /\ (inTx' => inTx)
    <3>1. inTx \in BOOLEAN
      BY DEF DatabaseInv, TransactionInv
    <3>2. CASE inTx' = inTx BY <3>1, <3>2
    <3>3. CASE inTx' = FALSE BY <3>3
    <3>. QED BY <2>1, <3>2, <3>3
  <2>4. ~Nested /\ ~Nested'
    BY <2>2 DEF DatabaseInv, TransactionInv, Nested
  <2>. QED BY <2>2, <2>3, <2>4 DEF DatabaseInv, TransactionInv
<1>2. NotesInv'
  BY DEF Statement, Call, Refused, tables, DatabaseInv, TransactionInv, NotesInv, Nested
<1>. QED BY <1>1, <1>2 DEF DatabaseInv

LEMMA NextDatabase == DatabaseInv /\ [Next]_vars => DatabaseInv'
<1> SUFFICES ASSUME DatabaseInv, [Next]_vars PROVE DatabaseInv'
  OBVIOUS
<1> USE DEF DatabaseInv
<1>1. ASSUME NEW save \in Saves, Save(save) PROVE DatabaseInv'
  BY <1>1 DEF Save, Saves, Call, tables, TransactionInv, NotesInv, Nested
<1>2. ASSUME Begin PROVE DatabaseInv'
  <2>1. TransactionInv'
    BY <1>2 DEF Begin, Saves, Return, tables, TransactionInv, Nested
  <2>2. NotesInv'
    BY <1>2 DEF Begin, Saves, Return, tables, TransactionInv, NotesInv, Nested
  <2>. QED BY <2>1, <2>2
<1>3. ASSUME RowsWritten PROVE DatabaseInv'
  <2>1. PICK rows : db' = Written(db, active, rows)
    BY <1>3 DEF RowsWritten
  <2>2. "notes" \in DOMAIN db' /\ db'.notes = db.notes
    BY <1>3, <2>1, WrittenKeepsNotes DEF RowsWritten, TransactionInv, NotesInv
  <2>3. TransactionInv'
    BY <1>3 DEF RowsWritten, Saves, history, TransactionInv, Nested
  <2>4. NotesInv'
    BY <1>3, <2>2 DEF RowsWritten, history, NotesInv
  <2>. QED BY <2>3, <2>4
<1>4. ASSUME RowRefused PROVE DatabaseInv'
  BY <1>4, WrittenKeepsNotes DEF RowRefused, Saves, TransactionInv, NotesInv, Nested
<1>5. ASSUME EndSave PROVE DatabaseInv'
  BY <1>5 DEF EndSave, Saves, Refused, Return, tables, TransactionInv, NotesInv, Nested
<1>6. ASSUME Abandon PROVE DatabaseInv'
  BY <1>6 DEF Abandon, Saves, RollbackStatement, Committed, Return, history, TransactionInv, NotesInv, Nested
<1>7. ASSUME NEW fn, SaveFunction(fn) PROVE DatabaseInv'
  BY <1>7, StatementKeeps DEF SaveFunction, NotesInv
<1>8. ASSUME NEW from, NEW to, SaveXref(from, to) PROVE DatabaseInv'
  BY <1>8, StatementKeeps DEF SaveXref, NotesInv
<1>9. ASSUME NEW address, DeleteAnnotation(address) PROVE DatabaseInv'
  BY <1>9, StatementKeeps DEF DeleteAnnotation, NotesInv
<1>10. ASSUME NEW address, NEW note, SaveAnnotation(address, note) PROVE DatabaseInv'
  BY <1>10, StatementKeeps DEF SaveAnnotation, NotesInv
<1>11. ASSUME BeginTransaction PROVE DatabaseInv'
  BY <1>11 DEF BeginTransaction, Call, TransactionInv, NotesInv, Nested
<1>12. ASSUME Commit PROVE DatabaseInv'
  <2>1. TransactionInv'
    BY <1>12 DEF Commit, Call, Refused, tables, TransactionInv, Nested
  <2>2. NotesInv'
    BY <1>12 DEF Commit, Call, Refused, tables, TransactionInv, NotesInv, Nested
  <2>. QED BY <2>1, <2>2
<1>13. ASSUME Rollback PROVE DatabaseInv'
  BY <1>13 DEF Rollback, Call, RollbackStatement, Committed, TransactionInv, NotesInv, Nested
<1>14. ASSUME Close \/ Crash PROVE DatabaseInv'
  BY <1>14 DEF Close, Crash, Disconnect, RollbackStatement, Committed, TransactionInv, NotesInv, Nested
<1>15. ASSUME Open PROVE DatabaseInv'
  BY <1>15 DEF Open, tables, TransactionInv, NotesInv, Nested
<1>16. ASSUME UNCHANGED vars PROVE DatabaseInv'
  BY <1>16 DEF vars, tables, control, history, TransactionInv, NotesInv, Nested
<1>. QED
  BY <1>1, <1>2, <1>3, <1>4, <1>5, <1>6, <1>7, <1>8, <1>9, <1>10, <1>11, <1>12, <1>13, <1>14,
     <1>15, <1>16 DEF Next

\* A save that returns has ended its transaction: one is open between calls only
\* because the caller opened it, or because SQLite refused a COMMIT
\* (AnalysisDatabase.cpp, the Commit or Rollback that ends every save).
THEOREM TransactionsClosedHolds == Spec => []TransactionsClosed
<1>1. DatabaseInv => TransactionsClosed
  BY DEF DatabaseInv, TransactionInv, Nested, TransactionsClosed
<1>. QED BY InitDatabase, NextDatabase, <1>1, PTL DEF Spec

\* An annotation whose save or deletion returned true outside a transaction of
\* the caller stays as it is on disk, whatever saves fail, wherever the process
\* dies, as long as SQLite refuses no COMMIT (AnalysisDatabase.cpp, SaveAnnotation
\* and DeleteAnnotation).
THEOREM NotesAreDurable == Spec => []AcknowledgedNotesDurable
<1>1. DatabaseInv => AcknowledgedNotesDurable
  BY DEF DatabaseInv, NotesInv, TransactionInv, AcknowledgedNotesDurable, Committed
<1>. QED BY InitDatabase, NextDatabase, <1>1, PTL DEF Spec
-----------------------------------------------------------------------------
(* Saves are atomic. *)

\* The tables hold rows of the schema and keep their keys.
Keyed(t) ==
    /\ Tables(t)
    /\ \A r, s \in t.functions : r[1] = s[1] => r = s
    /\ \A r, s \in t.notes : r[1] = s[1] => r = s

\* ON CONFLICT DO UPDATE keeps the key.
LEMMA UpsertKeepsKey ==
    ASSUME NEW rows, NEW new,
           \A r, s \in rows : r[1] = s[1] => r = s,
           \A r, s \in new : r[1] = s[1] => r = s
    PROVE  \A r, s \in Upsert(rows, new) : r[1] = s[1] => r = s
  BY DEF Upsert, AddressesOf

\* Rows added to a table without a key leave it a bag of rows.
LEMMA AddedRows ==
    ASSUME NEW B, NEW S, NEW T, IsABag(B), BagToSet(B) \subseteq T, S \subseteq T
    PROVE  IsABag(B (+) SetToBag(S)) /\ BagToSet(B (+) SetToBag(S)) \subseteq T
  BY DEF IsABag, BagToSet, SetToBag, (+)

\* Every save writes rows of the schema: some or all of what it sends.
LEMMA WrittenKeyed ==
    ASSUME NEW tab, Keyed(tab), NEW save \in Saves, program \in Programs,
           NEW known, NEW part,
           part \subseteq CASE save = "SaveFunctions" -> program.functions
                            [] save = "SaveBasicBlocks" -> program.blocks
                            [] save = "SaveSymbolTable" -> program.symbols
                            [] save = "SaveModule" -> ModuleRows(known)
    PROVE  Keyed(Written(tab, save, part))
<1>1. /\ program \in Program
      /\ \A f, g \in program.functions : f[1] = g[1] => f = g
  BY ProgramsAssumption
<1>2. /\ program.functions \subseteq Addr \X Nat /\ program.blocks \subseteq Addr \X Addr
      /\ program.calls \subseteq Addr \X Addr /\ program.symbols \subseteq Addr
  BY <1>1 DEF Program
<1>3. DOMAIN tab = {"functions", "blocks", "xrefs", "symbols", "notes"}
  BY DEF Keyed, Tables, Empty
<1>4. CASE save = "SaveFunctions"
  <2>1. \A r, s \in Upsert(tab.functions, part) : r[1] = s[1] => r = s
    BY <1>1, <1>4, UpsertKeepsKey DEF Keyed
  <2>2. Upsert(tab.functions, part) \subseteq Addr \X Nat
    BY <1>2, <1>4 DEF Keyed, Tables, Upsert
  <2>. QED BY <1>3, <1>4, <2>1, <2>2 DEF Written, Keyed, Tables, Empty
<1>5. CASE save = "SaveBasicBlocks"
  <2>1. part \subseteq Addr \X Addr
    BY <1>2, <1>5
  <2>. QED BY <1>3, <1>5, <2>1, AddedRows DEF Written, Keyed, Tables, Empty
<1>6. CASE save = "SaveSymbolTable"
  <2>1. part \subseteq Addr
    BY <1>2, <1>6
  <2>. QED BY <1>3, <1>6, <2>1, AddedRows DEF Written, Keyed, Tables, Empty
<1>7. CASE save = "SaveModule"
  <2>1. part \cap program.blocks \subseteq Addr \X Addr /\ part \cap program.calls \subseteq Addr \X Addr
    BY <1>2, <1>7
  <2>. QED BY <1>3, <1>7, <2>1, AddedRows DEF Written, Keyed, Tables, Empty
<1>. QED BY <1>4, <1>5, <1>6, <1>7 DEF Saves

\* What is on disk while a save runs: the tables as they were, and once SaveModule
\* has saved its functions, these as well.
Stored == IF inModule /\ active # "SaveFunctions" THEN FunctionsOnly ELSE before

\* The rows of the save that runs are all in the tables.
Complete == \E rows \in RowsOf(active) : db = Written(before, active, rows)

\* The types, of the tables that a ROLLBACK brings back as well.
Types == TypeOK /\ Keyed(saved)

\* A save that runs has changed nothing on disk: its rows are in its transaction
\* only, all of them when it is about to commit.  SaveModule never gets that far.
AtomicInv ==
    /\ inModule => active \in Saves \ {"SaveBasicBlocks"}
    /\ ~open => active = "none"
    /\ active \in Saves =>
          /\ at # "idle" => Committed = Stored
          /\ at = "rows" => db = saved
          /\ at = "commit" => active # "SaveModule" /\ Complete
          /\ at = "idle" => IF answer THEN ~inTx /\ Complete ELSE Committed \in {before, Stored}

LEMMA InitTypes == Init => Types
<1>1. Keyed(Empty)
  BY DEF Keyed, Tables, Empty, EmptyBag, SetToBag, IsABag, BagToSet
<1> SUFFICES ASSUME Init PROVE Types
  OBVIOUS
<1>2. Keyed(db) /\ Keyed(saved) /\ Keyed(before)
  BY <1>1 DEF Init
<1>3. {open, inTx, inModule, answer, failed, callerTx, commitFailed} \subseteq BOOLEAN
  BY DEF Init
<1>4. calls \in 0 .. MaxCalls
  BY MaxCallsAssumption DEF Init
<1>. QED BY <1>2, <1>3, <1>4 DEF Init, Types, TypeOK, Keyed

\* What a ROLLBACK, or a reader, finds has the types of the tables.
LEMMA CommittedTypes == Types => Keyed(db) /\ Keyed(Committed)
  BY DEF Types, TypeOK, Keyed, Committed

\* A call is counted, and keeps what was on disk.
LEMMA CallTypes == Types /\ Call => Tables(before)' /\ calls' \in 0 .. MaxCalls /\ open' \in BOOLEAN
  BY CommittedTypes, MaxCallsAssumption DEF Types, TypeOK, Call, Keyed

\* A refused statement leaves the tables, or takes its transaction with it.
LEMMA RefusedTypes == Types /\ Refused => Keyed(db)' /\ Keyed(saved)' /\ inTx' \in BOOLEAN
  BY CommittedTypes DEF Types, TypeOK, Refused, tables

LEMMA StatementTypes ==
    ASSUME Types, NEW STATE tab, Keyed(tab), Statement(tab)
    PROVE  Types'
<1>1. Keyed(db)' /\ Keyed(saved)' /\ inTx' \in BOOLEAN /\ answer' \in BOOLEAN /\ failed' \in BOOLEAN
  BY RefusedTypes DEF Statement, Types, TypeOK
<1>2. noted' \subseteq Addr \X Notes
  BY DEF Statement, Types, TypeOK, Keyed, Tables
<1>3. active' = "none" /\ inModule' = FALSE /\ UNCHANGED <<program, at, callerTx, commitFailed>>
  BY DEF Statement
<1>. QED
  BY <1>1, <1>2, <1>3, CallTypes DEF Statement, Types, TypeOK, Keyed

LEMMA NextTypes == Types /\ TransactionInv /\ [Next]_vars => Types'
<1> SUFFICES ASSUME Types, TransactionInv, [Next]_vars PROVE Types'
  OBVIOUS
<1>0. Keyed(db) /\ Keyed(saved) /\ Keyed(Committed)
  BY CommittedTypes DEF Types
<1>1. ASSUME NEW save \in Saves, Save(save) PROVE Types'
  BY <1>1, CallTypes DEF Save, Saves, tables, Types, TypeOK
<1>2. ASSUME Begin PROVE Types'
  BY <1>0, <1>2 DEF Begin, Return, Saves, tables, Types, TypeOK
<1>3. ASSUME RowsWritten PROVE Types'
  <2>1. active \in Saves
    BY <1>3 DEF RowsWritten, TransactionInv
  <2>2. PICK rows \in RowsOf(active) : db' = Written(db, active, rows)
    BY <1>3 DEF RowsWritten
  <2>3. PICK known : rows \subseteq CASE active = "SaveFunctions" -> program.functions
                            [] active = "SaveBasicBlocks" -> program.blocks
                            [] active = "SaveSymbolTable" -> program.symbols
                            [] active = "SaveModule" -> ModuleRows(known)
    BY <2>1, <2>2 DEF RowsOf, Saves
  <2>4. Keyed(db')
    BY <1>0, <2>1, <2>2, <2>3, WrittenKeyed DEF Types, TypeOK
  <2>. QED BY <1>3, <2>4 DEF RowsWritten, Saves, history, Types, TypeOK, Keyed
<1>4. ASSUME RowRefused PROVE Types'
  <2>1. active \in Saves
    BY <1>4 DEF RowRefused, TransactionInv
  <2>2. PICK rows \in RowsOf(active), lost \in BOOLEAN :
           /\ \E part \in SUBSET rows \ {rows} :
                db' = IF lost THEN saved ELSE Written(db, active, part)
           /\ inTx' = ~lost
    BY <1>4 DEF RowRefused
  <2>3. PICK part \in SUBSET rows : db' = IF lost THEN saved ELSE Written(db, active, part)
    BY <2>2
  <2>4. PICK known : part \subseteq CASE active = "SaveFunctions" -> program.functions
                            [] active = "SaveBasicBlocks" -> program.blocks
                            [] active = "SaveSymbolTable" -> program.symbols
                            [] active = "SaveModule" -> ModuleRows(known)
    BY <2>1, <2>2, <2>3 DEF RowsOf, Saves
  <2>5. Keyed(Written(db, active, part))
    BY <1>0, <2>1, <2>4, WrittenKeyed DEF Types, TypeOK
  <2>6. Keyed(db') /\ inTx' \in BOOLEAN
    BY <1>0, <2>2, <2>3, <2>5
  <2>. QED BY <1>4, <2>6 DEF RowRefused, Types, TypeOK, Keyed
<1>5. ASSUME EndSave PROVE Types'
  <2>1. Keyed(db)' /\ Keyed(saved)' /\ inTx' \in BOOLEAN
    BY <1>0, <1>5, RefusedTypes DEF EndSave
  <2>. QED BY <1>5, <2>1 DEF EndSave, Return, Saves, Types, TypeOK, Keyed
<1>6. ASSUME Abandon PROVE Types'
  BY <1>0, <1>6 DEF Abandon, RollbackStatement, Return, Saves, history, Types, TypeOK, Keyed
<1>7. ASSUME NEW fn \in program.functions, SaveFunction(fn) PROVE Types'
  <2>1. Keyed([db EXCEPT !.functions = Upsert(@, {fn})])
    <3>1. \A r, s \in Upsert(db.functions, {fn}) : r[1] = s[1] => r = s
      BY <1>0, UpsertKeepsKey DEF Keyed
    <3>2. Upsert(db.functions, {fn}) \subseteq Addr \X Nat
      BY <1>0, ProgramsAssumption DEF Types, TypeOK, Program, Keyed, Tables, Upsert
    <3>. QED BY <1>0, <3>1, <3>2 DEF Keyed, Tables, Empty
  <2>. QED BY <1>7, <2>1, StatementTypes DEF SaveFunction
<1>8. ASSUME NEW from \in Addr, NEW to \in Addr, SaveXref(from, to) PROVE Types'
  <2>1. Keyed([db EXCEPT !.xrefs = @ \cup {<<from, to>>}])
    BY <1>0 DEF Keyed, Tables, Empty
  <2>. QED BY <1>8, <2>1, StatementTypes DEF SaveXref
<1>9. ASSUME NEW address \in Addr, DeleteAnnotation(address) PROVE Types'
  <2>1. Keyed([db EXCEPT !.notes = {n \in @ : n[1] # address}])
    BY <1>0 DEF Keyed, Tables, Empty
  <2>. QED BY <1>9, <2>1, StatementTypes DEF DeleteAnnotation
<1>10. ASSUME NEW address \in Addr, NEW note \in Notes, SaveAnnotation(address, note) PROVE Types'
  <2>1. Keyed([db EXCEPT !.notes = Upsert(@, {<<address, note>>})])
    <3>1. \A r, s \in Upsert(db.notes, {<<address, note>>}) : r[1] = s[1] => r = s
      BY <1>0, UpsertKeepsKey DEF Keyed
    <3>2. Upsert(db.notes, {<<address, note>>}) \subseteq Addr \X Notes
      BY <1>0 DEF Keyed, Tables, Upsert
    <3>. QED BY <1>0, <3>1, <3>2 DEF Keyed, Tables, Empty
  <2>. QED BY <1>10, <2>1, StatementTypes DEF SaveAnnotation
<1>11. ASSUME BeginTransaction PROVE Types'
  <2>1. /\ Keyed(saved)' /\ UNCHANGED <<db, program, at, noted, commitFailed>>
        /\ active' = "none" /\ inModule' = FALSE
    BY <1>0, <1>11 DEF BeginTransaction
  <2>2. {inTx', answer', failed', callerTx'} \subseteq BOOLEAN
    BY <1>11 DEF BeginTransaction, Types, TypeOK
  <2>. QED BY <1>0, <1>11, <2>1, <2>2, CallTypes DEF BeginTransaction, Types, TypeOK, Keyed
<1>12. ASSUME Commit PROVE Types'
  <2>1. Keyed(db)' /\ Keyed(saved)' /\ inTx' \in BOOLEAN
    BY <1>0, <1>12, RefusedTypes DEF Commit
  <2>2. noted' \subseteq Addr \X Notes
    BY <1>12 DEF Commit, Types, TypeOK, Tables
  <2>. QED BY <1>12, <2>1, <2>2, CallTypes DEF Commit, Types, TypeOK, Keyed
<1>13. ASSUME Rollback PROVE Types'
  <2>1. noted' \subseteq Addr \X Notes
    BY <1>0, <1>13 DEF Rollback, Types, TypeOK, Keyed, Tables
  <2>. QED BY <1>0, <1>13, <2>1, CallTypes DEF Rollback, RollbackStatement, Types, TypeOK, Keyed
<1>14. ASSUME Close \/ Crash PROVE Types'
  <2>1. noted' \subseteq Addr \X Notes
    BY <1>0, <1>14 DEF Close, Crash, Disconnect, Types, TypeOK, Keyed, Tables
  <2>. QED BY <1>0, <1>14, <2>1 DEF Close, Crash, Disconnect, RollbackStatement, Types, TypeOK, Keyed
<1>15. ASSUME Open PROVE Types'
  BY <1>15 DEF Open, tables, Types, TypeOK
<1>16. ASSUME UNCHANGED vars PROVE Types'
  BY <1>16 DEF vars, tables, control, history, Types, TypeOK
<1>. QED
  BY <1>1, <1>2, <1>3, <1>4, <1>5, <1>6, <1>7, <1>8, <1>9, <1>10, <1>11, <1>12, <1>13, <1>14,
     <1>15, <1>16 DEF Next

\* A call that is no save leaves none behind.
LEMMA NoSave == active' = "none" /\ inModule' = FALSE => AtomicInv'
  BY DEF AtomicInv, Saves

\* What a save is to leave behind depends on what it saves and on what was there.
LEMMA SameFunctions == UNCHANGED <<program, before>> => FunctionsOnly' = FunctionsOnly
  BY DEF FunctionsOnly, Written

LEMMA SameComplete == Complete /\ UNCHANGED <<db, program, active, before>> => Complete'
<1> SUFFICES ASSUME Complete, UNCHANGED <<db, program, active, before>> PROVE Complete'
  OBVIOUS
<1>1. RowsOf(active)' = RowsOf(active)
  <2>1. QueryFunctions' = QueryFunctions
    BY DEF QueryFunctions
  <2>2. \A known : ModuleRows(known)' = ModuleRows(known)
    BY DEF ModuleRows
  <2>. QED BY <2>1, <2>2 DEF RowsOf
<1>2. ASSUME NEW rows PROVE Written(before, active, rows)' = Written(before, active, rows)
  BY DEF Written
<1>. QED BY <1>1, <1>2 DEF Complete

\* The transaction of a save holds its rows, and what is on disk is as it was.
LEMMA BeginAtomic == DatabaseInv /\ AtomicInv /\ Begin => AtomicInv'
<1> SUFFICES ASSUME DatabaseInv, AtomicInv, Begin PROVE AtomicInv'
  OBVIOUS
<1>1. /\ active \in Saves /\ Committed = Stored /\ open /\ at = "begin"
      /\ UNCHANGED <<open, program, inModule, before>>
  BY DEF Begin, DatabaseInv, TransactionInv, NotesInv, AtomicInv
<1>2. FunctionsOnly' = FunctionsOnly
  BY <1>1, SameFunctions
<1>3. CASE Return(FALSE) /\ UNCHANGED tables
  BY <1>1, <1>2, <1>3 DEF Return, tables, AtomicInv, Committed, Stored, Saves
<1>4. CASE saved' = db /\ inTx' = TRUE /\ ~inTx /\ at' = "rows" /\ UNCHANGED <<db, active, answer>>
  BY <1>1, <1>2, <1>4 DEF AtomicInv, Committed, Stored
<1>. QED BY <1>3, <1>4 DEF Begin

LEMMA RowsAtomic == DatabaseInv /\ AtomicInv /\ RowsWritten => AtomicInv'
<1> SUFFICES ASSUME DatabaseInv, AtomicInv, RowsWritten PROVE AtomicInv'
  OBVIOUS
<1>1. /\ active \in Saves /\ inTx /\ inTx' /\ saved' = saved /\ saved = Stored /\ db = saved
      /\ UNCHANGED <<open, program, inModule, answer, before>>
  BY DEF RowsWritten, history, DatabaseInv, TransactionInv, AtomicInv, Committed
<1>2. FunctionsOnly' = FunctionsOnly
  BY <1>1, SameFunctions
<1>3. CASE active = "SaveModule"
  BY <1>1, <1>2, <1>3 DEF RowsWritten, DatabaseInv, TransactionInv, AtomicInv, Committed, Stored, Saves
<1>4. CASE active # "SaveModule"
  <2>1. Stored = before /\ active' = active /\ at' = "commit"
    BY <1>1, <1>4 DEF Stored, DatabaseInv, TransactionInv, AtomicInv, RowsWritten, Nested, Saves
  <2>2. Complete'
    BY <1>1, <1>4, <2>1 DEF RowsWritten, Complete, RowsOf, Written, Saves
  <2>. QED
    BY <1>1, <1>2, <1>4, <2>1, <2>2 DEF AtomicInv, Committed, Stored
<1>. QED BY <1>3, <1>4

LEMMA EndAtomic == DatabaseInv /\ AtomicInv /\ EndSave => AtomicInv'
<1> SUFFICES ASSUME DatabaseInv, AtomicInv, EndSave PROVE AtomicInv'
  OBVIOUS
<1>1. /\ active \in Saves /\ active # "SaveModule" /\ ~Nested /\ inTx /\ saved = before /\ open
      /\ UNCHANGED <<open, program, inModule, before>> /\ Complete
  BY DEF EndSave, DatabaseInv, TransactionInv, NotesInv, Nested, AtomicInv, Committed, Stored, Saves
<1>2. FunctionsOnly' = FunctionsOnly
  BY <1>1, SameFunctions
<1>3. CASE inTx' = FALSE /\ Return(TRUE) /\ UNCHANGED <<db, saved>>
  <2>1. CASE inModule
    <3>1. active = "SaveFunctions" /\ db = FunctionsOnly
      BY <1>1, <2>1 DEF AtomicInv, Nested, Saves, FunctionsOnly, Complete, RowsOf
    <3>. QED BY <1>1, <1>2, <1>3, <2>1, <3>1 DEF Return, AtomicInv, Committed, Stored, Saves
  <2>2. CASE ~inModule
    <3>1. UNCHANGED <<db, program, active, before>> /\ at' = "idle" /\ answer'
      BY <1>1, <1>3, <2>2 DEF Return
    <3>2. Complete'
      BY <1>1, <3>1, SameComplete
    <3>. QED
      BY <1>1, <1>3, <2>2, <3>1, <3>2 DEF AtomicInv
  <2>. QED BY <2>1, <2>2
<1>4. CASE Refused /\ Return(FALSE)
  <2>1. Committed' = before' /\ active' = active /\ at' = "idle" /\ ~answer'
    BY <1>1, <1>4 DEF Refused, Return, tables, Nested, Committed
  <2>. QED BY <1>1, <2>1 DEF AtomicInv
<1>. QED BY <1>3, <1>4 DEF EndSave

LEMMA AbandonAtomic == DatabaseInv /\ AtomicInv /\ (RowRefused \/ Abandon) => AtomicInv'
<1> SUFFICES ASSUME DatabaseInv, AtomicInv, RowRefused \/ Abandon PROVE AtomicInv'
  OBVIOUS
<1>1. /\ active \in Saves /\ Committed = Stored /\ ~Nested
      /\ UNCHANGED <<open, saved, program, inModule, before>>
  BY DEF RowRefused, Abandon, RollbackStatement, history, DatabaseInv, TransactionInv, AtomicInv
<1>2. FunctionsOnly' = FunctionsOnly
  BY <1>1, SameFunctions
<1>3. CASE RowRefused
  <2>1. inTx /\ saved = Stored
    BY <1>1, <1>3 DEF RowRefused, DatabaseInv, TransactionInv, Committed
  <2>2. inTx' \/ db' = saved
    BY <1>3 DEF RowRefused
  <2>. QED BY <1>1, <1>2, <1>3, <2>1, <2>2 DEF RowRefused, AtomicInv, Committed, Stored
<1>4. CASE Abandon
  <2>1. /\ Committed' = Committed /\ at' = "idle" /\ ~answer' /\ active' = active
    BY <1>1, <1>4 DEF Abandon, RollbackStatement, Return, Nested, Committed
  <2>. QED BY <1>1, <1>2, <2>1 DEF AtomicInv, Stored
<1>. QED BY <1>3, <1>4

LEMMA NextAtomic == DatabaseInv /\ AtomicInv /\ [Next]_vars => AtomicInv'
<1> SUFFICES ASSUME DatabaseInv, AtomicInv, [Next]_vars PROVE AtomicInv'
  OBVIOUS
<1>1. ASSUME NEW save \in Saves, Save(save) PROVE AtomicInv'
  BY <1>1 DEF Save, Saves, Call, tables, AtomicInv, Committed, Stored
<1>2. ASSUME \/ \E fn : SaveFunction(fn)
             \/ \E from, to : SaveXref(from, to)
             \/ \E address : DeleteAnnotation(address) \/ \E note : SaveAnnotation(address, note)
             \/ BeginTransaction \/ Commit \/ Rollback \/ Close \/ Crash
      PROVE  AtomicInv'
  <2>1. active' = "none" /\ inModule' = FALSE
    BY <1>2
    DEF SaveFunction, SaveXref, DeleteAnnotation, SaveAnnotation, Statement,
        BeginTransaction, Commit, Rollback, Close, Crash, Disconnect
  <2>. QED BY <2>1, NoSave
<1>3. ASSUME Open PROVE AtomicInv'
  BY <1>3 DEF Open, AtomicInv, Saves
<1>4. ASSUME UNCHANGED vars PROVE AtomicInv'
  BY <1>4, SameFunctions, SameComplete DEF vars, tables, control, history, AtomicInv, Committed, Stored
<1>. QED
  BY <1>1, <1>2, <1>3, <1>4, BeginAtomic, RowsAtomic, EndAtomic, AbandonAtomic DEF Next

\* Whatever statement SQLite refuses and wherever the process dies, a save that
\* returned true is on disk with all its rows and one that did not has left
\* nothing there, SaveModule at most its functions; the tables keep the types and
\* the keys of the schema (AnalysisDatabase.cpp, SaveFunctions, SaveBasicBlocks,
\* SaveSymbolTable, SaveModule).
THEOREM SavesAreAtomicHolds == Spec => []SavesAreAtomic
<1>1. Init => AtomicInv
  BY DEF Init, AtomicInv, Saves
<1>2. Types /\ AtomicInv => SavesAreAtomic
  BY DEF Types, AtomicInv, SavesAreAtomic, Committed, Stored, Complete
<1>. QED BY InitTypes, NextTypes, InitDatabase, NextDatabase, NextAtomic, <1>1, <1>2, PTL DEF Spec, DatabaseInv
=============================================================================
