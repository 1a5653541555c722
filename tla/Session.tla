------------------------------- MODULE Session -------------------------------
(***************************************************************************)
(* What an analyst's session keeps in memory and stores in the analysis    *)
(* database: the annotations of SymbolManager and the cross references of  *)
(* XrefManager with its two indexes.  SaveTo writes record by record, each *)
(* statement commits by itself, and its failure is ignored; LoadFrom reads *)
(* a table back; the process may die before, between or after the          *)
(* statements of a save.  Of the database only the two tables are kept:    *)
(* AnalysisDatabase has the statements.                                    *)
(***************************************************************************)
EXTENDS FiniteSets, Naturals

CONSTANTS
    Addr,       \* addresses
    Texts,      \* names and comments
    Types,      \* "call", "jump", "data"
    MaxEdits    \* bound: how many calls change the memory

Blank == "blank"                    \* a field that was not set
NoNote == [name |-> Blank, comment |-> "none"]
Note == [name : Texts \cup {Blank}, comment : Texts \cup {Blank}]
Xref == Addr \X Addr \X Types

ASSUME AddressesAssumption == IsFiniteSet(Addr) /\ IsFiniteSet(Types)
ASSUME TextsAssumption == {Blank, "none"} \cap Texts = {}
ASSUME MaxEditsAssumption == MaxEdits \in Nat

VARIABLES
    annotations,            \* SymbolManager::m_annotations
    all, byFrom, byTo,      \* XrefManager: m_all, and how often each xref is in the two multimaps
    storedNotes,            \* the table user_annotations
    storedXrefs,            \* the table xrefs
    notesToSave, xrefsToSave,   \* what the loops of the two SaveTo have still to write
    saving,                 \* the two SaveTo run
    edits,
    refused,                \* history: a statement of this SaveTo was refused
    restorable,             \* history: the memory at the last SaveTo that had none refused
    since                   \* history: what each annotation was since then

xrefManager == <<all, byFrom, byTo>>
stored == <<storedNotes, storedXrefs>>
loops == <<notesToSave, xrefsToSave, saving, refused>>
vars == <<annotations, xrefManager, stored, loops, edits, restorable, since>>

Unset == [a \in Addr |-> NoNote]
NoXrefs == [x \in Xref |-> 0]

Init ==
    /\ annotations = Unset
    /\ all = {} /\ byFrom = NoXrefs /\ byTo = NoXrefs
    /\ storedNotes = Unset /\ storedXrefs = {}
    /\ notesToSave = {} /\ xrefsToSave = {} /\ saving = FALSE
    /\ edits = 0
    /\ refused = FALSE /\ restorable = [notes |-> Unset, xrefs |-> {}]
    /\ since = [a \in Addr |-> {NoNote}]

-----------------------------------------------------------------------------
(* SymbolManager. *)

Edit == ~saving /\ edits < MaxEdits /\ edits' = edits + 1

Annotate(a, note) ==
    /\ Edit
    /\ annotations' = [annotations EXCEPT ![a] = note]
    /\ since' = [since EXCEPT ![a] = @ \cup {note}]
    /\ UNCHANGED <<xrefManager, stored, loops, restorable>>

\* operator[] creates the annotation with blank fields.
Fetched(a) == IF annotations[a] = NoNote THEN [name |-> Blank, comment |-> Blank] ELSE annotations[a]

SetName(a, text) == Annotate(a, [Fetched(a) EXCEPT !.name = text])
SetComment(a, text) == Annotate(a, [Fetched(a) EXCEPT !.comment = text])
Remove(a) == Annotate(a, NoNote)

-----------------------------------------------------------------------------
(* XrefManager. *)

AddXref(x) ==
    /\ Edit
    /\ all' = all \cup {x}
    /\ IF x \notin all
       THEN /\ byFrom' = [byFrom EXCEPT ![x] = @ + 1]
            /\ byTo' = [byTo EXCEPT ![x] = @ + 1]
       ELSE UNCHANGED <<byFrom, byTo>>
    /\ UNCHANGED <<annotations, stored, loops, restorable, since>>

\* Of each multimap the first entry with these three fields goes, if there is one.
Without(index, x) == IF index[x] > 0 THEN [index EXCEPT ![x] = @ - 1] ELSE index

\* Mutant: an xref leaves the index by source only.
RemoveOutgoing(x) ==
    /\ Edit
    /\ all' = all \ {x}
    /\ byFrom' = IF x \in all THEN Without(byFrom, x) ELSE byFrom
    /\ UNCHANGED <<annotations, byTo, stored, loops, restorable, since>>

RemoveXref(x) ==
    /\ Edit
    /\ all' = all \ {x}
    /\ IF x \in all
       THEN byFrom' = Without(byFrom, x) /\ byTo' = Without(byTo, x)
       ELSE UNCHANGED <<byFrom, byTo>>
    /\ UNCHANGED <<annotations, stored, loops, restorable, since>>

\* The queries, each of one multimap; those of one type filter these.
GetXrefsTo(a) == {x \in Xref : x[2] = a /\ byTo[x] > 0}
GetXrefsFrom(a) == {x \in Xref : x[1] = a /\ byFrom[x] > 0}
Entries(index, xs) == UNION {{x} \X (1 .. index[x]) : x \in xs}
GetXrefCountTo(a) == Cardinality(Entries(byTo, GetXrefsTo(a)))
GetXrefCountFrom(a) == Cardinality(Entries(byFrom, GetXrefsFrom(a)))

\* Clear, and AddXref of every row.
LoadXrefs(rows) ==
    /\ all' = rows
    /\ byFrom' = [x \in Xref |-> IF x \in rows THEN 1 ELSE 0]
    /\ byTo' = [x \in Xref |-> IF x \in rows THEN 1 ELSE 0]

-----------------------------------------------------------------------------
(* Save and restore. *)

\* Both SaveTo, of the records that are in memory.
SaveTo ==
    /\ ~saving /\ saving' = TRUE
    /\ notesToSave' = {a \in Addr : annotations[a] # NoNote}
    /\ xrefsToSave' = all
    /\ refused' = FALSE
    /\ UNCHANGED <<annotations, xrefManager, stored, edits, restorable, since>>

\* Mutant: of a row that is there already only the name is written.
SaveName(a) ==
    /\ saving /\ a \in notesToSave
    /\ notesToSave' = notesToSave \ {a}
    /\ \/ /\ storedNotes' =
                IF storedNotes[a] = NoNote
                THEN [storedNotes EXCEPT ![a] = annotations[a]]
                ELSE [storedNotes EXCEPT ![a].name = annotations[a].name]
          /\ UNCHANGED refused
       \/ refused' = TRUE /\ UNCHANGED storedNotes
    /\ UNCHANGED <<annotations, xrefManager, storedXrefs, xrefsToSave, saving, edits,
                   restorable, since>>

\* SaveAnnotation of one record, in the order of an unordered_map.  Whether the
\* statement was refused is not asked.
SaveNote(a) ==
    /\ saving /\ a \in notesToSave
    /\ notesToSave' = notesToSave \ {a}
    /\ \/ storedNotes' = [storedNotes EXCEPT ![a] = annotations[a]] /\ UNCHANGED refused
       \/ refused' = TRUE /\ UNCHANGED storedNotes
    /\ UNCHANGED <<annotations, xrefManager, storedXrefs, xrefsToSave, saving, edits,
                   restorable, since>>

\* SaveXref of one record.
SaveXref(x) ==
    /\ saving /\ notesToSave = {} /\ x \in xrefsToSave
    /\ xrefsToSave' = xrefsToSave \ {x}
    /\ \/ storedXrefs' = storedXrefs \cup {x} /\ UNCHANGED refused
       \/ refused' = TRUE /\ UNCHANGED storedXrefs
    /\ UNCHANGED <<annotations, xrefManager, storedNotes, notesToSave, saving, edits,
                   restorable, since>>

Saved ==
    /\ saving /\ notesToSave = {} /\ xrefsToSave = {}
    /\ saving' = FALSE
    /\ IF refused
       THEN UNCHANGED <<restorable, since>>
       ELSE /\ restorable' = [notes |-> annotations, xrefs |-> all]
            /\ since' = [a \in Addr |-> {annotations[a]}]
    /\ UNCHANGED <<annotations, xrefManager, stored, notesToSave, xrefsToSave, edits, refused>>

\* A query that fails, at its start or at a row, returns the rows it has.
QueryAllAnnotations ==
    {[a \in Addr |-> IF a \in read THEN storedNotes[a] ELSE NoNote] : read \in SUBSET Addr}
QueryAllXrefs == SUBSET storedXrefs

\* Both LoadFrom.  The memory is cleared whatever the queries return.
LoadFrom ==
    /\ Edit
    /\ annotations' \in QueryAllAnnotations
    /\ \E rows \in QueryAllXrefs : LoadXrefs(rows)
    /\ since' = [a \in Addr |-> since[a] \cup {annotations'[a]}]
    /\ UNCHANGED <<stored, loops, restorable>>

\* The process ends, or dies in the middle of a save; a new one starts empty.
Restart ==
    /\ edits < MaxEdits /\ edits' = edits + 1
    /\ annotations' = Unset /\ LoadXrefs({})
    /\ notesToSave' = {} /\ xrefsToSave' = {} /\ saving' = FALSE
    /\ since' = [a \in Addr |-> since[a] \cup {NoNote}]
    /\ UNCHANGED <<stored, refused, restorable>>

Next ==
    \/ \E a \in Addr :
          \/ \E text \in Texts : SetName(a, text) \/ SetComment(a, text)
          \/ Remove(a)
          \/ SaveNote(a)
    \/ \E x \in Xref : AddXref(x) \/ RemoveXref(x) \/ SaveXref(x)
    \/ SaveTo \/ Saved \/ LoadFrom \/ Restart

Spec == Init /\ [][Next]_vars

-----------------------------------------------------------------------------
(* Properties. *)

\* The type invariant.
TypeOK ==
    /\ {annotations, storedNotes, restorable.notes} \subseteq [Addr -> Note \cup {NoNote}]
    /\ {all, storedXrefs, xrefsToSave, restorable.xrefs} \subseteq SUBSET Xref
    /\ {byFrom, byTo} \subseteq [Xref -> 0 .. 1]
    /\ notesToSave \subseteq Addr /\ {saving, refused} \subseteq BOOLEAN
    /\ edits \in 0 .. MaxEdits

\* Every query goes to one of the two multimaps, AddXref and RemoveXref decide by
\* the set: across removals and loads each query returns, once, what the set has.
\* (With the type invariant.)
IndexesAgree ==
    /\ TypeOK
    /\ \A a \in Addr :
          /\ GetXrefsTo(a) = {x \in all : x[2] = a}
          /\ GetXrefsFrom(a) = {x \in all : x[1] = a}
          /\ GetXrefCountTo(a) = Cardinality(GetXrefsTo(a))
          /\ GetXrefCountFrom(a) = Cardinality(GetXrefsFrom(a))

\* Whatever is edited, refused or cut short afterwards, an annotation that a SaveTo
\* without a refused statement has stored can be restored: the table has for it what
\* it was then or has become since, never an older version or a mixture of two.
SavedIsRestorable ==
    /\ \A a \in Addr : restorable.notes[a] # NoNote => storedNotes[a] \in since[a] \ {NoNote}
    /\ restorable.xrefs \subseteq storedXrefs
=============================================================================
