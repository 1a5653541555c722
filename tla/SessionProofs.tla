---------------------------- MODULE SessionProofs ----------------------------
(***************************************************************************)
(* For every set of addresses, texts and types and every number of edits:  *)
(* the two multimaps of XrefManager agree with its set, and what a SaveTo  *)
(* without a refused statement has stored can be restored.                 *)
(***************************************************************************)
EXTENDS Session, FiniteSetTheorems, TLAPS

-----------------------------------------------------------------------------
(* The indexes. *)

\* An index with one entry for each xref of the set, and no other.
IndexOf(xs) == [x \in Xref |-> IF x \in xs THEN 1 ELSE 0]

IndexInv ==
    /\ TypeOK
    /\ byFrom = IndexOf(all) /\ byTo = IndexOf(all)

LEMMA NoNoteIsNoNote == NoNote \notin Note
BY TextsAssumption DEF NoNote, Note, Blank

LEMMA FetchedType ==
    ASSUME annotations \in [Addr -> Note \cup {NoNote}], NEW a \in Addr, NEW text \in Texts
    PROVE  /\ [Fetched(a) EXCEPT !.name = text] \in Note
           /\ [Fetched(a) EXCEPT !.comment = text] \in Note
<1>1. Fetched(a) \in Note
    BY DEF Fetched, Note
<1> QED BY <1>1 DEF Note

LEMMA UnsetType == Unset \in [Addr -> Note \cup {NoNote}]
BY DEF Unset

\* Which notes an edit may write.
LEMMA EditNotes ==
    ASSUME TypeOK, NEW a \in Addr,
           \/ \E text \in Texts : SetName(a, text) \/ SetComment(a, text)
           \/ Remove(a)
    PROVE  \E note \in Note \cup {NoNote} : Annotate(a, note)
BY FetchedType DEF SetName, SetComment, Remove, TypeOK

LEMMA EditsType == MaxEdits \in Nat /\ edits \in 0 .. MaxEdits /\ edits < MaxEdits => edits + 1 \in 0 .. MaxEdits
OBVIOUS

LEMMA IndexInitially == Init => IndexInv
<1> SUFFICES ASSUME Init PROVE IndexInv
    OBVIOUS
<1>1. NoXrefs = IndexOf({}) /\ NoXrefs \in [Xref -> 0 .. 1]
    BY DEF NoXrefs, IndexOf
<1>2. restorable.notes = Unset /\ restorable.xrefs = {}
    BY DEF Init
<1>3. all = {} /\ byFrom = IndexOf(all) /\ byTo = IndexOf(all)
      /\ {byFrom, byTo} \subseteq [Xref -> 0 .. 1]
    BY <1>1 DEF Init
<1>4. {annotations, storedNotes, restorable.notes} \subseteq [Addr -> Note \cup {NoNote}]
    BY <1>2, UnsetType DEF Init
<1>5. /\ {all, storedXrefs, xrefsToSave, restorable.xrefs} \subseteq SUBSET Xref
      /\ notesToSave \subseteq Addr /\ {saving, refused} \subseteq BOOLEAN
    BY <1>2 DEF Init
<1>6. edits \in 0 .. MaxEdits
    BY MaxEditsAssumption DEF Init
<1> QED BY <1>3, <1>4, <1>5, <1>6 DEF IndexInv, TypeOK

LEMMA IndexStep == IndexInv /\ [Next]_vars => IndexInv'
<1> SUFFICES ASSUME IndexInv, [Next]_vars PROVE IndexInv'
    OBVIOUS
<1> USE DEF IndexInv, TypeOK, xrefManager, stored, loops
<1>1. \A xs : IndexOf(xs) \in [Xref -> 0 .. 1]
    BY DEF IndexOf
<1>2. ASSUME NEW a \in Addr, NEW note \in Note \cup {NoNote}, Annotate(a, note)
      PROVE  IndexInv'
    BY <1>2, EditsType, MaxEditsAssumption DEF Annotate, Edit
<1>3. ASSUME NEW x \in Xref, AddXref(x) PROVE IndexInv'
    <2>1. all' = all \cup {x} /\ all' \in SUBSET Xref
        BY <1>3 DEF AddXref
    <2>2. byFrom' = IndexOf(all') /\ byTo' = IndexOf(all')
        BY <1>3, <2>1 DEF AddXref, IndexOf
    <2> QED BY <1>1, <1>3, <2>1, <2>2, EditsType, MaxEditsAssumption DEF AddXref, Edit
<1>4. ASSUME NEW x \in Xref, RemoveXref(x) PROVE IndexInv'
    <2>1. all' = all \ {x} /\ all' \in SUBSET Xref
        BY <1>4 DEF RemoveXref
    <2>2. byFrom' = IndexOf(all') /\ byTo' = IndexOf(all')
        BY <1>4, <2>1 DEF RemoveXref, Without, IndexOf
    <2> QED BY <1>1, <1>4, <2>1, <2>2, EditsType, MaxEditsAssumption DEF RemoveXref, Edit
<1>5. CASE \E a \in Addr : SaveNote(a)
    <2>1. storedNotes' \in [Addr -> Note \cup {NoNote}] /\ notesToSave' \subseteq Addr /\ refused' \in BOOLEAN
        BY <1>5 DEF SaveNote
    <2> QED BY <1>5, <2>1 DEF SaveNote
<1>6. CASE \E x \in Xref : SaveXref(x)
    <2>1. storedXrefs' \in SUBSET Xref /\ xrefsToSave' \in SUBSET Xref /\ refused' \in BOOLEAN
        BY <1>6 DEF SaveXref
    <2> QED BY <1>6, <2>1 DEF SaveXref
<1>7. CASE SaveTo
    BY <1>7 DEF SaveTo
<1>8. CASE Saved
    <2>1. {restorable'.notes} \subseteq [Addr -> Note \cup {NoNote}] /\ {restorable'.xrefs} \subseteq SUBSET Xref
        BY <1>8 DEF Saved
    <2> QED BY <1>8, <2>1 DEF Saved
<1>9. ASSUME NEW rows \in SUBSET Xref, LoadXrefs(rows)
      PROVE  /\ all' = rows /\ byFrom' = IndexOf(rows) /\ byTo' = IndexOf(rows)
             /\ {byFrom', byTo'} \subseteq [Xref -> 0 .. 1]
    BY <1>9 DEF LoadXrefs, IndexOf
<1>10. CASE LoadFrom
    <2>1. annotations' \in [Addr -> Note \cup {NoNote}]
        BY <1>10 DEF LoadFrom, QueryAllAnnotations
    <2>2. PICK rows \in SUBSET Xref : LoadXrefs(rows)
        BY <1>10 DEF LoadFrom, QueryAllXrefs
    <2> QED BY <1>9, <1>10, <2>1, <2>2, EditsType, MaxEditsAssumption DEF LoadFrom, Edit
<1>11. CASE Restart
    <2>1. LoadXrefs({}) /\ {} \in SUBSET Xref
        BY <1>11 DEF Restart
    <2>2. /\ all' = {} /\ byFrom' = IndexOf(all') /\ byTo' = IndexOf(all')
          /\ {byFrom', byTo'} \subseteq [Xref -> 0 .. 1]
        BY <1>9, <2>1
    <2>3. edits' \in 0 .. MaxEdits
        BY <1>11, EditsType, MaxEditsAssumption DEF Restart
    <2>4. /\ annotations' = Unset /\ notesToSave' = {} /\ xrefsToSave' = {} /\ saving' = FALSE
          /\ UNCHANGED <<storedNotes, storedXrefs, refused, restorable>>
        BY <1>11 DEF Restart
    <2>5. {annotations', storedNotes', restorable'.notes} \subseteq [Addr -> Note \cup {NoNote}]
        BY <2>4, UnsetType
    <2>6. {all', storedXrefs', xrefsToSave', restorable'.xrefs} \subseteq SUBSET Xref
        BY <2>2, <2>4
    <2> QED BY <2>2, <2>3, <2>4, <2>5, <2>6
<1>12. CASE UNCHANGED vars
    <2>1. UNCHANGED <<annotations, all, byFrom, byTo, storedNotes, storedXrefs, notesToSave,
                      xrefsToSave, saving, refused, edits, restorable>>
        BY <1>12 DEF vars
    <2> QED BY <2>1 DEF IndexOf
<1> QED BY <1>2, <1>3, <1>4, <1>5, <1>6, <1>7, <1>8, <1>10, <1>11, <1>12, EditNotes DEF Next

\* An index with one entry for each xref of a set has as many entries as there are
\* xrefs asked for.
LEMMA EntriesCount ==
    ASSUME NEW ys \in SUBSET Xref, NEW xs \in SUBSET ys, IsFiniteSet(xs)
    PROVE  Cardinality(Entries(IndexOf(ys), xs)) = Cardinality(xs)
<1>1. \A x \in xs : 1 .. IndexOf(ys)[x] = {1}
    BY DEF IndexOf
<1>2. Entries(IndexOf(ys), xs) = xs \X {1}
    BY <1>1 DEF Entries
<1> DEFINE f == [x \in xs |-> <<x, 1>>]
<1>3. f \in [xs -> xs \X {1}] /\ \A x, y \in xs : f[x] = f[y] => x = y
    OBVIOUS
<1>4. \A t \in xs \X {1} : t[1] \in xs /\ f[t[1]] = t
    OBVIOUS
<1>5. f \in Bijection(xs, xs \X {1})
    <2> HIDE DEF f
    <2> QED BY <1>3, <1>4 DEF Bijection, Injection, Surjection, IsInjective
<1> QED BY <1>2, <1>5, FS_Bijection DEF ExistsBijection

\* Across edits, removals, loads and restarts each query returns, once, what the set
\* has, although it goes to one of the two multimaps and AddXref and RemoveXref decide
\* by the set.
THEOREM IndexesAgreeHolds == Spec => []IndexesAgree
<1>1. IndexInv => IndexesAgree
  <2> SUFFICES ASSUME IndexInv, NEW a \in Addr
               PROVE  /\ GetXrefsTo(a) = {x \in all : x[2] = a}
                      /\ GetXrefsFrom(a) = {x \in all : x[1] = a}
                      /\ GetXrefCountTo(a) = Cardinality(GetXrefsTo(a))
                      /\ GetXrefCountFrom(a) = Cardinality(GetXrefsFrom(a))
    BY DEF IndexesAgree, IndexInv
  <2>1. all \in SUBSET Xref /\ byFrom = IndexOf(all) /\ byTo = IndexOf(all)
    BY DEF IndexInv, TypeOK
  <2>2. IsFiniteSet(Xref)
    <3>1. IsFiniteSet(Addr \X Types)
        BY AddressesAssumption, FS_Product
    <3>2. IsFiniteSet(Addr \X (Addr \X Types))
        BY <3>1, AddressesAssumption, FS_Product
    <3> DEFINE g == [x \in Xref |-> <<x[1], <<x[2], x[3]>>>>]
    <3>3. g \in [Xref -> Addr \X (Addr \X Types)] /\ \A x, y \in Xref : g[x] = g[y] => x = y
        BY DEF Xref
    <3>4. g \in Injection(Xref, Addr \X (Addr \X Types))
        <4> HIDE DEF g
        <4> QED BY <3>3 DEF Injection, IsInjective
    <3> QED BY <3>2, <3>4, FS_Injection
  <2>3. /\ GetXrefsTo(a) = {x \in all : x[2] = a}
        /\ GetXrefsFrom(a) = {x \in all : x[1] = a}
    BY <2>1 DEF GetXrefsTo, GetXrefsFrom, IndexOf
  <2>4. IsFiniteSet(GetXrefsTo(a)) /\ IsFiniteSet(GetXrefsFrom(a))
    <3>1. GetXrefsTo(a) \subseteq Xref /\ GetXrefsFrom(a) \subseteq Xref
        BY DEF GetXrefsTo, GetXrefsFrom
    <3> QED BY <2>2, <3>1, FS_Subset
  <2>5. GetXrefsTo(a) \subseteq all /\ GetXrefsFrom(a) \subseteq all
    BY <2>3
  <2>6. GetXrefCountTo(a) = Cardinality(GetXrefsTo(a))
    BY <2>1, <2>4, <2>5, EntriesCount DEF GetXrefCountTo
  <2>7. GetXrefCountFrom(a) = Cardinality(GetXrefsFrom(a))
    BY <2>1, <2>4, <2>5, EntriesCount DEF GetXrefCountFrom
  <2> QED BY <2>3, <2>6, <2>7
<1> QED BY <1>1, IndexInitially, IndexStep, PTL DEF Spec

-----------------------------------------------------------------------------
(* Saving and restoring. *)

\* What the loops of a SaveTo have written, unless a statement was refused, is what
\* the memory has; and `since' goes back to the last SaveTo that had none refused.
SavedInv ==
    /\ since \in [Addr -> SUBSET (Note \cup {NoNote})]
    /\ \A a \in Addr : annotations[a] \in since[a]
    /\ \A a \in notesToSave : annotations[a] # NoNote
    /\ ~ saving => notesToSave = {}
    /\ saving /\ ~ refused =>
          /\ \A a \in Addr \ notesToSave : annotations[a] # NoNote => storedNotes[a] = annotations[a]
          /\ all \subseteq storedXrefs \cup xrefsToSave
    /\ SavedIsRestorable

LEMMA SavedInitially == Init => SavedInv
<1> SUFFICES ASSUME Init PROVE SavedInv
    OBVIOUS
<1>1. restorable.notes = Unset /\ restorable.xrefs = {}
    BY DEF Init
<1> QED BY <1>1 DEF Init, SavedInv, SavedIsRestorable, Unset

\* An edit of the annotations adds to `since' what it writes.
LEMMA AnnotateSaved ==
    ASSUME TypeOK, SavedInv, NEW a \in Addr, NEW note \in Note \cup {NoNote}, Annotate(a, note)
    PROVE  SavedInv'
<1>1. /\ annotations' = [annotations EXCEPT ![a] = note]
      /\ since' = [since EXCEPT ![a] = @ \cup {note}]
      /\ ~ saving /\ UNCHANGED <<all, storedNotes, storedXrefs, notesToSave, xrefsToSave, saving,
                                  refused, restorable>>
    BY DEF Annotate, Edit, xrefManager, stored, loops
<1>2. annotations \in [Addr -> Note \cup {NoNote}] /\ since \in [Addr -> SUBSET (Note \cup {NoNote})]
    BY DEF TypeOK, SavedInv
<1>3. since' \in [Addr -> SUBSET (Note \cup {NoNote})]
    BY <1>1, <1>2
<1>4. \A b \in Addr : annotations'[b] \in since'[b] /\ since[b] \subseteq since'[b]
    BY <1>1, <1>2 DEF SavedInv
<1>5. SavedIsRestorable'
    BY <1>1, <1>4 DEF SavedInv, SavedIsRestorable
<1> QED BY <1>1, <1>3, <1>4, <1>5 DEF SavedInv

\* So does a load or a restart.
LEMMA ReplacedSaved ==
    ASSUME TypeOK, SavedInv, annotations' \in [Addr -> Note \cup {NoNote}],
           since' = [a \in Addr |-> since[a] \cup {annotations'[a]}],
           ~ saving', notesToSave' = {}, UNCHANGED <<stored, restorable>>
    PROVE  SavedInv'
<1>1. UNCHANGED <<storedNotes, storedXrefs, restorable>>
    BY DEF stored
<1> QED BY <1>1 DEF SavedInv, SavedIsRestorable

LEMMA SavedStep == TypeOK /\ SavedInv /\ [Next]_vars => SavedInv'
<1> SUFFICES ASSUME TypeOK, SavedInv, [Next]_vars PROVE SavedInv'
    OBVIOUS
<1>1. ASSUME NEW x \in Xref, AddXref(x) \/ RemoveXref(x) PROVE SavedInv'
    <2>1. /\ ~ saving
          /\ UNCHANGED <<annotations, storedNotes, storedXrefs, notesToSave, saving, refused,
                         restorable, since>>
        BY <1>1 DEF AddXref, RemoveXref, Edit, stored, loops
    <2> QED BY <2>1 DEF SavedInv, SavedIsRestorable
<1>2. CASE LoadFrom
    <2>1. annotations' \in [Addr -> Note \cup {NoNote}]
        BY <1>2 DEF LoadFrom, QueryAllAnnotations, TypeOK
    <2>2. ~ saving' /\ notesToSave' = {}
        BY <1>2 DEF LoadFrom, Edit, loops, SavedInv
    <2> QED BY <1>2, <2>1, <2>2, ReplacedSaved DEF LoadFrom
<1>3. CASE Restart
    <2>1. annotations' \in [Addr -> Note \cup {NoNote}]
        BY <1>3, UnsetType DEF Restart
    <2>2. since' = [a \in Addr |-> since[a] \cup {annotations'[a]}]
        BY <1>3 DEF Restart, Unset
    <2> QED BY <1>3, <2>1, <2>2, ReplacedSaved DEF Restart
<1>4. CASE SaveTo
    BY <1>4 DEF SaveTo, SavedInv, SavedIsRestorable, xrefManager, stored
<1>5. ASSUME NEW a \in Addr, SaveNote(a) PROVE SavedInv'
    <2>1. /\ saving /\ a \in notesToSave /\ notesToSave' = notesToSave \ {a}
          /\ UNCHANGED <<annotations, all, storedXrefs, xrefsToSave, saving, restorable, since>>
        BY <1>5 DEF SaveNote, xrefManager
    <2>2. annotations[a] # NoNote /\ annotations[a] \in since[a]
        BY <2>1 DEF SavedInv
    <2>3. CASE storedNotes' = [storedNotes EXCEPT ![a] = annotations[a]] /\ UNCHANGED refused
        <3>1. \A b \in Addr : storedNotes'[b] = IF b = a THEN annotations[a] ELSE storedNotes[b]
            BY <2>3 DEF TypeOK
        <3>2. SavedIsRestorable'
            BY <2>1, <2>2, <3>1 DEF SavedInv, SavedIsRestorable
        <3> QED BY <2>1, <2>3, <3>1, <3>2 DEF SavedInv
    <2>4. CASE refused' = TRUE /\ UNCHANGED storedNotes
        BY <2>1, <2>4 DEF SavedInv, SavedIsRestorable
    <2> QED BY <1>5, <2>3, <2>4 DEF SaveNote
<1>6. ASSUME NEW x \in Xref, SaveXref(x) PROVE SavedInv'
    <2>1. /\ xrefsToSave' = xrefsToSave \ {x}
          /\ \/ storedXrefs' = storedXrefs \cup {x} /\ UNCHANGED refused
             \/ refused' = TRUE /\ UNCHANGED storedXrefs
          /\ UNCHANGED <<annotations, all, storedNotes, notesToSave, saving, restorable, since>>
        BY <1>6 DEF SaveXref, xrefManager
    <2> QED BY <2>1 DEF SavedInv, SavedIsRestorable
<1>7. CASE Saved
    <2>1. /\ saving /\ notesToSave = {} /\ xrefsToSave = {} /\ saving' = FALSE
          /\ UNCHANGED <<annotations, all, storedNotes, storedXrefs, notesToSave, xrefsToSave, refused>>
        BY <1>7 DEF Saved, xrefManager, stored
    <2>2. CASE refused
        BY <1>7, <2>1, <2>2 DEF Saved, SavedInv, SavedIsRestorable
    <2>3. CASE ~ refused
        <3>1. /\ restorable'.notes = annotations /\ restorable'.xrefs = all
              /\ since' = [a \in Addr |-> {annotations[a]}]
            BY <1>7, <2>3 DEF Saved
        <3>2. /\ \A a \in Addr : annotations[a] # NoNote => storedNotes[a] = annotations[a]
              /\ all \subseteq storedXrefs
            BY <2>1, <2>3 DEF SavedInv
        <3>3. SavedIsRestorable'
            BY <2>1, <3>1, <3>2 DEF SavedIsRestorable
        <3>4. since' \in [Addr -> SUBSET (Note \cup {NoNote})]
            BY <3>1 DEF TypeOK
        <3> QED BY <2>1, <3>1, <3>3, <3>4 DEF SavedInv
    <2> QED BY <2>2, <2>3
<1>8. CASE UNCHANGED vars
    BY <1>8 DEF vars, xrefManager, stored, loops, SavedInv, SavedIsRestorable
<1>9. ASSUME NEW a \in Addr,
             \/ \E text \in Texts : SetName(a, text) \/ SetComment(a, text)
             \/ Remove(a)
      PROVE  SavedInv'
    BY <1>9, EditNotes, AnnotateSaved
<1> QED BY <1>1, <1>2, <1>3, <1>4, <1>5, <1>6, <1>7, <1>8, <1>9 DEF Next

\* Whatever is edited, refused or cut short after a SaveTo that had no statement
\* refused, the tables have of each record what the memory had then or has had since.
THEOREM SavedIsRestorableHolds == Spec => []SavedIsRestorable
<1>1. Spec => []IndexInv
    BY IndexInitially, IndexStep, PTL DEF Spec
<1>2. IndexInv => TypeOK
    BY DEF IndexInv
<1>3. SavedInv => SavedIsRestorable
    BY DEF SavedInv
<1> QED BY <1>1, <1>2, <1>3, SavedInitially, SavedStep, PTL DEF Spec
=============================================================================
