------------------------- MODULE FirmwareUrls_proof -------------------------
(***************************************************************************)
(* Proofs about FirmwareUrls, for firmware lists of every length: the      *)
(* second pass stays inside the array the first one sized, the array is    *)
(* the selection of the listing, and repeated builds are marked.           *)
(***************************************************************************)
EXTENDS FirmwareUrls, FiniteSetTheorems, TLAPS

Written == [url : Urls, version : Versions, buildID : BuildIDs, isDupulicate : BOOLEAN]

(* The positions up to n the two passes select.                            *)
SelectedUpTo(n) == {k \in 1 .. n : Selected(firmwares[k])}

(* Both passes count the same set: retcounter in the first, the length of  *)
(* rets in the second.                                                     *)
Counting ==
  /\ pass = "count" => retcounter = Cardinality(SelectedUpTo(i - 1)) /\ rets = <<>>
  /\ pass = "fill" => /\ retcounter = Cardinality(SelectedUpTo(Len(firmwares)))
                      /\ retcounter > 0
                      /\ Len(rets) = Cardinality(SelectedUpTo(i - 1))
  /\ pass = "done" => Len(rets) = retcounter /\ retcounter > 0
  /\ pass = "null" => rets = <<>>

Inv == TypeOK /\ Counting /\ MarksRepeats

---------------------------------------------------------------------------
(* One more position adds one to the count exactly when it is selected.    *)
LEMMA SelectedFinite ==
  ASSUME NEW n \in Nat
  PROVE  IsFiniteSet(SelectedUpTo(n)) /\ Cardinality(SelectedUpTo(n)) \in Nat
<1>1. IsFiniteSet(1 .. n)
  BY FS_Interval
<1>2. SelectedUpTo(n) \subseteq 1 .. n
  BY DEF SelectedUpTo
<1> QED
  BY <1>1, <1>2, FS_Subset, FS_CardinalityType

LEMMA SelectedStep ==
  ASSUME NEW n \in Nat \ {0}
  PROVE  Cardinality(SelectedUpTo(n)) =
           Cardinality(SelectedUpTo(n - 1)) + (IF Selected(firmwares[n]) THEN 1 ELSE 0)
<1>1. IsFiniteSet(SelectedUpTo(n - 1)) /\ Cardinality(SelectedUpTo(n - 1)) \in Nat
  BY SelectedFinite
<1>2. n \notin SelectedUpTo(n - 1)
  BY DEF SelectedUpTo
<1>3. CASE Selected(firmwares[n])
  <2>1. SelectedUpTo(n) = SelectedUpTo(n - 1) \cup {n}
    BY <1>3 DEF SelectedUpTo
  <2> QED
    BY <1>1, <1>2, <1>3, <2>1, FS_AddElement
<1>4. CASE ~Selected(firmwares[n])
  <2>1. SelectedUpTo(n) = SelectedUpTo(n - 1)
    BY <1>4 DEF SelectedUpTo
  <2> QED
    BY <1>1, <1>4, <2>1
<1> QED
  BY <1>3, <1>4

(* A longer part of the list selects no fewer entries.                     *)
LEMMA SelectedMonotone ==
  ASSUME NEW m \in Nat, NEW n \in Nat, m <= n
  PROVE  Cardinality(SelectedUpTo(m)) <= Cardinality(SelectedUpTo(n))
<1>1. SelectedUpTo(m) \subseteq SelectedUpTo(n)
  BY DEF SelectedUpTo
<1> QED
  BY <1>1, SelectedFinite, FS_Subset

LEMMA InitInv == Init => Inv
<1> SUFFICES ASSUME Init PROVE Inv
  OBVIOUS
<1>1. TypeOK
  <2>1. Len(firmwares) \in Nat
    BY UrlsAssumption DEF Init
  <2>2. versstring \in BuildIDs \cup Versions
    BY DEF Init
  <2>3. rets \in Seq(Written)
    BY DEF Init
  <2>4. /\ found \in BOOLEAN /\ isOta \in BOOLEAN /\ useBeta \in BOOLEAN
        /\ i \in 1 .. Len(firmwares) + 1 /\ retcounter \in Nat
    BY <2>1 DEF Init
  <2>5. /\ firmwares \in FirmwareLists
        /\ buildID \in BuildIDs \cup {NoName} /\ version \in Versions \cup {NoName}
        /\ pass \in {"count", "fill", "done", "null"}
    BY DEF Init
  <2> QED
    BY <2>2, <2>3, <2>4, <2>5 DEF TypeOK, Written
<1>2. SelectedUpTo(i - 1) = {}
  BY DEF Init, SelectedUpTo
<1>3. Cardinality(SelectedUpTo(i - 1)) = 0
  BY <1>2, FS_EmptySet
<1>4. Counting
  BY <1>3 DEF Init, Counting
<1> QED
  BY <1>1, <1>4 DEF Init, Inv, MarksRepeats

---------------------------------------------------------------------------
(* The selection does not change during the call.                          *)
LEMMA SelectionFixed ==
  ASSUME UNCHANGED query, NEW n
  PROVE  SelectedUpTo(n)' = SelectedUpTo(n)
BY DEF query, SelectedUpTo, Selected, Matches, PassesReleaseType

(* Writing entry e keeps the marks right.                                  *)
LEMMA FillMarks ==
  ASSUME TypeOK, MarksRepeats, NEW e \in Entries,
         rets' = Append(rets, [url |-> e.url, version |-> e.version, buildID |-> e.buildID,
                               isDupulicate |-> IsDuplicate(e.buildID)])
  PROVE  /\ rets' \in Seq(Written)
         /\ Len(rets') = Len(rets) + 1
         /\ MarksRepeats'
<1> DEFINE new == [url |-> e.url, version |-> e.version, buildID |-> e.buildID,
                   isDupulicate |-> IsDuplicate(e.buildID)]
<1>0. rets \in Seq(Written) /\ Len(rets) \in Nat
  BY DEF TypeOK, Written
<1>1. new \in Written
  BY DEF Entries, Written, IsDuplicate
<1>2. /\ rets' \in Seq(Written)
      /\ Len(rets') = Len(rets) + 1
      /\ \A k \in 1 .. Len(rets) : rets'[k] = rets[k]
      /\ rets'[Len(rets) + 1] = new
  <2> HIDE DEF new
  <2> QED
    BY <1>0, <1>1 DEF new
<1>3. MarksRepeats'
  <2> SUFFICES ASSUME NEW j \in 1 .. Len(rets')
               PROVE  LET earlier == {rets'[k].buildID : k \in 1 .. j - 1} IN
                      /\ rets'[j].buildID \in earlier => rets'[j].isDupulicate
                      /\ rets'[j].isDupulicate =>
                           \E b \in earlier : IsPrefix(rets'[j].buildID, b)
    BY DEF MarksRepeats
  <2>1. {rets'[k].buildID : k \in 1 .. j - 1} = {rets[k].buildID : k \in 1 .. j - 1}
    BY <1>0, <1>2
  <2>2. CASE j <= Len(rets)
    BY <1>0, <1>2, <2>1, <2>2 DEF MarksRepeats
  <2>3. CASE j = Len(rets) + 1
    <3>1. rets'[j].buildID = e.buildID /\ rets'[j].isDupulicate = IsDuplicate(e.buildID)
      BY <1>2, <2>3
    <3>2. e.buildID \in BuildIDs /\ e.buildID \in Seq(STRING)
      BY UrlsAssumption DEF Entries
    <3>3. IsPrefix(e.buildID, e.buildID)
      BY <3>2 DEF IsPrefix
    <3>4. IsDuplicate(e.buildID) <=>
            \E b \in {rets[k].buildID : k \in 1 .. j - 1} : IsPrefix(e.buildID, b)
      BY <1>0, <2>3 DEF IsDuplicate
    <3> QED
      BY <2>1, <3>1, <3>3, <3>4
  <2> QED
    BY <1>0, <1>2, <2>2, <2>3
<1> QED
  BY <1>2, <1>3

LEMMA NextInv == Inv /\ [Next]_vars => Inv'
<1> SUFFICES ASSUME Inv, [Next]_vars PROVE Inv'
  OBVIOUS
<1>0. /\ Len(firmwares) \in Nat
      /\ i \in 1 .. Len(firmwares) + 1
      /\ i <= Len(firmwares) => firmwares[i] \in Entries
      /\ Len(rets) \in Nat
  <2>1. firmwares \in Seq(Entries)
    BY UrlsAssumption DEF Inv, TypeOK
  <2> QED
    BY <2>1 DEF Inv, TypeOK
<1>1. CASE DeviceUnknown
  <2> USE <1>1 DEF DeviceUnknown, query, Inv
  <2>1. TypeOK'
    BY DEF TypeOK
  <2>2. Counting'
    BY DEF Counting
  <2>3. MarksRepeats'
    BY DEF MarksRepeats
  <2> QED
    BY <2>1, <2>2, <2>3
<1>2. CASE PassOver
  <2> USE <1>2 DEF PassOver, Scanning
  <2>1. TypeOK'
    BY <1>0 DEF query, Inv, TypeOK
  <2>2. UNCHANGED query /\ ~Selected(firmwares[i]) /\ i' = i + 1 /\ i \in Nat \ {0}
    BY <1>0
  <2>3. SelectedUpTo(i - 1)' = SelectedUpTo(i)
    BY <2>2 DEF SelectedUpTo, Selected, Matches, PassesReleaseType, query
  <2>4. Cardinality(SelectedUpTo(i)) = Cardinality(SelectedUpTo(i - 1))
    BY <2>2, SelectedStep, SelectedFinite
  <2>5. SelectedUpTo(Len(firmwares))' = SelectedUpTo(Len(firmwares))
    BY <2>2, SelectionFixed DEF query
  <2>6. Counting'
    BY <2>3, <2>4, <2>5 DEF Inv, Counting
  <2>7. MarksRepeats'
    BY DEF Inv, MarksRepeats
  <2> QED
    BY <2>1, <2>6, <2>7 DEF Inv
<1>3. CASE Count
  <2> USE <1>3 DEF Count, Scanning
  <2>1. firmwares[i].version \in Versions /\ firmwares[i] \in Entries
    BY <1>0 DEF Entries
  <2>2. version' \in Versions \cup {NoName}
    BY <2>1 DEF Label, Inv, TypeOK
  <2>3. TypeOK'
    BY <1>0, <2>2 DEF query, Inv, TypeOK
  <2>4. UNCHANGED query /\ Selected(firmwares[i]) /\ i' = i + 1 /\ i \in Nat \ {0}
    BY <1>0
  <2>5. SelectedUpTo(i - 1)' = SelectedUpTo(i)
    BY <2>4 DEF SelectedUpTo, Selected, Matches, PassesReleaseType, query
  <2>6. Cardinality(SelectedUpTo(i)) = Cardinality(SelectedUpTo(i - 1)) + 1
    BY <2>4, SelectedStep, SelectedFinite
  <2>7. Counting'
    BY <2>5, <2>6 DEF Inv, Counting
  <2>8. MarksRepeats'
    BY DEF Inv, MarksRepeats
  <2> QED
    BY <2>3, <2>7, <2>8 DEF Inv
<1>4. CASE Fill
  <2> USE <1>4 DEF Fill, Scanning
  <2>1. firmwares[i] \in Entries /\ firmwares[i].version \in Versions
    BY <1>0 DEF Entries
  <2>2. version' \in Versions \cup {NoName}
    BY <2>1 DEF Label, Inv, TypeOK
  <2>3. /\ rets' \in Seq(Written)
        /\ Len(rets') = Len(rets) + 1
        /\ MarksRepeats'
    BY <2>1, FillMarks DEF Inv
  <2>4. UNCHANGED query /\ Selected(firmwares[i]) /\ i' = i + 1 /\ i \in Nat \ {0}
    BY <1>0
  <2>5. UNCHANGED <<pass, retcounter>> /\ pass = "fill" /\ i' \in 1 .. Len(firmwares) + 1
    BY <1>0
  <2>6. TypeOK'
    BY <2>2, <2>3, <2>4, <2>5 DEF query, Inv, TypeOK, Written
  <2>7. SelectedUpTo(i - 1)' = SelectedUpTo(i)
    BY <2>4 DEF SelectedUpTo, Selected, Matches, PassesReleaseType, query
  <2>8. Cardinality(SelectedUpTo(i)) = Cardinality(SelectedUpTo(i - 1)) + 1
    BY <2>4, SelectedStep, SelectedFinite
  <2>9. SelectedUpTo(Len(firmwares))' = SelectedUpTo(Len(firmwares))
    BY <2>4, SelectionFixed DEF query
  <2>10. Counting'
    BY <2>3, <2>5, <2>7, <2>8, <2>9 DEF Inv, Counting
  <2> QED
    BY <2>3, <2>6, <2>10 DEF Inv
<1>5. CASE StartFill
  <2> USE <1>5 DEF StartFill, query
  <2>1. TypeOK'
    BY <1>0 DEF Inv, TypeOK
  <2>2. i - 1 = Len(firmwares)
    BY <1>0
  <2>3. SelectedUpTo(i - 1)' = {}
    BY DEF SelectedUpTo
  <2>4. SelectedUpTo(Len(firmwares))' = SelectedUpTo(Len(firmwares))
    BY SelectionFixed DEF query
  <2>5. Counting'
    BY <2>2, <2>3, <2>4, FS_EmptySet DEF Inv, Counting, TypeOK
  <2>6. MarksRepeats'
    BY DEF Inv, MarksRepeats
  <2> QED
    BY <2>1, <2>5, <2>6 DEF Inv
<1>6. CASE NothingFound
  <2> USE <1>6 DEF NothingFound, query
  <2>1. TypeOK'
    BY DEF Inv, TypeOK
  <2>2. Counting'
    BY DEF Inv, Counting
  <2>3. MarksRepeats'
    BY DEF Inv, MarksRepeats
  <2> QED
    BY <2>1, <2>2, <2>3 DEF Inv
<1>7. CASE Return
  <2> USE <1>7 DEF Return, query
  <2>1. TypeOK'
    BY DEF Inv, TypeOK
  <2>2. i - 1 = Len(firmwares)
    BY <1>0
  <2>3. Counting'
    BY <2>2 DEF Inv, Counting
  <2>4. MarksRepeats'
    BY DEF Inv, MarksRepeats
  <2> QED
    BY <2>1, <2>3, <2>4 DEF Inv
<1>8. CASE UNCHANGED vars
  <2> USE <1>8 DEF vars, Inv
  <2>1. TypeOK'
    BY DEF TypeOK
  <2>2. UNCHANGED query /\ UNCHANGED i
    BY DEF query
  <2>3. /\ SelectedUpTo(i - 1)' = SelectedUpTo(i - 1)
        /\ SelectedUpTo(Len(firmwares))' = SelectedUpTo(Len(firmwares))
    BY <2>2 DEF SelectedUpTo, Selected, Matches, PassesReleaseType, query
  <2>4. Counting'
    BY <2>3 DEF Counting
  <2>5. MarksRepeats'
    BY DEF MarksRepeats
  <2> QED
    BY <2>1, <2>4, <2>5
<1> QED
  BY <1>1, <1>2, <1>3, <1>4, <1>5, <1>6, <1>7, <1>8 DEF Next

---------------------------------------------------------------------------
(* Where the second pass writes: position k, if selected, fills the slot   *)
(* numbered by the selected positions up to it.                            *)
Slot(k) == Cardinality(SelectedUpTo(k))

Placed ==
  /\ pass \in {"fill", "done"} =>
       \A k \in SelectedUpTo(i - 1) :
         Slot(k) \in 1 .. Len(rets) /\ rets[Slot(k)].url = firmwares[k].url
  /\ pass = "done" => /\ i = Len(firmwares) + 1
                      /\ retcounter = Cardinality(SelectedUpTo(Len(firmwares)))
  /\ pass = "null" => ~found \/ SelectedUpTo(Len(firmwares)) = {}

LEMMA SlotsFixed ==
  ASSUME UNCHANGED query, NEW k
  PROVE  Slot(k)' = Slot(k) /\ SelectedUpTo(k)' = SelectedUpTo(k) /\ firmwares' = firmwares
BY SelectionFixed DEF Slot, query

LEMMA PlacedInit == Init => Placed
<1> SUFFICES ASSUME Init PROVE Placed
  OBVIOUS
<1> QED
  BY DEF Init, Placed

LEMMA PlacedNext == Inv /\ Placed /\ [Next]_vars => Placed'
<1> SUFFICES ASSUME Inv, Placed, [Next]_vars PROVE Placed'
  OBVIOUS
<1>0. /\ Len(firmwares) \in Nat
      /\ i \in 1 .. Len(firmwares) + 1
      /\ rets \in Seq(Written) /\ Len(rets) \in Nat
      /\ firmwares \in Seq(Entries)
  BY UrlsAssumption DEF Inv, TypeOK, Written
<1>1. UNCHANGED query
  BY DEF Next, DeviceUnknown, PassOver, Count, Fill, StartFill, NothingFound, Return,
         vars, query
<1>2. CASE DeviceUnknown
  BY <1>1, <1>2 DEF DeviceUnknown, Placed, query
<1>3. CASE PassOver
  <2> USE <1>3 DEF PassOver, Scanning
  <2>1. pass' = pass /\ i' = i + 1 /\ pass \in {"count", "fill"} /\ rets' = rets
    OBVIOUS
  <2>2. SelectedUpTo(i - 1)' = SelectedUpTo(i - 1)
    BY <1>0, <1>1, <2>1 DEF SelectedUpTo, Selected, Matches, PassesReleaseType, query
  <2> QED
    BY <1>1, <2>1, <2>2, SlotsFixed DEF Placed
<1>4. CASE Count
  BY <1>4 DEF Count, Placed
<1>5. CASE Fill
  <2> DEFINE e == firmwares[i]
             new == [url |-> e.url, version |-> e.version, buildID |-> e.buildID,
                     isDupulicate |-> IsDuplicate(e.buildID)]
  <2> USE <1>5 DEF Fill, Scanning
  <2>1. /\ pass = "fill" /\ pass' = "fill" /\ i' = i + 1 /\ i <= Len(firmwares)
        /\ Selected(firmwares[i]) /\ rets' = Append(rets, new)
    OBVIOUS
  <2>2. new.url = firmwares[i].url
    OBVIOUS
  <2> HIDE DEF new
  <2>3. /\ Len(rets') = Len(rets) + 1 /\ rets'[Len(rets) + 1] = new
        /\ \A k \in 1 .. Len(rets) : rets'[k] = rets[k]
    BY <1>0, <2>1
  <2>4. Len(rets) = Cardinality(SelectedUpTo(i - 1))
    BY <2>1 DEF Inv, Counting
  <2>5. Slot(i) = Len(rets) + 1
    <3>1. i \in Nat \ {0}
      BY <1>0
    <3> QED
      BY <2>1, <2>4, <3>1, SelectedStep DEF Slot
  <2>6. \A k \in SelectedUpTo(i) : k = i \/ k \in SelectedUpTo(i - 1)
    BY <1>0 DEF SelectedUpTo
  <2>7. SelectedUpTo(i - 1)' = SelectedUpTo(i)
    BY <1>0, <1>1, <2>1 DEF SelectedUpTo, Selected, Matches, PassesReleaseType, query
  <2>8. \A k \in SelectedUpTo(i) :
          Slot(k) \in 1 .. Len(rets') /\ rets'[Slot(k)].url = firmwares[k].url
    BY <1>0, <2>1, <2>2, <2>3, <2>5, <2>6 DEF Placed
  <2> QED
    BY <1>1, <2>1, <2>7, <2>8, SlotsFixed DEF Placed
<1>6. CASE StartFill
  <2>1. pass' = "fill" /\ i' = 1
    BY <1>6 DEF StartFill
  <2>2. SelectedUpTo(i - 1)' = {}
    BY <2>1 DEF SelectedUpTo
  <2> QED
    BY <2>1, <2>2 DEF Placed
<1>7. CASE NothingFound
  <2>1. /\ pass' = "null" /\ retcounter = 0 /\ i - 1 = Len(firmwares)
        /\ retcounter = Cardinality(SelectedUpTo(i - 1))
    BY <1>0, <1>7 DEF NothingFound, Inv, Counting
  <2>2. SelectedUpTo(Len(firmwares)) = {}
    BY <1>0, <2>1, SelectedFinite, FS_EmptySet
  <2> QED
    BY <1>1, <2>1, <2>2, SlotsFixed DEF Placed
<1>8. CASE Return
  <2>1. pass = "fill" /\ pass' = "done" /\ i' = i /\ rets' = rets /\ i = Len(firmwares) + 1
    BY <1>0, <1>8 DEF Return
  <2>2. retcounter' = Cardinality(SelectedUpTo(Len(firmwares)))
    BY <1>8, <2>1 DEF Return, Inv, Counting
  <2>3. SelectedUpTo(i - 1)' = SelectedUpTo(i - 1)
    BY <1>1, <2>1 DEF SelectedUpTo, Selected, Matches, PassesReleaseType, query
  <2> QED
    BY <1>1, <2>1, <2>2, <2>3, SlotsFixed DEF Placed
<1>9. CASE UNCHANGED vars
  <2>1. UNCHANGED <<pass, i, rets, retcounter, found>>
    BY <1>9 DEF vars
  <2>2. SelectedUpTo(i - 1)' = SelectedUpTo(i - 1)
    BY <1>1, <2>1 DEF SelectedUpTo, Selected, Matches, PassesReleaseType, query
  <2> QED
    BY <1>1, <2>1, <2>2, SlotsFixed DEF Placed
<1> QED
  BY <1>2, <1>3, <1>4, <1>5, <1>6, <1>7, <1>8, <1>9 DEF Next

LEMMA PlacedSelects == Inv /\ Placed => ResultIsSelection
<1> SUFFICES ASSUME Inv, Placed PROVE ResultIsSelection
  OBVIOUS
<1> DEFINE wanted == {k \in DOMAIN firmwares : Selected(firmwares[k])}
           slot(k) == Cardinality({j \in wanted : j <= k})
<1>0. firmwares \in Seq(Entries) /\ Len(firmwares) \in Nat
  BY UrlsAssumption DEF Inv, TypeOK
<1>1. wanted = SelectedUpTo(Len(firmwares))
  BY <1>0 DEF SelectedUpTo
<1>2. ASSUME NEW k \in wanted PROVE slot(k) = Slot(k)
  <2>1. {j \in wanted : j <= k} = SelectedUpTo(k)
    BY <1>0 DEF SelectedUpTo
  <2> QED
    BY <2>1 DEF Slot
<1>3. pass = "done" => /\ Len(rets) = Cardinality(wanted)
                       /\ wanted # {}
                       /\ \A k \in wanted : rets[slot(k)].url = firmwares[k].url
  <2> SUFFICES ASSUME pass = "done"
               PROVE  /\ Len(rets) = Cardinality(wanted)
                      /\ wanted # {}
                      /\ \A k \in wanted : rets[slot(k)].url = firmwares[k].url
    OBVIOUS
  <2>1. /\ Len(rets) = retcounter /\ retcounter > 0 /\ i - 1 = Len(firmwares)
        /\ retcounter = Cardinality(SelectedUpTo(Len(firmwares)))
    BY <1>0 DEF Inv, Counting, Placed
  <2>2. wanted # {}
    <3>1. Cardinality(SelectedUpTo(Len(firmwares))) # 0
      BY <2>1
    <3> HIDE DEF wanted
    <3> QED
      BY <1>1, <3>1, FS_EmptySet
  <2>3. \A k \in wanted : rets[Slot(k)].url = firmwares[k].url
    BY <1>1, <2>1 DEF Placed
  <2> HIDE DEF wanted, slot
  <2> QED
    BY <1>1, <1>2, <2>1, <2>2, <2>3
<1>4. pass = "null" => ~found \/ wanted = {}
  BY <1>1 DEF Placed
<1> HIDE DEF wanted, slot
<1> QED
  BY <1>3, <1>4 DEF ResultIsSelection, wanted, slot

---------------------------------------------------------------------------
(* What counted positions say about the array: it never outgrows it.       *)
LEMMA InvFits == Inv => FitsAllocation
<1> SUFFICES ASSUME Inv PROVE FitsAllocation
  OBVIOUS
<1>1. Len(firmwares) \in Nat /\ i \in 1 .. Len(firmwares) + 1 /\ retcounter \in Nat
  BY UrlsAssumption DEF Inv, TypeOK
<1>2. CASE pass = "fill"
  <2>1. Cardinality(SelectedUpTo(i - 1)) <= Cardinality(SelectedUpTo(Len(firmwares)))
    BY <1>1, SelectedMonotone
  <2> QED
    BY <1>2, <2>1 DEF Inv, Counting, FitsAllocation
<1>3. CASE pass # "fill"
  BY <1>1, <1>3 DEF Inv, TypeOK, Counting, FitsAllocation
<1> QED
  BY <1>2, <1>3

(* Types are kept for firmware lists of every length: in particular the    *)
(* index of both passes stays inside the list.                             *)
THEOREM TypeCorrect == Spec => []TypeOK
<1>1. Inv => TypeOK
  BY DEF Inv
<1> QED
  BY <1>1, InitInv, NextInv, PTL DEF Spec

(* The second pass of getFirmwareUrls never writes past the slots the      *)
(* first one counted, and fills them all.                                  *)
THEOREM AllocationFits == Spec => []FitsAllocation
BY InvFits, InitInv, NextInv, PTL DEF Spec

(* Every build met again is marked, and only where some earlier name       *)
(* begins with it.                                                         *)
THEOREM RepeatsMarked == Spec => []MarksRepeats
<1>1. Inv => MarksRepeats
  BY DEF Inv
<1> QED
  BY <1>1, InitInv, NextInv, PTL DEF Spec

(* The array getFirmwareUrls returns is the selection of the listing, in   *)
(* its order and without gaps, and NULL stands for an empty one.           *)
THEOREM SelectionReturned == Spec => []ResultIsSelection
BY InitInv, PlacedInit, NextInv, PlacedNext, PlacedSelects, PTL DEF Spec

---------------------------------------------------------------------------
(* Both passes end.                                                        *)

StepsLeft ==
  CASE pass = "count" -> 2 * Len(firmwares) + 3 - i
    [] pass = "fill"  -> Len(firmwares) + 2 - i
    [] OTHER          -> 0

(* Each pass of getFirmwareUrls goes over the listing once.                *)
THEOREM StepsAreBounded == Spec => [](StepsLeft \in Nat) /\ [][StepsLeft' < StepsLeft]_vars
<1>0. Inv => Len(firmwares) \in Nat /\ i \in 1 .. Len(firmwares) + 1
  BY DEF Inv, TypeOK
<1>1. Inv => StepsLeft \in Nat
  BY <1>0 DEF StepsLeft
<1>2. Inv /\ [Next]_vars => [StepsLeft' < StepsLeft]_vars
  <2> SUFFICES ASSUME Inv, Next PROVE StepsLeft' < StepsLeft
    OBVIOUS
  <2>0. Len(firmwares) \in Nat /\ i \in 1 .. Len(firmwares) + 1
    BY <1>0
  <2>1. CASE PassOver \/ Count \/ Fill
    <3>1. /\ pass \in {"count", "fill"} /\ i <= Len(firmwares)
          /\ i' = i + 1 /\ pass' = pass /\ firmwares' = firmwares
      BY <2>1 DEF PassOver, Count, Fill, Scanning, query
    <3> QED
      BY <2>0, <3>1 DEF StepsLeft
  <2>2. CASE StartFill
    <3>1. /\ pass = "count" /\ i > Len(firmwares)
          /\ pass' = "fill" /\ i' = 1 /\ firmwares' = firmwares
      BY <2>2 DEF StartFill, query
    <3> QED
      BY <2>0, <3>1 DEF StepsLeft
  <2>3. CASE DeviceUnknown \/ NothingFound \/ Return
    <3>1. pass \in {"count", "fill"} /\ pass' \in {"null", "done"}
      BY <2>3 DEF DeviceUnknown, NothingFound, Return
    <3> QED
      BY <2>0, <3>1 DEF StepsLeft
  <2> QED
    BY <2>1, <2>2, <2>3 DEF Next
<1> QED
  BY <1>1, <1>2, InitInv, NextInv, PTL DEF Spec
=============================================================================
