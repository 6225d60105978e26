----------------------- MODULE FindingLifecycle_proofs -----------------------
(***************************************************************************)
(* Proofs about FindingLifecycle: rows, identities and triage history      *)
(* agree, and no decision, ticket or edit is lost.                         *)
(***************************************************************************)
EXTENDS FindingLifecycle, TLAPS

(***************************************************************************)
(* The inductive invariant                                                 *)
(***************************************************************************)

\* A key without an identity has the empty one.
IdentityRows == \A k \in Keys : ~identity[k].exists => identity[k] = NoIdentity

\* Only a scan that can replace a baseline has current rows.
CurrentRows ==
  \A s \in ScanIds, k \in Keys : finding[s][k].current =>
    finding[s][k].present /\ scan[s] \in {"completed", "partial"}

\* Scans are numbered in the order in which they are made.
Numbered ==
  \A s, t \in ScanIds : s < t /\ scan[t] # "absent" => scan[s] # "absent"

\* A row that is not there is linked to no identity.
AbsentRows ==
  \A s \in ScanIds, k \in Keys : ~finding[s][k].present => ~finding[s][k].linked

\* How the expiry of a decision may have changed since it was shown.
Aged == {<<e, e>> : e \in Expiry} \cup {<<"future", "passed">>}

\* The row that page or ticket request v is about is still there.
RowIsThere(v) ==
  /\ v.scan \in ScanIds /\ v.key \in Keys
  /\ finding[v.scan][v.key].present
  /\ v.linked = finding[v.scan][v.key].linked

\* A page with the revision of the identity shows what the identity says.
PageIsHonest(v) ==
  /\ v.revision <= identity[v.key].revision
  /\ v.revision = identity[v.key].revision =>
       /\ v.status = identity[v.key].status
       /\ v.ticket = identity[v.key].ticket
       /\ <<v.expires, identity[v.key].expires>> \in Aged

Pages ==
  \A u \in Users : shown[u].loaded =>
    RowIsThere(shown[u]) /\ (shown[u].linked => PageIsHonest(shown[u]))

Filings == \A q \in Requests : filing[q].step # "idle" => RowIsThere(filing[q])

\* While the default branch does not move, its rows are the linked ones.
DefaultRows ==
  \A s \in ScanIds, k \in Keys :
    /\ finding[s][k].linked => branchOf[s] = defaultBranch
    /\ finding[s][k].current /\ branchOf[s] = defaultBranch => finding[s][k].linked

Consistent ==
  /\ TypeOK /\ Numbered /\ IdentityRows /\ AbsentRows /\ CurrentRows
  /\ HistoryEndsAtStatus

RowsAgree == DefaultRows /\ OneCurrentRow /\ RowsFollowIdentity

Inductive == Consistent /\ Pages /\ Filings /\ (moves = 0 => RowsAgree)

(***************************************************************************)
(* What a step keeps of a row and of an identity                           *)
(***************************************************************************)

RowKept(f, g) == f.present => g.present /\ g.linked = f.linked

IdentityKept(i, j) ==
  i.exists =>
    /\ j.exists /\ i.revision <= j.revision
    /\ i.revision = j.revision =>
         i.status = j.status /\ i.ticket = j.ticket /\ <<i.expires, j.expires>> \in Aged

\* A step keeps all rows and all identities.
Kept ==
  /\ \A s \in ScanIds, k \in Keys : RowKept(finding[s][k], finding'[s][k])
  /\ \A k \in Keys : IdentityKept(identity[k], identity'[k])

LEMMA AgedIsTransitive ==
  ASSUME NEW a, NEW b, NEW c, <<a, b>> \in Aged, <<b, c>> \in Aged
  PROVE  <<a, c>> \in Aged
BY DEF Aged, Expiry

LEMMA AgedIsReflexive == \A e \in Expiry : <<e, e>> \in Aged
BY DEF Aged

\* What a page promises outlives a step that keeps the rows and identities.
LEMMA PageOutlives ==
  ASSUME TypeOK, TypeOK', Kept, NEW v, RowIsThere(v)
  PROVE  /\ v.scan \in ScanIds /\ v.key \in Keys
         /\ finding'[v.scan][v.key].present
         /\ v.linked = finding'[v.scan][v.key].linked
         /\ (v.linked /\ v.revision \in Nat /\ PageIsHonest(v)) =>
              /\ v.revision <= identity'[v.key].revision
              /\ v.revision = identity'[v.key].revision =>
                   /\ v.status = identity'[v.key].status
                   /\ v.ticket = identity'[v.key].ticket
                   /\ <<v.expires, identity'[v.key].expires>> \in Aged
<1>1. v.scan \in ScanIds /\ v.key \in Keys /\ finding[v.scan][v.key].present
      /\ v.linked = finding[v.scan][v.key].linked
  BY DEF RowIsThere
<1>2. RowKept(finding[v.scan][v.key], finding'[v.scan][v.key])
  BY <1>1 DEF Kept
<1>3. finding'[v.scan][v.key].present /\ v.linked = finding'[v.scan][v.key].linked
  BY <1>1, <1>2 DEF RowKept
<1>4. ASSUME v.linked, v.revision \in Nat, PageIsHonest(v)
      PROVE  /\ v.revision <= identity'[v.key].revision
             /\ v.revision = identity'[v.key].revision =>
                  /\ v.status = identity'[v.key].status
                  /\ v.ticket = identity'[v.key].ticket
                  /\ <<v.expires, identity'[v.key].expires>> \in Aged
  <2> DEFINE i == identity[v.key]
             j == identity'[v.key]
  <2>1. i.exists
    BY <1>1, <1>4 DEF TypeOK
  <2>2. IdentityKept(i, j)
    BY <1>1 DEF Kept
  <2>3. i.revision \in Nat /\ j.revision \in Nat
    BY <1>1 DEF TypeOK, Identity
  <2>4. i.revision <= j.revision /\
        (i.revision = j.revision =>
           i.status = j.status /\ i.ticket = j.ticket /\ <<i.expires, j.expires>> \in Aged)
    BY <2>1, <2>2 DEF IdentityKept
  <2>5. v.revision <= i.revision /\
        (v.revision = i.revision =>
           v.status = i.status /\ v.ticket = i.ticket /\ <<v.expires, i.expires>> \in Aged)
    BY <1>4 DEF PageIsHonest
  <2> HIDE DEF i, j
  <2>6. v.revision <= j.revision
    BY <1>4, <2>3, <2>4, <2>5
  <2>7. v.revision = j.revision => v.revision = i.revision /\ i.revision = j.revision
    BY <1>4, <2>3, <2>4, <2>5
  <2>8. v.revision = j.revision =>
          v.status = j.status /\ v.ticket = j.ticket /\ <<v.expires, j.expires>> \in Aged
    BY <2>4, <2>5, <2>7, AgedIsTransitive
  <2> QED BY <2>6, <2>8 DEF j
<1> QED BY <1>1, <1>3, <1>4

\* Pages and ticket requests of before a step that keeps rows and identities.
LEMMA PagesOutlive ==
  ASSUME TypeOK, TypeOK', Kept, Pages, shown' = shown
  PROVE  Pages'
<1> SUFFICES ASSUME NEW u \in Users, shown[u].loaded
             PROVE  RowIsThere(shown[u])' /\ (shown[u].linked => PageIsHonest(shown[u])')
  BY DEF Pages
<1>1. RowIsThere(shown[u]) /\ (shown[u].linked => PageIsHonest(shown[u]))
  BY DEF Pages
<1>2. shown[u].revision \in Nat
  BY DEF TypeOK, Shown
<1> QED BY <1>1, <1>2, PageOutlives DEF RowIsThere, PageIsHonest

LEMMA FilingsOutlive ==
  ASSUME TypeOK, TypeOK', Kept, Filings,
         \A q \in Requests : filing'[q].step # "idle" =>
           /\ filing[q].step # "idle" /\ filing'[q].scan = filing[q].scan
           /\ filing'[q].key = filing[q].key /\ filing'[q].linked = filing[q].linked
  PROVE  Filings'
<1> SUFFICES ASSUME NEW q \in Requests, filing'[q].step # "idle"
             PROVE  RowIsThere(filing[q])'
  BY DEF Filings
<1>1. RowIsThere(filing[q])
  BY DEF Filings
<1>2. /\ filing[q].scan \in ScanIds /\ filing[q].key \in Keys
      /\ finding'[filing[q].scan][filing[q].key].present
      /\ filing[q].linked = finding'[filing[q].scan][filing[q].key].linked
  BY <1>1, PageOutlives
<1> QED BY <1>2 DEF RowIsThere

(***************************************************************************)
(* What an import makes of an identity                                     *)
(***************************************************************************)

LEMMA ObservedHolds ==
  ASSUME TypeOK, IdentityRows, NEW k \in Keys
  PROVE  /\ Observed(k) \in Identity
         /\ Observed(k).exists /\ ~Observed(k).absent
         /\ IdentityKept(identity[k], Observed(k))
         /\ Observed(k).ticket = identity[k].ticket
         /\ Observed(k).status = IF SystemEvent(k) THEN "open" ELSE identity[k].status
<1> DEFINE old == identity[k]
           cleared == Reopens(k) \/ old.expires = "passed"
<1>1. old \in Identity /\ "open" \in Statuses /\ "none" \in Expiry
  BY FindingLifecycleAssumption DEF TypeOK, Expiry
<1>2. CASE ~old.exists
  <2>1. old = NoIdentity
    BY <1>2 DEF IdentityRows
  <2>2. Observed(k) = [NoIdentity EXCEPT !.exists = TRUE]
    BY <1>2 DEF Observed
  <2>3. NoIdentity \in Identity
    BY <1>1, <2>1
  <2> QED BY <1>2, <2>1, <2>2, <2>3 DEF NoIdentity, Identity, SystemEvent, IdentityKept
<1>3. CASE old.exists /\ cleared
  <2>1. Observed(k) = [old EXCEPT !.status = "open", !.expires = "none", !.absent = FALSE,
                                  !.revision = old.revision + 1]
    BY <1>3 DEF Observed
  <2>2. SystemEvent(k)
    BY <1>3 DEF SystemEvent
  <2> HIDE DEF cleared, old
  <2> old.revision \in Nat /\ old.revision + 1 \in Nat
    BY <1>1 DEF Identity
  <2>3. Observed(k) \in Identity /\ Observed(k).exists /\ ~Observed(k).absent
        /\ Observed(k).ticket = old.ticket /\ Observed(k).status = "open"
        /\ Observed(k).revision = old.revision + 1 /\ old.revision \in Nat
    BY <1>1, <1>3, <2>1 DEF Identity
  <2>4. IdentityKept(old, Observed(k))
    BY <2>3 DEF IdentityKept
  <2> QED BY <2>2, <2>3, <2>4 DEF old
<1>4. CASE old.exists /\ ~cleared
  <2>1. Observed(k) = [old EXCEPT !.absent = FALSE]
    BY <1>4 DEF Observed
  <2>2. ~SystemEvent(k)
    BY <1>4 DEF SystemEvent
  <2> HIDE DEF cleared, old
  <2>3. Observed(k) \in Identity /\ Observed(k).exists /\ ~Observed(k).absent
        /\ Observed(k).ticket = old.ticket /\ Observed(k).status = old.status
        /\ Observed(k).revision = old.revision /\ old.revision \in Nat
        /\ Observed(k).expires = old.expires /\ old.expires \in Expiry
    BY <1>1, <1>4, <2>1 DEF Identity
  <2>4. IdentityKept(old, Observed(k))
    BY <2>3, AgedIsReflexive DEF IdentityKept
  <2> QED BY <2>2, <2>3, <2>4 DEF old
<1> QED BY <1>2, <1>3, <1>4

\* An identity that does not change is kept.
LEMMA SameIsKept ==
  ASSUME NEW i \in Identity
  PROVE  IdentityKept(i, i)
BY AgedIsReflexive DEF Identity, IdentityKept

LEMMA AbsentHolds ==
  ASSUME TypeOK, NEW k \in Keys
  PROVE  /\ Absent(k) \in Identity
         /\ IdentityKept(identity[k], Absent(k))
         /\ Absent(k).exists = identity[k].exists
         /\ Absent(k).status = identity[k].status
         /\ Absent(k).ticket = identity[k].ticket
         /\ ~identity[k].exists => Absent(k) = identity[k]
<1> DEFINE old == identity[k]
<1>1. old \in Identity
  BY DEF TypeOK
<1>2. CASE old.exists /\ ~old.absent
  <2>1. Absent(k) = [old EXCEPT !.absent = TRUE, !.revision = old.revision + 1]
    BY <1>2 DEF Absent
  <2> HIDE DEF old
  <2> old.revision \in Nat /\ old.revision + 1 \in Nat
    BY <1>1 DEF Identity
  <2>2. Absent(k) \in Identity /\ Absent(k).exists = old.exists
        /\ Absent(k).status = old.status /\ Absent(k).ticket = old.ticket
        /\ Absent(k).revision = old.revision + 1 /\ old.revision \in Nat
    BY <1>1, <2>1 DEF Identity
  <2> QED BY <1>2, <2>2 DEF old, IdentityKept
<1>3. CASE ~(old.exists /\ ~old.absent)
  <2>1. Absent(k) = old
    BY <1>3 DEF Absent
  <2> QED BY <1>1, <2>1, SameIsKept
<1> QED BY <1>2, <1>3

\* The identities after an import, with the triage event it writes.
LEMMA IdentitiesHold ==
  ASSUME TypeOK, IdentityRows, HistoryEndsAtStatus, NEW s \in ScanIds, NEW b \in Branches,
         NEW health \in Health, NEW seen \in SUBSET Keys, NEW measured \in SUBSET Keys,
         Import(s, b, health, seen, measured), NEW k \in Keys
  PROVE  /\ identity'[k] \in Identity
         /\ IdentityKept(identity[k], identity'[k])
         /\ ~identity'[k].exists => identity'[k] = NoIdentity
         /\ identity'[k].ticket = identity[k].ticket
         /\ lastEvent'[k] = identity'[k].status
         /\ identity'[k].status # identity[k].status =>
              SystemEvent(k) /\ identity'[k].status = "open"
         /\ identity'[k].absent /\ ~identity[k].absent =>
              Reconciles(s, b, health) /\ k \notin seen
<1>1. identity[k] \in Identity /\ lastEvent[k] = identity[k].status
  BY DEF TypeOK, HistoryEndsAtStatus
<1>2. identity'[k] = Identities(s, b, health, seen, measured)[k]
      /\ lastEvent'[k] = IF Identifies(s, b, health) /\ k \in seen /\ SystemEvent(k)
                         THEN "open" ELSE lastEvent[k]
  BY DEF Import
<1>3. CASE Identifies(s, b, health) /\ k \in seen
  <2>1. identity'[k] = Observed(k)
    BY <1>2, <1>3 DEF Identities
  <2> QED BY <1>1, <1>2, <1>3, <2>1, ObservedHolds
<1>4. CASE ~(Identifies(s, b, health) /\ k \in seen)
           /\ Reconciles(s, b, health) /\ k \in measured \ seen
  <2>1. identity'[k] = Absent(k)
    BY <1>2, <1>4 DEF Identities
  <2> QED BY <1>1, <1>2, <1>4, <2>1, AbsentHolds DEF IdentityRows
<1>5. CASE ~(Identifies(s, b, health) /\ k \in seen)
           /\ ~(Reconciles(s, b, health) /\ k \in measured \ seen)
  <2>1. identity'[k] = identity[k]
    BY <1>2, <1>5 DEF Identities
  <2> QED BY <1>1, <1>2, <1>5, <2>1, SameIsKept DEF IdentityRows
<1> QED BY <1>3, <1>4, <1>5

(***************************************************************************)
(* What an import makes of the rows                                        *)
(***************************************************************************)

\* An import of scan s, under the name of its arguments.
ImportOf(s, b, health, seen, measured) ==
  /\ s \in ScanIds /\ b \in Branches /\ health \in Health
  /\ seen \in SUBSET Keys /\ measured \in SUBSET Keys
  /\ scan[s] \notin Health
  /\ (scan[s] = "running" /\ b = branchOf[s]) \/ NextScan(s)
  /\ Import(s, b, health, seen, measured)

\* Row f is of branch b and the import retires it.
Retired(t, k, s, b, health, seen, measured) ==
  /\ branchOf[t] = b /\ Baseline(s, b, health)
  /\ Superseded(finding[t][k], s, b, health, k, seen, measured)

LEMMA NewRows ==
  ASSUME TypeOK, IdentityRows, NEW s, NEW b, NEW health, NEW seen, NEW measured,
         ImportOf(s, b, health, seen, measured), NEW k \in Keys
  PROVE  /\ k \in seen =>
              /\ finding'[s][k] \in Finding
              /\ finding'[s][k].present
              /\ finding'[s][k].linked <=> Identifies(s, b, health)
              /\ finding'[s][k].current <=> Baseline(s, b, health)
              /\ finding'[s][k].linked =>
                   /\ finding'[s][k].status = identity'[k].status
                   /\ finding'[s][k].ticket = identity'[k].ticket
                   /\ identity'[k].exists /\ ~identity'[k].absent
         /\ k \notin seen => finding'[s][k] = finding[s][k]
         /\ ~finding[s][k].present
<1>1. s \in ScanIds /\ Import(s, b, health, seen, measured)
  BY DEF ImportOf
<1>2. ~finding[s][k].present
  BY <1>1 DEF ImportOf, TypeOK
<1>3. k \notin seen => finding'[s][k] = finding[s][k]
  BY <1>1 DEF Import
<1>4. ASSUME k \in seen
      PROVE  /\ finding'[s][k] \in Finding
             /\ finding'[s][k].present
             /\ finding'[s][k].linked <=> Identifies(s, b, health)
             /\ finding'[s][k].current <=> Baseline(s, b, health)
             /\ finding'[s][k].linked =>
                  /\ finding'[s][k].status = identity'[k].status
                  /\ finding'[s][k].ticket = identity'[k].ticket
                  /\ identity'[k].exists /\ ~identity'[k].absent
  <2> DEFINE i == identity'[k]
             linked == Identifies(s, b, health)
             current == Baseline(s, b, health)
  <2>1. i = Identities(s, b, health, seen, measured)[k]
    BY <1>1 DEF Import
  <2>2. finding'[s][k] = NewRow(k, linked, current, i)
    <3>1. finding'[s][k] =
            NewRow(k, linked, current, Identities(s, b, health, seen, measured)[k])
      BY <1>1, <1>4 DEF Import
    <3> QED BY <2>1, <3>1
  <2>3. linked => i = Observed(k)
    BY <1>4, <2>1 DEF Identities
  <2>4. linked \in BOOLEAN /\ current \in BOOLEAN
    BY DEF Identifies, Baseline
  <2> HIDE DEF linked, current, i
  <2>5. linked => i \in Identity /\ i.exists /\ ~i.absent
    BY <2>3, ObservedHolds
  <2>6. i \in Identity => i.status \in Statuses /\ i.ticket \in Tickets
    BY DEF Identity
  <2>7. "open" \in Statuses /\ None \in Tickets
    BY FindingLifecycleAssumption DEF Tickets
  <2>8. NewRow(k, linked, current, i) =
          [present |-> TRUE, current |-> current, linked |-> linked,
           status |-> IF linked THEN i.status ELSE "open",
           ticket |-> IF linked THEN i.ticket ELSE None]
    BY DEF NewRow
  <2>9. finding'[s][k] \in Finding
    BY <2>2, <2>4, <2>5, <2>6, <2>7, <2>8 DEF Finding
  <2>10. finding'[s][k].present /\ finding'[s][k].linked = linked
         /\ finding'[s][k].current = current
         /\ (linked => finding'[s][k].status = i.status /\ finding'[s][k].ticket = i.ticket)
    BY <2>2, <2>8
  <2> QED BY <2>5, <2>9, <2>10 DEF linked, current, i
<1> QED BY <1>2, <1>3, <1>4

LEMMA OldRows ==
  ASSUME TypeOK, NEW s, NEW b, NEW health, NEW seen, NEW measured,
         ImportOf(s, b, health, seen, measured),
         NEW t \in ScanIds, t # s, NEW k \in Keys
  PROVE  /\ finding'[t][k] \in Finding
         /\ finding'[t][k].present = finding[t][k].present
         /\ finding'[t][k].linked = finding[t][k].linked
         /\ finding'[t][k].status = finding[t][k].status
         /\ finding'[t][k].ticket = finding[t][k].ticket
         /\ finding'[t][k].current <=>
              (finding[t][k].current /\ ~Retired(t, k, s, b, health, seen, measured))
<1> DEFINE f == finding[t][k]
<1>1. f \in Finding
  BY DEF TypeOK
<1>2. s \in ScanIds /\ Import(s, b, health, seen, measured)
  BY DEF ImportOf
<1>3. CASE f.current /\ Retired(t, k, s, b, health, seen, measured)
  <2>1. finding'[t][k] = [f EXCEPT !.current = FALSE]
    BY <1>2, <1>3 DEF Import, Retired
  <2> QED BY <1>1, <1>3, <2>1 DEF Finding
<1>4. CASE ~(f.current /\ Retired(t, k, s, b, health, seen, measured))
  <2>1. finding'[t][k] = f
    BY <1>2, <1>4 DEF Import, Retired
  <2> QED BY <1>1, <1>4, <2>1 DEF Finding
<1> QED BY <1>3, <1>4

LEMMA ImportKeeps ==
  ASSUME TypeOK, IdentityRows, HistoryEndsAtStatus,
         NEW s, NEW b, NEW health, NEW seen, NEW measured,
         ImportOf(s, b, health, seen, measured)
  PROVE  Kept
<1>1. \A t \in ScanIds, k \in Keys : RowKept(finding[t][k], finding'[t][k])
  BY NewRows, OldRows DEF RowKept
<1>2. \A k \in Keys : IdentityKept(identity[k], identity'[k])
  BY IdentitiesHold DEF ImportOf
<1> QED BY <1>1, <1>2 DEF Kept

LEMMA ImportIsTyped ==
  ASSUME TypeOK, IdentityRows, HistoryEndsAtStatus,
         NEW s, NEW b, NEW health, NEW seen, NEW measured,
         ImportOf(s, b, health, seen, measured)
  PROVE  TypeOK'
<1> USE DEF ImportOf
<1>1. scan' \in [ScanIds -> {"absent", "running"} \cup Health]
      /\ branchOf' \in [ScanIds -> Branches]
  BY DEF TypeOK, Import
<1>2. \A t \in ScanIds, k \in Keys : finding'[t][k] \in Finding
  <2> SUFFICES ASSUME NEW t \in ScanIds, NEW k \in Keys PROVE finding'[t][k] \in Finding
    OBVIOUS
  <2>1. CASE t # s
    BY <2>1, OldRows
  <2>2. CASE t = s /\ k \in seen
    BY <2>2, NewRows
  <2>3. CASE t = s /\ k \notin seen
    <3>1. finding'[t][k] = finding[t][k]
      BY <2>3, NewRows
    <3> QED BY <3>1 DEF TypeOK
  <2> QED BY <2>1, <2>2, <2>3
<1>3. finding' \in [ScanIds -> [Keys -> Finding]]
  <2>1. finding' = [t \in ScanIds |-> [k \in Keys |-> finding'[t][k]]]
    BY DEF Import
  <2> QED BY <1>2, <2>1
<1>4. identity' \in [Keys -> Identity]
  <2>1. identity' = [k \in Keys |-> identity'[k]]
    BY DEF Import, Identities
  <2> QED BY <2>1, IdentitiesHold
<1>5. lastEvent' \in [Keys -> Statuses]
  <2>1. lastEvent' = [k \in Keys |-> lastEvent'[k]]
    BY DEF Import
  <2>2. \A k \in Keys : lastEvent'[k] \in Statuses
    BY IdentitiesHold DEF Identity
  <2> QED BY <2>1, <2>2
<1>6. \A t \in ScanIds, k \in Keys : finding'[t][k].present => scan'[t] \in Health
  <2> SUFFICES ASSUME NEW t \in ScanIds, NEW k \in Keys, finding'[t][k].present
               PROVE  scan'[t] \in Health
    OBVIOUS
  <2>1. CASE t # s
    <3>1. finding[t][k].present /\ scan'[t] = scan[t]
      BY <2>1, OldRows DEF Import, TypeOK
    <3> QED BY <3>1 DEF TypeOK
  <2>2. CASE t = s
    BY <2>2 DEF Import, TypeOK
  <2> QED BY <2>1, <2>2
<1>7. \A t \in ScanIds, k \in Keys : finding'[t][k].linked => identity'[k].exists
  <2> SUFFICES ASSUME NEW t \in ScanIds, NEW k \in Keys, finding'[t][k].linked
               PROVE  identity'[k].exists
    OBVIOUS
  <2>1. CASE t = s /\ k \in seen
    BY <2>1, NewRows
  <2>2. CASE ~(t = s /\ k \in seen)
    <3>1. finding[t][k].linked
      BY <2>2, OldRows, NewRows
    <3>2. identity[k].exists
      BY <3>1 DEF TypeOK
    <3> QED BY <3>2, ImportKeeps DEF Kept, IdentityKept
  <2> QED BY <2>1, <2>2
<1>8. UNCHANGED <<defaultBranch, archived, moves, shown, filing, issues>>
  BY DEF Import, projectVars, clientVars
<1> QED BY <1>1, <1>3, <1>4, <1>5, <1>6, <1>7, <1>8 DEF TypeOK

LEMMA ImportIsConsistent ==
  ASSUME Consistent, NEW s, NEW b, NEW health, NEW seen, NEW measured,
         ImportOf(s, b, health, seen, measured)
  PROVE  Consistent'
<1> USE DEF Consistent
<1>1. TypeOK'
  BY ImportIsTyped
<1>2. IdentityRows' /\ HistoryEndsAtStatus'
  BY IdentitiesHold DEF ImportOf, IdentityRows, HistoryEndsAtStatus
<1>3. CurrentRows'
  <2> SUFFICES ASSUME NEW t \in ScanIds, NEW k \in Keys, finding'[t][k].current
               PROVE  finding'[t][k].present /\ scan'[t] \in {"completed", "partial"}
    BY DEF CurrentRows
  <2>1. CASE t # s
    <3>1. finding[t][k].current /\ finding'[t][k].present = finding[t][k].present
          /\ scan'[t] = scan[t]
      BY <2>1, OldRows DEF ImportOf, Import, TypeOK
    <3> QED BY <3>1 DEF CurrentRows
  <2>2. CASE t = s /\ k \in seen
    <3>1. finding'[t][k].present /\ Baseline(s, b, health)
      BY <2>2, NewRows
    <3>2. scan'[t] = health /\ health \in {"completed", "partial"}
      BY <2>2, <3>1 DEF ImportOf, Import, TypeOK, Baseline, Health
    <3> QED BY <3>1, <3>2
  <2>3. CASE t = s /\ k \notin seen
    <3>1. finding[s][k].current /\ ~finding[s][k].present /\ s \in ScanIds
      BY <2>3, NewRows DEF ImportOf
    <3> QED BY <3>1 DEF CurrentRows
  <2> QED BY <2>1, <2>2, <2>3
<1>4. AbsentRows'
  <2> SUFFICES ASSUME NEW t \in ScanIds, NEW k \in Keys, ~finding'[t][k].present
               PROVE  ~finding'[t][k].linked
    BY DEF AbsentRows
  <2>1. CASE t # s
    BY <2>1, OldRows DEF AbsentRows
  <2>2. CASE t = s
    BY <2>2, NewRows DEF AbsentRows
  <2> QED BY <2>1, <2>2
<1>5. Numbered'
  <2>1. scan' = [scan EXCEPT ![s] = health] /\ health # "absent" /\ s \in ScanIds
    BY DEF ImportOf, Import, Health
  <2>2. \A t \in ScanIds : t < s => scan[t] # "absent"
    BY DEF ImportOf, NextScan, Numbered
  <2> QED BY <2>1, <2>2 DEF Numbered, TypeOK, ScanIds
<1> QED BY <1>1, <1>2, <1>3, <1>4, <1>5

\* The import of a scan on the default branch keeps rows and identities agreed.
LEMMA ImportKeepsDefaultRows ==
  ASSUME Consistent, DefaultRows, NEW s, NEW b, NEW health, NEW seen, NEW measured,
         ImportOf(s, b, health, seen, measured)
  PROVE  DefaultRows'
<1> SUFFICES ASSUME NEW t \in ScanIds, NEW k \in Keys
             PROVE  /\ finding'[t][k].linked => branchOf'[t] = defaultBranch'
                    /\ finding'[t][k].current /\ branchOf'[t] = defaultBranch'
                         => finding'[t][k].linked
  BY DEF DefaultRows
<1> USE DEF Consistent
<1>0. defaultBranch' = defaultBranch /\ branchOf'[s] = b
  BY DEF ImportOf, Import, projectVars, TypeOK
<1>1. CASE t # s
  <2>1. finding'[t][k].linked = finding[t][k].linked
        /\ (finding'[t][k].current => finding[t][k].current)
        /\ branchOf'[t] = branchOf[t]
    BY <1>1, OldRows DEF ImportOf, Import, TypeOK
  <2> QED BY <1>0, <2>1 DEF DefaultRows
<1>2. CASE t = s /\ k \in seen
  BY <1>0, <1>2, NewRows DEF Identifies
<1>3. CASE t = s /\ k \notin seen
  <2>1. finding'[t][k] = finding[t][k] /\ ~finding[t][k].present
    BY <1>3, NewRows
  <2>2. ~finding[t][k].current
    BY <2>1 DEF CurrentRows
  <2>3. ~finding[t][k].linked
    BY <2>1, <1>3 DEF AbsentRows
  <2> QED BY <2>1, <2>2, <2>3
<1> QED BY <1>1, <1>2, <1>3

\* A new current row retires the others of its branch.
LEMMA ImportKeepsOneCurrentRow ==
  ASSUME Consistent, DefaultRows, OneCurrentRow,
         NEW s, NEW b, NEW health, NEW seen, NEW measured,
         ImportOf(s, b, health, seen, measured)
  PROVE  OneCurrentRow'
<1> USE DEF Consistent
<1>0. branchOf'[s] = b /\ \A t \in ScanIds : t # s => branchOf'[t] = branchOf[t]
  BY DEF ImportOf, Import, TypeOK
<1>1. ASSUME NEW t \in ScanIds, NEW k \in Keys, t # s,
             finding'[s][k].current, finding'[t][k].current, branchOf[t] = b
      PROVE  FALSE
  <2>1. s \in ScanIds
    BY DEF ImportOf
  <2>2. k \in seen /\ Baseline(s, b, health)
    BY <1>1, <2>1, NewRows DEF CurrentRows
  <2>3. finding[t][k].current /\ ~Retired(t, k, s, b, health, seen, measured)
    BY <1>1, OldRows
  <2>4. Identifies(s, b, health) => finding[t][k].linked
    BY <1>1, <2>3 DEF DefaultRows, Identifies
  <2> QED BY <1>1, <2>2, <2>3, <2>4 DEF Retired, Superseded
<1> SUFFICES ASSUME NEW t \in ScanIds, NEW u \in ScanIds, NEW k \in Keys,
                    finding'[t][k].current, finding'[u][k].current,
                    branchOf'[t] = branchOf'[u], t # u
             PROVE  FALSE
  BY DEF OneCurrentRow
<1>2. CASE t = s
  BY <1>0, <1>1, <1>2
<1>3. CASE u = s
  BY <1>0, <1>1, <1>3
<1>4. CASE t # s /\ u # s
  <2>1. finding[t][k].current /\ finding[u][k].current /\ branchOf[t] = branchOf[u]
    BY <1>0, <1>4, OldRows
  <2> QED BY <2>1 DEF OneCurrentRow
<1> QED BY <1>2, <1>3, <1>4

LEMMA ImportKeepsRowsFollowing ==
  ASSUME Consistent, DefaultRows, RowsFollowIdentity,
         NEW s, NEW b, NEW health, NEW seen, NEW measured,
         ImportOf(s, b, health, seen, measured)
  PROVE  RowsFollowIdentity'
<1> USE DEF Consistent
<1> SUFFICES ASSUME NEW t \in ScanIds, NEW k \in Keys,
                    finding'[t][k].linked, finding'[t][k].current
             PROVE  /\ finding'[t][k].status = identity'[k].status
                    /\ finding'[t][k].ticket = identity'[k].ticket
                    /\ ~identity'[k].absent
  BY DEF RowsFollowIdentity
<1>1. CASE t = s
  <2>1. k \in seen
    <3>1. k \notin seen => finding[s][k].current /\ ~finding[s][k].present
      BY <1>1, NewRows
    <3> QED BY <1>1, <3>1 DEF CurrentRows
  <2> QED BY <1>1, <2>1, NewRows
<1>2. CASE t # s
  <2>1. /\ finding[t][k].linked /\ finding[t][k].current
        /\ ~Retired(t, k, s, b, health, seen, measured)
        /\ finding'[t][k].status = finding[t][k].status
        /\ finding'[t][k].ticket = finding[t][k].ticket
    BY <1>2, OldRows
  <2>2. branchOf[t] = defaultBranch
    BY <2>1 DEF DefaultRows
  <2>3. identity'[k] = identity[k]
    <3>1. ~(Identifies(s, b, health) /\ k \in seen)
      BY <2>1, <2>2 DEF Retired, Superseded, Identifies
    <3>2. ~(Reconciles(s, b, health) /\ k \in measured)
      BY <2>1, <2>2 DEF Retired, Superseded, Reconciles, Identifies
    <3> QED BY <3>1, <3>2 DEF ImportOf, Import, Identities
  <2> QED BY <2>1, <2>3 DEF RowsFollowIdentity
<1> QED BY <1>1, <1>2

LEMMA ImportHolds ==
  ASSUME Inductive, NEW s, NEW b, NEW health, NEW seen, NEW measured,
         ImportOf(s, b, health, seen, measured)
  PROVE  Inductive' /\ Kept
<1>1. Consistent' /\ Kept
  BY ImportIsConsistent, ImportKeeps DEF Inductive, Consistent
<1>2. UNCHANGED <<shown, filing, moves>>
  BY DEF ImportOf, Import, clientVars, projectVars
<1>3. Pages' /\ Filings'
  BY <1>1, <1>2, PagesOutlive, FilingsOutlive DEF Inductive, Consistent
<1>4. moves' = 0 => RowsAgree'
  BY <1>2, ImportKeepsDefaultRows, ImportKeepsOneCurrentRow, ImportKeepsRowsFollowing
     DEF Inductive, RowsAgree
<1> QED BY <1>1, <1>3, <1>4 DEF Inductive

(***************************************************************************)
(* Steps that change no scan                                               *)
(***************************************************************************)

\* A step that leaves the shape of rows and identities: it changes at most the
\* workflow of a finding.
Skeleton ==
  /\ scan' = scan /\ branchOf' = branchOf
  /\ \A t \in ScanIds, j \in Keys :
       /\ finding'[t][j].present = finding[t][j].present
       /\ finding'[t][j].linked = finding[t][j].linked
       /\ finding'[t][j].current = finding[t][j].current
  /\ \A j \in Keys :
       /\ identity'[j].exists = identity[j].exists
       /\ identity'[j].absent = identity[j].absent
       /\ IdentityKept(identity[j], identity'[j])
       /\ ~identity[j].exists => identity'[j] = identity[j]
       /\ lastEvent'[j] = identity'[j].status

LEMMA SkeletonHolds ==
  ASSUME Consistent, Skeleton,
         identity' \in [Keys -> Identity], lastEvent' \in [Keys -> Statuses],
         finding' \in [ScanIds -> [Keys -> Finding]],
         defaultBranch' \in Branches, archived' \in BOOLEAN, moves' \in 0 .. MaxMoves,
         shown' \in [Users -> Shown], filing' \in [Requests -> Filing],
         issues' \in 0 .. MaxIssues
  PROVE  /\ Consistent' /\ Kept
         /\ DefaultRows /\ defaultBranch' = defaultBranch => DefaultRows'
         /\ OneCurrentRow => OneCurrentRow'
<1> USE DEF Consistent, Skeleton
<1>1. TypeOK'
  BY ZenonT(30) DEF TypeOK
<1>2. Numbered' /\ IdentityRows' /\ AbsentRows' /\ CurrentRows' /\ HistoryEndsAtStatus'
  <2>0. Numbered'
    BY DEF Numbered
  <2>1. IdentityRows'
    BY DEF IdentityRows
  <2>2. AbsentRows'
    BY DEF AbsentRows
  <2>3. CurrentRows'
    BY DEF CurrentRows
  <2>4. HistoryEndsAtStatus'
    BY DEF HistoryEndsAtStatus
  <2> QED BY <2>0, <2>1, <2>2, <2>3, <2>4
<1>3. Kept
  BY DEF Kept, RowKept
<1>4. DefaultRows /\ defaultBranch' = defaultBranch => DefaultRows'
  BY DEF DefaultRows
<1>5. OneCurrentRow => OneCurrentRow'
  BY DEF OneCurrentRow
<1> QED BY <1>1, <1>2, <1>3, <1>4, <1>5

\* A step of the triager, the ticket requests or the project that changes
\* neither rows nor identities.
LEMMA StillConsistent ==
  ASSUME Consistent, UNCHANGED <<scanVars, finding, identity, lastEvent>>,
         defaultBranch' \in Branches, archived' \in BOOLEAN, moves' \in 0 .. MaxMoves,
         shown' \in [Users -> Shown], filing' \in [Requests -> Filing],
         issues' \in 0 .. MaxIssues
  PROVE  /\ Consistent' /\ Kept
         /\ RowsAgree /\ defaultBranch' = defaultBranch => RowsAgree'
<1>1. \A j \in Keys : IdentityKept(identity[j], identity'[j])
  BY SameIsKept DEF Consistent, TypeOK
<1>2. Skeleton
  BY <1>1 DEF Consistent, HistoryEndsAtStatus, Skeleton, scanVars
<1>3. identity' \in [Keys -> Identity] /\ lastEvent' \in [Keys -> Statuses]
      /\ finding' \in [ScanIds -> [Keys -> Finding]]
  BY DEF Consistent, TypeOK
<1>4. /\ Consistent' /\ Kept
      /\ DefaultRows /\ defaultBranch' = defaultBranch => DefaultRows'
      /\ OneCurrentRow => OneCurrentRow'
  BY <1>2, <1>3, SkeletonHolds
<1>5. RowsFollowIdentity => RowsFollowIdentity'
  BY DEF RowsFollowIdentity
<1> QED BY <1>4, <1>5 DEF RowsAgree

LEMMA RequestScanHolds ==
  ASSUME Inductive, NEW b \in Branches, RequestScan(b)
  PROVE  Inductive' /\ Kept
<1> USE DEF Inductive, Consistent
<1>1. PICK s \in ScanIds :
        /\ scan[s] = "absent" /\ \A t \in ScanIds : t < s => scan[t] # "absent"
        /\ scan' = [scan EXCEPT ![s] = "running"]
        /\ branchOf' = [branchOf EXCEPT ![s] = b]
        /\ UNCHANGED <<finding, identity, lastEvent, projectVars, clientVars>>
  BY DEF RequestScan, NextScan
<1>2. UNCHANGED <<defaultBranch, archived, moves, shown, filing, issues>>
  BY <1>1 DEF projectVars, clientVars
<1>3. \A k \in Keys :
        ~finding[s][k].present /\ ~finding[s][k].current /\ ~finding[s][k].linked
  BY <1>1 DEF TypeOK, Health, AbsentRows, CurrentRows
<1>4. \A t \in ScanIds : t # s => scan'[t] = scan[t] /\ branchOf'[t] = branchOf[t]
  BY <1>1 DEF TypeOK
<1>5. TypeOK'
  <2>1. scan' \in [ScanIds -> {"absent", "running"} \cup Health]
        /\ branchOf' \in [ScanIds -> Branches]
    BY <1>1 DEF TypeOK
  <2>2. \A t \in ScanIds, k \in Keys : finding[t][k].present => scan'[t] \in Health
    BY <1>3, <1>4 DEF TypeOK
  <2> QED BY <1>1, <1>2, <2>1, <2>2 DEF TypeOK
<1>6. Numbered' /\ IdentityRows' /\ AbsentRows' /\ CurrentRows' /\ HistoryEndsAtStatus'
  <2>1. Numbered'
    BY <1>1 DEF Numbered, TypeOK, ScanIds
  <2> QED BY <1>1, <1>3, <1>4, <2>1
          DEF IdentityRows, AbsentRows, CurrentRows, HistoryEndsAtStatus
<1>7. Kept
  BY <1>1, SameIsKept DEF Kept, RowKept, TypeOK
<1>8. Pages' /\ Filings'
  BY <1>2, <1>5, <1>7, PagesOutlive, FilingsOutlive
<1>9. RowsAgree => RowsAgree'
  <2>1. DefaultRows => DefaultRows'
    BY <1>1, <1>2, <1>3, <1>4 DEF DefaultRows
  <2>2. OneCurrentRow => OneCurrentRow'
    BY <1>1, <1>3, <1>4 DEF OneCurrentRow
  <2>3. RowsFollowIdentity => RowsFollowIdentity'
    BY <1>1 DEF RowsFollowIdentity
  <2> QED BY <2>1, <2>2, <2>3 DEF RowsAgree
<1> QED BY <1>2, <1>5, <1>6, <1>7, <1>8, <1>9

LEMMA LoadFindingHolds ==
  ASSUME Inductive, NEW u \in Users, NEW s \in ScanIds, NEW k \in Keys, LoadFinding(u, s, k)
  PROVE  Inductive' /\ Kept
<1> DEFINE v == Workflow(s, k)
           f == finding[s][k]
           i == identity[k]
<1>1. /\ f.present
      /\ shown' = [shown EXCEPT ![u] = v]
      /\ UNCHANGED <<scanVars, finding, identity, lastEvent, projectVars, filing, issues>>
  BY DEF LoadFinding
<1>2. f \in Finding /\ i \in Identity
  BY DEF Inductive, Consistent, TypeOK
<1>3. /\ v = [loaded |-> TRUE, scan |-> s, key |-> k, linked |-> f.linked,
              revision |-> IF f.linked THEN i.revision ELSE 0,
              status |-> IF f.linked THEN i.status ELSE f.status,
              expires |-> IF f.linked THEN i.expires ELSE "none",
              ticket |-> IF f.linked THEN i.ticket ELSE f.ticket]
  BY DEF Workflow
<1> HIDE DEF v, f, i
<1>4. v \in Shown
  <2>1. s \in 0 .. MaxScans
    BY FindingLifecycleAssumption DEF ScanIds
  <2> QED BY <1>2, <1>3, <2>1 DEF Finding, Identity, Shown, Expiry
<1>5. shown' \in [Users -> Shown]
  BY <1>1, <1>4 DEF Inductive, Consistent, TypeOK
<1>6. /\ Consistent' /\ Kept
      /\ RowsAgree => RowsAgree'
  BY <1>1, <1>5, StillConsistent DEF Inductive, Consistent, TypeOK, projectVars
<1>7. Filings'
  BY <1>1, <1>6, FilingsOutlive DEF Inductive, Consistent
<1>8. RowIsThere(v) /\ (v.linked => PageIsHonest(v))
  <2>1. RowIsThere(v)
    BY <1>1, <1>3 DEF RowIsThere, f
  <2>2. v.linked => PageIsHonest(v)
    BY <1>2, <1>3, AgedIsReflexive DEF PageIsHonest, i, Identity
  <2> QED BY <2>1, <2>2
<1>9. Pages'
  <2> SUFFICES ASSUME NEW w \in Users, shown'[w].loaded
               PROVE  RowIsThere(shown[w])' /\ (shown'[w].linked => PageIsHonest(shown[w])')
    BY DEF Pages
  <2>1. CASE w = u
    <3>1. shown'[w] = v
      BY <1>1, <2>1 DEF Inductive, Consistent, TypeOK
    <3> QED BY <1>1, <1>8, <3>1 DEF RowIsThere, PageIsHonest
  <2>2. CASE w # u
    <3>1. shown'[w] = shown[w]
      BY <1>1, <2>2 DEF Inductive, Consistent, TypeOK
    <3> QED BY <1>1, <3>1 DEF Inductive, Pages, RowIsThere, PageIsHonest
  <2> QED BY <2>1, <2>2
<1> QED BY <1>1, <1>6, <1>7, <1>9 DEF Inductive, projectVars

LEMMA PrepareTicketHolds ==
  ASSUME Inductive, NEW q \in Requests, NEW s \in ScanIds, NEW k \in Keys,
         PrepareTicket(q, s, k)
  PROVE  Inductive' /\ Kept
<1> DEFINE r == [step |-> "prepared", scan |-> s, key |-> k,
                 linked |-> finding[s][k].linked, issue |-> None]
<1>1. /\ finding[s][k].present
      /\ filing' = [filing EXCEPT ![q] = r]
      /\ UNCHANGED <<scanVars, finding, identity, lastEvent, projectVars, shown, issues>>
  BY DEF PrepareTicket
<1>2. r \in Filing
  <2>1. s \in 0 .. MaxScans /\ finding[s][k].linked \in BOOLEAN /\ None \in Tickets
    BY FindingLifecycleAssumption DEF ScanIds, Inductive, Consistent, TypeOK, Finding, Tickets
  <2> QED BY <2>1 DEF Filing
<1>3. /\ r.step = "prepared" /\ r.scan = s /\ r.key = k
      /\ r.linked = finding[s][k].linked
  OBVIOUS
<1> HIDE DEF r
<1>4. filing' \in [Requests -> Filing]
  BY <1>1, <1>2 DEF Inductive, Consistent, TypeOK
<1>5. /\ Consistent' /\ Kept
      /\ RowsAgree => RowsAgree'
  BY <1>1, <1>4, StillConsistent DEF Inductive, Consistent, TypeOK, projectVars
<1>6. Pages'
  BY <1>1, <1>5, PagesOutlive DEF Inductive, Consistent
<1>7. Filings'
  <2> SUFFICES ASSUME NEW p \in Requests, filing'[p].step # "idle"
               PROVE  RowIsThere(filing[p])'
    BY DEF Filings
  <2>1. CASE p = q
    <3>1. filing'[p] = r
      BY <1>1, <2>1 DEF Inductive, Consistent, TypeOK
    <3> QED BY <1>1, <1>3, <3>1 DEF RowIsThere
  <2>2. CASE p # q
    <3>1. filing'[p] = filing[p]
      BY <1>1, <2>2 DEF Inductive, Consistent, TypeOK
    <3> QED BY <1>1, <3>1 DEF Inductive, Filings, RowIsThere
  <2> QED BY <2>1, <2>2
<1> QED BY <1>1, <1>5, <1>6, <1>7 DEF Inductive, projectVars

LEMMA CreateIssueHolds ==
  ASSUME Inductive, NEW q \in Requests, CreateIssue(q)
  PROVE  Inductive' /\ Kept
<1>1. /\ filing[q].step = "prepared" /\ issues < MaxIssues /\ issues' = issues + 1
      /\ filing' = [filing EXCEPT ![q].step = "created", ![q].issue = issues + 1]
      /\ UNCHANGED <<scanVars, finding, identity, lastEvent, projectVars, shown>>
  BY DEF CreateIssue
<1>2. filing[q] \in Filing /\ issues \in 0 .. MaxIssues /\ MaxIssues \in Nat
  BY FindingLifecycleAssumption DEF Inductive, Consistent, TypeOK
<1>3. issues' \in 0 .. MaxIssues /\ issues + 1 \in Tickets
  BY <1>1, <1>2 DEF Tickets
<1>4. /\ filing'[q] \in Filing /\ filing'[q].scan = filing[q].scan
      /\ filing'[q].key = filing[q].key /\ filing'[q].linked = filing[q].linked
  BY <1>1, <1>2, <1>3 DEF Inductive, Consistent, TypeOK, Filing
<1>5. \A p \in Requests : p # q => filing'[p] = filing[p]
  BY <1>1 DEF Inductive, Consistent, TypeOK
<1>6. filing' \in [Requests -> Filing]
  <2>1. filing' = [p \in Requests |-> filing'[p]]
    BY <1>1 DEF Inductive, Consistent, TypeOK
  <2> QED BY <1>4, <1>5, <2>1 DEF Inductive, Consistent, TypeOK
<1>7. /\ Consistent' /\ Kept
      /\ RowsAgree => RowsAgree'
  BY <1>1, <1>3, <1>6, StillConsistent DEF Inductive, Consistent, TypeOK, projectVars
<1>8. Pages' /\ Filings'
  BY <1>1, <1>4, <1>5, <1>7, PagesOutlive, FilingsOutlive DEF Inductive, Consistent
<1> QED BY <1>1, <1>7, <1>8 DEF Inductive, projectVars

\* A request that is dropped is about no row.
LEMMA NotFilingIsTyped == NotFiling \in Filing
<1>1. None \in Tickets /\ 0 \in 0 .. MaxScans
  BY FindingLifecycleAssumption DEF Tickets
<1> QED BY <1>1 DEF NotFiling, Filing

LEMMA AbandonTicketHolds ==
  ASSUME Inductive, NEW q \in Requests, AbandonTicket(q)
  PROVE  Inductive' /\ Kept
<1>1. /\ filing' = [filing EXCEPT ![q] = NotFiling]
      /\ UNCHANGED <<scanVars, finding, identity, lastEvent, projectVars, shown, issues>>
  BY DEF AbandonTicket
<1>2. filing' \in [Requests -> Filing] /\ filing'[q] = NotFiling
      /\ \A p \in Requests : p # q => filing'[p] = filing[p]
  BY <1>1, NotFilingIsTyped DEF Inductive, Consistent, TypeOK
<1>3. /\ Consistent' /\ Kept
      /\ RowsAgree => RowsAgree'
  BY <1>1, <1>2, StillConsistent DEF Inductive, Consistent, TypeOK, projectVars
<1>4. NotFiling.step = "idle"
  BY DEF NotFiling
<1>5. Pages' /\ Filings'
  BY <1>1, <1>2, <1>3, <1>4, PagesOutlive, FilingsOutlive DEF Inductive, Consistent
<1> QED BY <1>1, <1>3, <1>5 DEF Inductive, projectVars

LEMMA ProjectHolds ==
  ASSUME Inductive,
         ArchiveProject \/ \E b \in Branches : MoveDefaultBranch(b)
  PROVE  Inductive' /\ Kept
<1>1. /\ UNCHANGED <<scanVars, finding, identity, lastEvent, clientVars>>
      /\ defaultBranch' \in Branches /\ archived' \in BOOLEAN /\ moves' \in 0 .. MaxMoves
      /\ moves' = 0 => moves = 0 /\ defaultBranch' = defaultBranch
  <2>1. CASE ArchiveProject
    BY <2>1 DEF ArchiveProject, Inductive, Consistent, TypeOK
  <2>2. ASSUME NEW b \in Branches, MoveDefaultBranch(b)
        PROVE  /\ UNCHANGED <<scanVars, finding, identity, lastEvent, clientVars>>
               /\ defaultBranch' \in Branches /\ archived' \in BOOLEAN
               /\ moves' \in 0 .. MaxMoves /\ moves' # 0
    <3>1. moves \in 0 .. MaxMoves /\ MaxMoves \in Nat
      BY FindingLifecycleAssumption DEF Inductive, Consistent, TypeOK
    <3> QED BY <2>2, <3>1 DEF MoveDefaultBranch, Inductive, Consistent, TypeOK
  <2> QED BY <2>1, <2>2
<1>2. /\ Consistent' /\ Kept
      /\ RowsAgree /\ defaultBranch' = defaultBranch => RowsAgree'
  BY <1>1, StillConsistent DEF Inductive, Consistent, TypeOK, clientVars
<1>3. Pages' /\ Filings'
  BY <1>1, <1>2, PagesOutlive, FilingsOutlive DEF Inductive, Consistent, clientVars
<1> QED BY <1>1, <1>2, <1>3 DEF Inductive

(***************************************************************************)
(* Steps that change the workflow of a finding                             *)
(***************************************************************************)

\* What such a step leaves of all the rest.
LEMMA WorkflowHolds ==
  ASSUME Inductive, Skeleton,
         identity' \in [Keys -> Identity], lastEvent' \in [Keys -> Statuses],
         finding' \in [ScanIds -> [Keys -> Finding]],
         UNCHANGED <<projectVars, issues>>,
         shown' \in [Users -> Shown], filing' \in [Requests -> Filing],
         \A u \in Users : shown'[u] = shown[u] \/ ~shown'[u].loaded,
         \A q \in Requests : filing'[q] = filing[q] \/ filing'[q].step = "idle",
         moves = 0 /\ RowsFollowIdentity => RowsFollowIdentity'
  PROVE  Inductive' /\ Kept
<1>1. /\ Consistent' /\ Kept
      /\ DefaultRows => DefaultRows'
      /\ OneCurrentRow => OneCurrentRow'
  BY SkeletonHolds DEF Inductive, Consistent, TypeOK, projectVars
<1>2. Filings'
  BY <1>1, FilingsOutlive DEF Inductive, Consistent
<1>3. Pages'
  <2> SUFFICES ASSUME NEW u \in Users, shown'[u].loaded
               PROVE  RowIsThere(shown[u])' /\ (shown'[u].linked => PageIsHonest(shown[u])')
    BY DEF Pages
  <2>1. shown'[u] = shown[u]
    OBVIOUS
  <2>2. RowIsThere(shown[u]) /\ (shown[u].linked => PageIsHonest(shown[u]))
        /\ shown[u].revision \in Nat
    BY <2>1 DEF Inductive, Pages, Consistent, TypeOK, Shown
  <2> QED BY ZenonT(30), <1>1, <2>1, <2>2, PageOutlives
          DEF Inductive, Consistent, RowIsThere, PageIsHonest
<1>4. moves' = moves
  BY DEF projectVars
<1> QED BY <1>1, <1>2, <1>3, <1>4 DEF Inductive, RowsAgree

LEMMA ExpireTriageHolds ==
  ASSUME Inductive, NEW k \in Keys, ExpireTriage(k)
  PROVE  Inductive' /\ Kept /\ Skeleton
<1> DEFINE i == identity[k]
<1>1. /\ i.expires = "future"
      /\ identity' = [identity EXCEPT ![k].expires = "passed"]
      /\ UNCHANGED <<scanVars, finding, lastEvent, projectVars, clientVars>>
  BY DEF ExpireTriage
<1>2. i \in Identity /\ "passed" \in Expiry
  BY DEF Inductive, Consistent, TypeOK, Expiry
<1>3. i.exists
  BY <1>1 DEF Inductive, Consistent, IdentityRows, NoIdentity
<1>4. identity'[k] = [i EXCEPT !.expires = "passed"]
  BY <1>1 DEF Inductive, Consistent, TypeOK
<1>5. \A j \in Keys : j # k => identity'[j] = identity[j]
  BY <1>1 DEF Inductive, Consistent, TypeOK
<1> HIDE DEF i
<1>6. /\ identity'[k] \in Identity
      /\ identity'[k].exists = i.exists /\ identity'[k].absent = i.absent
      /\ identity'[k].status = i.status /\ identity'[k].ticket = i.ticket
      /\ identity'[k].revision = i.revision /\ identity'[k].expires = "passed"
      /\ i.revision \in Nat
  BY <1>2, <1>4 DEF Identity
<1>7. <<"future", "passed">> \in Aged
  BY DEF Aged
<1>8. IdentityKept(i, identity'[k])
  BY <1>1, <1>6, <1>7 DEF IdentityKept, i
<1>9. identity' \in [Keys -> Identity]
  BY <1>1, <1>2, <1>4, <1>6 DEF Inductive, Consistent, TypeOK
<1>10. Skeleton
  <2>1. \A j \in Keys : j # k => IdentityKept(identity[j], identity'[j])
    BY <1>5, SameIsKept DEF Inductive, Consistent, TypeOK
  <2>2. \A j \in Keys : /\ identity'[j].exists = identity[j].exists
                        /\ identity'[j].absent = identity[j].absent
                        /\ IdentityKept(identity[j], identity'[j])
                        /\ ~identity[j].exists => identity'[j] = identity[j]
                        /\ identity'[j].status = identity[j].status
    BY <1>3, <1>5, <1>6, <1>8, <2>1 DEF i
  <2> QED BY <1>1, <2>2 DEF Skeleton, scanVars, Inductive, Consistent, HistoryEndsAtStatus
<1>11. RowsFollowIdentity => RowsFollowIdentity'
  <2>1. \A j \in Keys : /\ identity'[j].status = identity[j].status
                        /\ identity'[j].ticket = identity[j].ticket
                        /\ identity'[j].absent = identity[j].absent
    BY <1>5, <1>6 DEF i
  <2> QED BY <1>1, <2>1 DEF RowsFollowIdentity
<1> QED BY <1>1, <1>9, <1>10, <1>11, WorkflowHolds
        DEF Inductive, Consistent, TypeOK, clientVars

LEMMA NotShownIsTyped == NotShown \in Shown /\ ~NotShown.loaded
<1>1. None \in Tickets /\ 0 \in 0 .. MaxScans /\ "open" \in Statuses
  BY FindingLifecycleAssumption DEF Tickets
<1> QED BY <1>1 DEF NotShown, Shown, Expiry

LEMMA PatchedHolds ==
  ASSUME NEW i \in Identity, NEW st \in Statuses \cup {None}, NEW expires \in Expiry
  PROVE  /\ Patched(i, st, expires) \in Identity
         /\ Patched(i, st, expires).exists = i.exists
         /\ Patched(i, st, expires).absent = i.absent
         /\ Patched(i, st, expires).ticket = i.ticket
         /\ Patched(i, st, expires).status = IF st = None THEN i.status ELSE st
         /\ IdentityKept(i, Patched(i, st, expires))
<1>1. i.revision \in Nat /\ i.revision + 1 \in Nat
  BY DEF Identity
<1>2. CASE st = None
  <2>1. Patched(i, st, expires) = [i EXCEPT !.revision = i.revision + 1]
    BY <1>2 DEF Patched
  <2> QED BY <1>1, <1>2, <2>1 DEF Identity, IdentityKept
<1>3. CASE st # None
  <2>1. Patched(i, st, expires) =
          [i EXCEPT !.status = st, !.expires = expires, !.revision = i.revision + 1]
    BY <1>3 DEF Patched
  <2>2. st \in Statuses
    BY <1>3
  <2>3. /\ Patched(i, st, expires) \in Identity
        /\ Patched(i, st, expires).exists = i.exists
        /\ Patched(i, st, expires).absent = i.absent
        /\ Patched(i, st, expires).ticket = i.ticket
        /\ Patched(i, st, expires).status = st
        /\ Patched(i, st, expires).revision = i.revision + 1
    BY <1>1, <2>1, <2>2 DEF Identity
  <2>4. i.exists => Patched(i, st, expires).exists
    BY <2>3
  <2>5. IdentityKept(i, Patched(i, st, expires))
    BY <1>1, <2>3, <2>4 DEF IdentityKept
  <2> QED BY <1>3, <2>3, <2>5
<1> QED BY <1>2, <1>3

LEMMA PatchFindingHolds ==
  ASSUME Inductive, NEW u \in Users, NEW st \in Statuses \cup {None},
         NEW expires \in Expiry, PatchFinding(u, st, expires)
  PROVE  Inductive' /\ Kept /\ Skeleton
<1> DEFINE v == shown[u]
           k == v.key
           s == v.scan
<1>1. /\ v.loaded
      /\ shown' = [shown EXCEPT ![u] = NotShown]
      /\ UNCHANGED <<scanVars, projectVars, filing, issues>>
  BY DEF PatchFinding
<1>2. k \in Keys /\ s \in ScanIds /\ v.linked = finding[s][k].linked
  BY <1>1 DEF Inductive, Pages, RowIsThere
<1>3. /\ shown' \in [Users -> Shown]
      /\ \A w \in Users : shown'[w] = shown[w] \/ ~shown'[w].loaded
  BY <1>1, NotShownIsTyped DEF Inductive, Consistent, TypeOK
<1>4. CASE v.linked
  <2>1. /\ identity' = [identity EXCEPT ![k] = Patched(identity[k], st, expires)]
        /\ lastEvent' = [lastEvent EXCEPT ![k] = IF st = None THEN lastEvent[k] ELSE st]
        /\ finding' = [t \in ScanIds |-> [finding[t] EXCEPT ![k].status =
             IF st # None /\ Moves(finding[t][k]) THEN st ELSE @]]
    BY <1>4 DEF PatchFinding
  <2> DEFINE i == identity[k]
             j == Patched(i, st, expires)
  <2>2. i \in Identity /\ i.exists
    BY <1>2, <1>4 DEF Inductive, Consistent, TypeOK
  <2>3. /\ j \in Identity /\ j.exists = i.exists /\ j.absent = i.absent /\ j.ticket = i.ticket
        /\ j.status = (IF st = None THEN i.status ELSE st)
        /\ IdentityKept(i, j)
    <3> HIDE DEF i
    <3> QED BY <2>2, PatchedHolds
  <2> HIDE DEF j, k, s
  <2>4. identity'[k] = j /\ \A m \in Keys : m # k => identity'[m] = identity[m]
    BY <1>2, <2>1 DEF Inductive, Consistent, TypeOK, j
  <2>5. identity' \in [Keys -> Identity]
    BY <1>2, <2>1, <2>3 DEF Inductive, Consistent, TypeOK, j
  <2>6. /\ lastEvent' \in [Keys -> Statuses]
        /\ \A m \in Keys : lastEvent'[m] = identity'[m].status
    <3>1. lastEvent'[k] = (IF st = None THEN lastEvent[k] ELSE st)
          /\ \A m \in Keys : m # k => lastEvent'[m] = lastEvent[m]
      BY <1>2, <2>1 DEF Inductive, Consistent, TypeOK
    <3>2. \A m \in Keys : lastEvent[m] = identity[m].status
      BY DEF Inductive, Consistent, HistoryEndsAtStatus
    <3>3. lastEvent' \in [Keys -> Statuses]
      BY <1>2, <2>1 DEF Inductive, Consistent, TypeOK
    <3> QED BY <2>3, <2>4, <3>1, <3>2, <3>3
  <2>7. \A t \in ScanIds, m \in Keys :
          /\ finding'[t][m] \in Finding
          /\ finding'[t][m].present = finding[t][m].present
          /\ finding'[t][m].linked = finding[t][m].linked
          /\ finding'[t][m].current = finding[t][m].current
          /\ finding'[t][m].ticket = finding[t][m].ticket
          /\ finding'[t][m].status =
               IF m = k /\ st # None /\ Moves(finding[t][m]) THEN st ELSE finding[t][m].status
    <3> SUFFICES ASSUME NEW t \in ScanIds, NEW m \in Keys
                 PROVE  /\ finding'[t][m] \in Finding
                        /\ finding'[t][m].present = finding[t][m].present
                        /\ finding'[t][m].linked = finding[t][m].linked
                        /\ finding'[t][m].current = finding[t][m].current
                        /\ finding'[t][m].ticket = finding[t][m].ticket
                        /\ finding'[t][m].status =
                             IF m = k /\ st # None /\ Moves(finding[t][m]) THEN st
                             ELSE finding[t][m].status
      OBVIOUS
    <3> DEFINE f == finding[t][m]
    <3>1. f \in Finding /\ finding[t] \in [Keys -> Finding]
      BY DEF Inductive, Consistent, TypeOK
    <3>2. CASE m = k
      <4>1. finding'[t][m] =
              [f EXCEPT !.status = IF st # None /\ Moves(f) THEN st ELSE f.status]
        BY <2>1, <3>1, <3>2
      <4> QED BY <3>1, <3>2, <4>1 DEF Finding
    <3>3. CASE m # k
      <4>1. finding'[t][m] = f
        BY <2>1, <3>1, <3>3
      <4> QED BY <3>1, <3>3, <4>1
    <3> QED BY <3>2, <3>3
  <2>8. finding' \in [ScanIds -> [Keys -> Finding]]
    <3>1. finding' = [t \in ScanIds |-> [m \in Keys |-> finding'[t][m]]]
      BY <1>2, <2>1 DEF Inductive, Consistent, TypeOK
    <3> QED BY <2>7, <3>1
  <2>9. Skeleton
    <3>1. \A m \in Keys : m # k => IdentityKept(identity[m], identity'[m])
      BY <2>4, SameIsKept DEF Inductive, Consistent, TypeOK
    <3> QED BY <1>1, <2>2, <2>3, <2>4, <2>6, <2>7, <3>1 DEF Skeleton, scanVars
  <2>10. RowsFollowIdentity => RowsFollowIdentity'
    BY <2>2, <2>3, <2>4, <2>7 DEF RowsFollowIdentity, Moves
  <2> QED BY <1>1, <1>3, <2>5, <2>6, <2>8, <2>9, <2>10, WorkflowHolds
          DEF Inductive, Consistent, TypeOK
<1>5. CASE ~v.linked
  <2>1. /\ finding' = [finding EXCEPT ![s][k].status = IF st = None THEN @ ELSE st]
        /\ UNCHANGED <<identity, lastEvent>>
    BY <1>5 DEF PatchFinding
  <2> HIDE DEF k, s
  <2>2. \A t \in ScanIds, m \in Keys :
          /\ finding'[t][m] \in Finding
          /\ finding'[t][m].present = finding[t][m].present
          /\ finding'[t][m].linked = finding[t][m].linked
          /\ finding'[t][m].current = finding[t][m].current
          /\ finding'[t][m].linked => finding'[t][m] = finding[t][m]
    <3> SUFFICES ASSUME NEW t \in ScanIds, NEW m \in Keys
                 PROVE  /\ finding'[t][m] \in Finding
                        /\ finding'[t][m].present = finding[t][m].present
                        /\ finding'[t][m].linked = finding[t][m].linked
                        /\ finding'[t][m].current = finding[t][m].current
                        /\ finding'[t][m].linked => finding'[t][m] = finding[t][m]
      OBVIOUS
    <3> DEFINE f == finding[t][m]
    <3>1. f \in Finding /\ finding[t] \in [Keys -> Finding]
          /\ finding \in [ScanIds -> [Keys -> Finding]]
      BY DEF Inductive, Consistent, TypeOK
    <3>2. CASE t = s /\ m = k
      <4>1. finding'[t][m] = [f EXCEPT !.status = IF st = None THEN f.status ELSE st]
        BY <2>1, <3>1, <3>2
      <4> QED BY <1>2, <1>5, <3>1, <3>2, <4>1 DEF Finding
    <3>3. CASE ~(t = s /\ m = k)
      <4>1. finding'[t][m] = f
        BY <1>2, <2>1, <3>1, <3>3
      <4> QED BY <3>1, <3>3, <4>1
    <3> QED BY <3>2, <3>3
  <2>3. finding' \in [ScanIds -> [Keys -> Finding]]
    <3>1. finding' = [t \in ScanIds |-> [m \in Keys |-> finding'[t][m]]]
      BY <1>2, <2>1 DEF Inductive, Consistent, TypeOK
    <3> QED BY <2>2, <3>1
  <2>4. Skeleton
    <3>1. \A m \in Keys : IdentityKept(identity[m], identity'[m])
      BY <2>1, SameIsKept DEF Inductive, Consistent, TypeOK
    <3> QED BY <1>1, <2>1, <2>2, <3>1
            DEF Skeleton, scanVars, Inductive, Consistent, HistoryEndsAtStatus
  <2>5. RowsFollowIdentity => RowsFollowIdentity'
    <3> SUFFICES ASSUME RowsFollowIdentity, NEW t \in ScanIds, NEW m \in Keys,
                        finding'[t][m].linked, finding'[t][m].current
                 PROVE  /\ finding'[t][m].status = identity'[m].status
                        /\ finding'[t][m].ticket = identity'[m].ticket
                        /\ ~identity'[m].absent
      BY DEF RowsFollowIdentity
    <3>1. finding'[t][m] = finding[t][m] /\ finding[t][m].linked /\ finding[t][m].current
      BY <2>2
    <3> QED BY <2>1, <3>1 DEF RowsFollowIdentity
  <2> QED BY <1>1, <1>3, <2>1, <2>3, <2>4, <2>5, WorkflowHolds
          DEF Inductive, Consistent, TypeOK
<1> QED BY <1>4, <1>5

\* A ticket is linked to an identity.
LEMMA TicketedHolds ==
  ASSUME NEW i \in Identity, NEW issue \in Tickets
  PROVE  LET j == [i EXCEPT !.ticket = issue, !.revision = i.revision + 1] IN
         /\ j \in Identity /\ j.exists = i.exists /\ j.absent = i.absent
         /\ j.status = i.status /\ j.ticket = issue /\ IdentityKept(i, j)
<1> DEFINE j == [i EXCEPT !.ticket = issue, !.revision = i.revision + 1]
<1>1. i.revision \in Nat /\ i.revision + 1 \in Nat
  BY DEF Identity
<1>2. /\ j \in Identity /\ j.exists = i.exists /\ j.absent = i.absent
      /\ j.status = i.status /\ j.ticket = issue /\ j.revision = i.revision + 1
  BY <1>1 DEF Identity
<1> HIDE DEF j
<1>3. IdentityKept(i, j)
  BY <1>1, <1>2 DEF IdentityKept
<1> QED BY <1>2, <1>3 DEF j

LEMMA RecordTicketHolds ==
  ASSUME Inductive, NEW q \in Requests, RecordTicket(q)
  PROVE  Inductive' /\ Kept /\ Skeleton
<1> DEFINE r == filing[q]
           k == r.key
           s == r.scan
<1>1. /\ r.step = "created"
      /\ filing' = [filing EXCEPT ![q] = NotFiling]
      /\ UNCHANGED <<scanVars, lastEvent, projectVars, shown, issues>>
  BY DEF RecordTicket
<1>2. k \in Keys /\ s \in ScanIds /\ r.linked = finding[s][k].linked /\ r.issue \in Tickets
  BY <1>1 DEF Inductive, Filings, RowIsThere, Consistent, TypeOK, Filing
<1>3. /\ filing' \in [Requests -> Filing]
      /\ \A p \in Requests : filing'[p] = filing[p] \/ filing'[p].step = "idle"
  BY <1>1, NotFilingIsTyped DEF Inductive, Consistent, TypeOK, NotFiling
<1>4. CASE r.linked /\ Links(identity[k].ticket, r.issue)
  <2>1. /\ identity' = [identity EXCEPT ![k].ticket = r.issue, ![k].revision = @ + 1]
        /\ finding' = [t \in ScanIds |-> [finding[t] EXCEPT ![k].ticket =
             IF Moves(finding[t][k]) THEN r.issue ELSE @]]
    BY <1>4 DEF RecordTicket
  <2> DEFINE i == identity[k]
             j == [i EXCEPT !.ticket = r.issue, !.revision = i.revision + 1]
  <2>2. i \in Identity /\ i.exists
    BY <1>2, <1>4 DEF Inductive, Consistent, TypeOK
  <2>3. /\ j \in Identity /\ j.exists = i.exists /\ j.absent = i.absent
        /\ j.status = i.status /\ j.ticket = r.issue /\ IdentityKept(i, j)
    <3> HIDE DEF i
    <3> QED BY <1>2, <2>2, TicketedHolds
  <2>4. identity'[k] = j /\ \A m \in Keys : m # k => identity'[m] = identity[m]
    BY <1>2, <2>1 DEF Inductive, Consistent, TypeOK
  <2> HIDE DEF j, k, s
  <2>5. identity' \in [Keys -> Identity]
    <3>1. identity' = [m \in Keys |-> identity'[m]]
      BY <2>1 DEF Inductive, Consistent, TypeOK
    <3>2. \A m \in Keys : identity'[m] \in Identity
      BY <2>3, <2>4 DEF Inductive, Consistent, TypeOK
    <3> QED BY <3>1, <3>2
  <2>6. \A m \in Keys : lastEvent'[m] = identity'[m].status
    BY <1>1, <2>3, <2>4 DEF Inductive, Consistent, HistoryEndsAtStatus
  <2>7. \A t \in ScanIds, m \in Keys :
          /\ finding'[t][m] \in Finding
          /\ finding'[t][m].present = finding[t][m].present
          /\ finding'[t][m].linked = finding[t][m].linked
          /\ finding'[t][m].current = finding[t][m].current
          /\ finding'[t][m].status = finding[t][m].status
          /\ finding'[t][m].ticket =
               IF m = k /\ Moves(finding[t][m]) THEN r.issue ELSE finding[t][m].ticket
    <3> SUFFICES ASSUME NEW t \in ScanIds, NEW m \in Keys
                 PROVE  /\ finding'[t][m] \in Finding
                        /\ finding'[t][m].present = finding[t][m].present
                        /\ finding'[t][m].linked = finding[t][m].linked
                        /\ finding'[t][m].current = finding[t][m].current
                        /\ finding'[t][m].status = finding[t][m].status
                        /\ finding'[t][m].ticket =
                             IF m = k /\ Moves(finding[t][m]) THEN r.issue
                             ELSE finding[t][m].ticket
      OBVIOUS
    <3> DEFINE f == finding[t][m]
    <3>1. f \in Finding /\ finding[t] \in [Keys -> Finding]
      BY DEF Inductive, Consistent, TypeOK
    <3>2. CASE m = k
      <4>1. finding'[t][m] = [f EXCEPT !.ticket = IF Moves(f) THEN r.issue ELSE f.ticket]
        BY <2>1, <3>1, <3>2
      <4> QED BY <1>2, <3>1, <3>2, <4>1 DEF Finding
    <3>3. CASE m # k
      <4>1. finding'[t][m] = f
        BY <2>1, <3>1, <3>3
      <4> QED BY <3>1, <3>3, <4>1
    <3> QED BY <3>2, <3>3
  <2>8. finding' \in [ScanIds -> [Keys -> Finding]]
    <3>1. finding' = [t \in ScanIds |-> [m \in Keys |-> finding'[t][m]]]
      BY <1>2, <2>1 DEF Inductive, Consistent, TypeOK
    <3> QED BY <2>7, <3>1
  <2>9. Skeleton
    <3>1. \A m \in Keys : m # k => IdentityKept(identity[m], identity'[m])
      BY <2>4, SameIsKept DEF Inductive, Consistent, TypeOK
    <3> QED BY <1>1, <2>2, <2>3, <2>4, <2>6, <2>7, <3>1 DEF Skeleton, scanVars
  <2>10. RowsFollowIdentity => RowsFollowIdentity'
    BY <2>2, <2>3, <2>4, <2>7 DEF RowsFollowIdentity, Moves
  <2> QED BY <1>1, <1>3, <2>5, <2>8, <2>9, <2>10, WorkflowHolds
          DEF Inductive, Consistent, TypeOK
<1>5. CASE r.linked /\ ~Links(identity[k].ticket, r.issue)
  <2>1. UNCHANGED <<identity, finding>>
    BY <1>5 DEF RecordTicket
  <2>2. Skeleton
    <3>1. \A m \in Keys : IdentityKept(identity[m], identity'[m])
      BY <2>1, SameIsKept DEF Inductive, Consistent, TypeOK
    <3> QED BY <1>1, <2>1, <3>1
            DEF Skeleton, scanVars, Inductive, Consistent, HistoryEndsAtStatus
  <2>3. RowsFollowIdentity => RowsFollowIdentity'
    BY <2>1 DEF RowsFollowIdentity
  <2> QED BY <1>1, <1>3, <2>1, <2>2, <2>3, WorkflowHolds
          DEF Inductive, Consistent, TypeOK
<1>6. CASE ~r.linked
  <2>1. /\ finding' = [finding EXCEPT ![s][k].ticket = IF Links(@, r.issue) THEN r.issue ELSE @]
        /\ UNCHANGED identity
    BY <1>6 DEF RecordTicket
  <2> HIDE DEF k, s
  <2>2. \A t \in ScanIds, m \in Keys :
          /\ finding'[t][m] \in Finding
          /\ finding'[t][m].present = finding[t][m].present
          /\ finding'[t][m].linked = finding[t][m].linked
          /\ finding'[t][m].current = finding[t][m].current
          /\ finding'[t][m].linked => finding'[t][m] = finding[t][m]
    <3> SUFFICES ASSUME NEW t \in ScanIds, NEW m \in Keys
                 PROVE  /\ finding'[t][m] \in Finding
                        /\ finding'[t][m].present = finding[t][m].present
                        /\ finding'[t][m].linked = finding[t][m].linked
                        /\ finding'[t][m].current = finding[t][m].current
                        /\ finding'[t][m].linked => finding'[t][m] = finding[t][m]
      OBVIOUS
    <3> DEFINE f == finding[t][m]
    <3>1. f \in Finding /\ finding[t] \in [Keys -> Finding]
          /\ finding \in [ScanIds -> [Keys -> Finding]]
      BY DEF Inductive, Consistent, TypeOK
    <3>2. CASE t = s /\ m = k
      <4>1. finding'[t][m] =
              [f EXCEPT !.ticket = IF Links(f.ticket, r.issue) THEN r.issue ELSE f.ticket]
        BY <2>1, <3>1, <3>2
      <4> QED BY <1>2, <1>6, <3>1, <3>2, <4>1 DEF Finding
    <3>3. CASE ~(t = s /\ m = k)
      <4>1. finding'[t][m] = f
        BY <1>2, <2>1, <3>1, <3>3
      <4> QED BY <3>1, <3>3, <4>1
    <3> QED BY <3>2, <3>3
  <2>3. finding' \in [ScanIds -> [Keys -> Finding]]
    <3>1. finding' = [t \in ScanIds |-> [m \in Keys |-> finding'[t][m]]]
      BY <1>2, <2>1 DEF Inductive, Consistent, TypeOK
    <3> QED BY <2>2, <3>1
  <2>4. Skeleton
    <3>1. \A m \in Keys : IdentityKept(identity[m], identity'[m])
      BY <2>1, SameIsKept DEF Inductive, Consistent, TypeOK
    <3> QED BY <1>1, <2>1, <2>2, <3>1
            DEF Skeleton, scanVars, Inductive, Consistent, HistoryEndsAtStatus
  <2>5. RowsFollowIdentity => RowsFollowIdentity'
    <3> SUFFICES ASSUME RowsFollowIdentity, NEW t \in ScanIds, NEW m \in Keys,
                        finding'[t][m].linked, finding'[t][m].current
                 PROVE  /\ finding'[t][m].status = identity'[m].status
                        /\ finding'[t][m].ticket = identity'[m].ticket
                        /\ ~identity'[m].absent
      BY DEF RowsFollowIdentity
    <3>1. finding'[t][m] = finding[t][m] /\ finding[t][m].linked /\ finding[t][m].current
      BY <2>2
    <3> QED BY <2>1, <3>1 DEF RowsFollowIdentity
  <2> QED BY <1>1, <1>3, <2>1, <2>3, <2>4, <2>5, WorkflowHolds
          DEF Inductive, Consistent, TypeOK
<1> QED BY <1>4, <1>5, <1>6

(***************************************************************************)
(* The theorems                                                            *)
(***************************************************************************)

\* What PublishScan and UploadScan do.
LEMMA ImportsAreImports ==
  ASSUME NEW health \in Health, NEW seen \in SUBSET Keys, NEW measured \in SUBSET Keys,
         TypeOK,
         \/ \E s \in ScanIds : PublishScan(s, health, seen, measured)
         \/ \E b \in Branches : UploadScan(b, health, seen, measured)
  PROVE  \E s \in ScanIds, b \in Branches : ImportOf(s, b, health, seen, measured)
BY DEF PublishScan, UploadScan, NextScan, ImportOf, TypeOK, Health

LEMMA InitHolds == Init => Inductive
<1> SUFFICES ASSUME Init PROVE Inductive
  OBVIOUS
<1> USE FindingLifecycleAssumption
<1>1. (CHOOSE b \in Branches : TRUE) \in Branches
  OBVIOUS
<1>2. NoFinding \in Finding /\ NoIdentity \in Identity
  BY DEF NoFinding, Finding, NoIdentity, Identity, Expiry, Tickets
<1>3. TypeOK
  <2>1. 0 \in 0 .. MaxMoves /\ 0 \in 0 .. MaxIssues /\ "open" \in Statuses
    OBVIOUS
  <2>2. /\ finding \in [ScanIds -> [Keys -> Finding]]
        /\ identity \in [Keys -> Identity]
        /\ shown \in [Users -> Shown] /\ filing \in [Requests -> Filing]
    BY <1>2, NotShownIsTyped, NotFilingIsTyped DEF Init
  <2>3. \A s \in ScanIds, k \in Keys : ~finding[s][k].present /\ ~finding[s][k].linked
    BY DEF Init, NoFinding
  <2> QED BY <1>1, <2>1, <2>2, <2>3 DEF Init, TypeOK
<1>4. Numbered /\ IdentityRows /\ AbsentRows /\ CurrentRows /\ HistoryEndsAtStatus
  BY DEF Init, Numbered, IdentityRows, AbsentRows, CurrentRows, HistoryEndsAtStatus, NoFinding,
         NoIdentity
<1>5. Pages /\ Filings
  BY DEF Init, Pages, Filings, NotShown, NotFiling
<1>6. RowsAgree
  BY DEF Init, RowsAgree, DefaultRows, OneCurrentRow, RowsFollowIdentity, NoFinding
<1> QED BY <1>3, <1>4, <1>5, <1>6 DEF Inductive, Consistent

LEMMA NextHolds ==
  ASSUME Inductive, [Next]_vars
  PROVE  Inductive' /\ Kept
<1>1. ASSUME NEW health \in Health, NEW seen \in SUBSET Keys, NEW measured \in SUBSET Keys,
             \/ \E s \in ScanIds : PublishScan(s, health, seen, measured)
             \/ \E b \in Branches : UploadScan(b, health, seen, measured)
      PROVE  Inductive' /\ Kept
  BY <1>1, ImportsAreImports, ImportHolds DEF Inductive, Consistent
<1>2. ASSUME NEW u \in Users, NEW status \in Statuses, NEW expires \in {"none", "future"},
             PatchFinding(u, status, expires)
      PROVE  Inductive' /\ Kept
  BY <1>2, PatchFindingHolds DEF Expiry
<1>3. ASSUME NEW u \in Users, PatchFinding(u, None, "none")
      PROVE  Inductive' /\ Kept
  BY <1>3, PatchFindingHolds DEF Expiry
<1>4. CASE UNCHANGED vars
  <2>1. UNCHANGED <<scanVars, finding, identity, lastEvent, projectVars, clientVars>>
    BY <1>4 DEF vars
  <2>2. Consistent' /\ Kept /\ (RowsAgree => RowsAgree')
    BY <2>1, StillConsistent DEF Inductive, Consistent, TypeOK, projectVars, clientVars
  <2>3. Pages' /\ Filings'
    BY <2>1, <2>2, PagesOutlive, FilingsOutlive DEF Inductive, Consistent, clientVars
  <2> QED BY <2>1, <2>2, <2>3 DEF Inductive, projectVars
<1> QED BY <1>1, <1>2, <1>3, <1>4, RequestScanHolds, LoadFindingHolds, PrepareTicketHolds,
           CreateIssueHolds, RecordTicketHolds, AbandonTicketHolds, ExpireTriageHolds,
           ProjectHolds DEF Next

\* Rows, identities and the pages shown agree in every reachable state.
THEOREM Invariance == Spec => []Inductive
<1>1. Inductive /\ [Next]_vars => Inductive'
  BY NextHolds
<1> QED BY <1>1, InitHolds, PTL DEF Spec

\* Types, and the triage history: whoever decides, reopens or lets a decision
\* expire, the last event of a finding says the status its identity has.
THEOREM HistoryTellsTheTruth == Spec => [](TypeOK /\ HistoryEndsAtStatus)
BY Invariance, PTL DEF Inductive, Consistent

\* Until the default branch is moved, the rows of the scans, the identities and
\* the history agree: one current row per branch and finding, showing the
\* triage and the ticket of its identity, and none for an absent finding.
THEOREM RowsAgreeWithIdentities == Spec => [](moves = 0 => RowInvariant)
<1>1. Inductive => (moves = 0 => RowInvariant)
  BY DEF Inductive, Consistent, RowsAgree, RowInvariant
<1> QED BY <1>1, Invariance, PTL

(***************************************************************************)
(* What no step may do                                                     *)
(***************************************************************************)

\* No edit is lost: a saved edit was made looking at the status, the ticket and
\* the expiry the finding has, whatever scans and tickets did since it was loaded.
THEOREM EditsAreSeen == Spec => NoEditIsLost
<1>1. ASSUME Inductive, [Next]_vars, NEW u \in Users,
             shown[u].loaded, shown[u].linked, ~shown'[u].loaded
      PROVE  LET v == shown[u]  i == identity[v.key] IN
             /\ v.status = i.status /\ v.ticket = i.ticket
             /\ <<v.expires, i.expires>> \in
                  {<<e, e>> : e \in Expiry} \cup {<<"future", "passed">>}
  <2> DEFINE v == shown[u]
             i == identity[v.key]
  <2>1. \E st \in Statuses \cup {None}, expires \in Expiry : PatchFinding(u, st, expires)
    <3>1. shown'[u] # shown[u]
      BY <1>1
    <3>2. shown \in [Users -> Shown]
      BY <1>1 DEF Inductive, Consistent, TypeOK
    <3>3. ASSUME NEW w \in Users, NEW s \in ScanIds, NEW k \in Keys, LoadFinding(w, s, k)
          PROVE  FALSE
      <4>1. shown'[u] = IF w = u THEN Workflow(s, k) ELSE shown[u]
        BY <3>2, <3>3 DEF LoadFinding
      <4>2. Workflow(s, k).loaded
        BY DEF Workflow
      <4> QED BY <1>1, <4>1, <4>2
    <3>4. ASSUME NEW w \in Users, NEW st \in Statuses \cup {None}, NEW expires \in Expiry,
                 PatchFinding(w, st, expires)
          PROVE  w = u
      BY <3>1, <3>2, <3>4 DEF PatchFinding
    <3>5. \/ \E w \in Users, st \in Statuses \cup {None}, expires \in Expiry :
               PatchFinding(w, st, expires)
          \/ \E w \in Users, s \in ScanIds, k \in Keys : LoadFinding(w, s, k)
          \/ UNCHANGED shown
      <4>1. CASE UNCHANGED vars
        BY <4>1 DEF vars, clientVars
      <4>2. ASSUME NEW b \in Branches, RequestScan(b) \/ MoveDefaultBranch(b)
            PROVE  UNCHANGED shown
        BY <4>2 DEF RequestScan, MoveDefaultBranch, clientVars
      <4>3. ASSUME NEW health \in Health, NEW seen \in SUBSET Keys,
                   NEW measured \in SUBSET Keys,
                   \/ \E s \in ScanIds : PublishScan(s, health, seen, measured)
                   \/ \E b \in Branches : UploadScan(b, health, seen, measured)
            PROVE  UNCHANGED shown
        BY <4>3 DEF PublishScan, UploadScan, Import, clientVars
      <4>4. ASSUME NEW q \in Requests,
                   \/ \E s \in ScanIds, k \in Keys : PrepareTicket(q, s, k)
                   \/ CreateIssue(q) \/ RecordTicket(q) \/ AbandonTicket(q)
            PROVE  UNCHANGED shown
        BY <4>4 DEF PrepareTicket, CreateIssue, RecordTicket, AbandonTicket
      <4>5. CASE ArchiveProject \/ \E k \in Keys : ExpireTriage(k)
        BY <4>5 DEF ArchiveProject, ExpireTriage, clientVars
      <4> QED BY <1>1, <4>1, <4>2, <4>3, <4>4, <4>5 DEF Next, Expiry
    <3> QED BY <3>1, <3>3, <3>4, <3>5
  <2>2. SameVersion(v, Workflow(v.scan, v.key))
    BY <2>1 DEF PatchFinding
  <2>3. RowIsThere(v) /\ PageIsHonest(v)
    BY <1>1 DEF Inductive, Pages
  <2>4. v.revision = i.revision
    <3>1. finding[v.scan][v.key].linked
      BY <1>1, <2>3 DEF RowIsThere
    <3>2. Workflow(v.scan, v.key).revision = i.revision
      BY <3>1 DEF Workflow
    <3> QED BY <1>1, <2>2, <3>2 DEF SameVersion
  <2> QED BY <2>3, <2>4 DEF PageIsHonest, Aged
<1>2. Inductive /\ [Next]_vars =>
        [\A u \in Users :
           LET v == shown[u]  i == identity[v.key] IN
           v.loaded /\ v.linked /\ ~shown'[u].loaded =>
             /\ v.status = i.status /\ v.ticket = i.ticket
             /\ <<v.expires, i.expires>> \in
                  {<<e, e>> : e \in Expiry} \cup {<<"future", "passed">>}]_vars
  BY <1>1
<1> QED BY <1>2, Invariance, PTL DEF Spec, NoEditIsLost

\* The scans a step imports, and the decisions it changes without one.
LEMMA StatusChanges ==
  ASSUME Inductive, Next, scan' # scan, NEW k \in Keys,
         identity'[k].status # identity[k].status
  PROVE  SystemEvent(k) /\ identity'[k].status = "open"
<1>1. \/ \E health \in Health, seen, measured \in SUBSET Keys :
           \/ \E s \in ScanIds : PublishScan(s, health, seen, measured)
           \/ \E b \in Branches : UploadScan(b, health, seen, measured)
      \/ UNCHANGED identity
  BY DEF Next, scanVars, RequestScan, MoveDefaultBranch, LoadFinding, PatchFinding,
         PrepareTicket, CreateIssue, RecordTicket, AbandonTicket, ExpireTriage, ArchiveProject
<1>2. PICK health \in Health, seen \in SUBSET Keys, measured \in SUBSET Keys,
           s \in ScanIds, b \in Branches : ImportOf(s, b, health, seen, measured)
  BY <1>1, ImportsAreImports DEF Inductive, Consistent
<1> QED BY <1>2, IdentitiesHold DEF ImportOf, Inductive, Consistent

\* A report never undoes a decision, except to reopen one that expired or that
\* said a finding was gone that the default branch shows again.
THEOREM TriageSurvives == Spec => TriageSurvivesRescans
<1>1. Inductive /\ [Next]_vars =>
        [scan' # scan => \A k \in Keys :
           identity'[k].status # identity[k].status =>
             /\ identity'[k].status = "open"
             /\ \/ identity[k].expires = "passed"
                \/ /\ identity[k].status \in Decided
                   /\ identity[k].absent \/ identity[k].status = "fixed"]_vars
  BY StatusChanges DEF SystemEvent, Reopens, Regressed
<1> QED BY <1>1, Invariance, PTL DEF Spec, TriageSurvivesRescans

\* The ticket of an identity is never replaced nor dropped, however many
\* requests file one for the same finding at once.
THEOREM TicketsStay == Spec => TicketIsKept
<1>1. ASSUME Inductive, Next, NEW k \in Keys, identity[k].ticket # None
      PROVE  identity'[k].ticket = identity[k].ticket
  <2> USE <1>1
  <2>1. identity \in [Keys -> Identity] /\ identity[k] \in Identity
    BY DEF Inductive, Consistent, TypeOK
  <2>2. ASSUME NEW health \in Health, NEW seen \in SUBSET Keys, NEW measured \in SUBSET Keys,
               \/ \E s \in ScanIds : PublishScan(s, health, seen, measured)
               \/ \E b \in Branches : UploadScan(b, health, seen, measured)
        PROVE  identity'[k].ticket = identity[k].ticket
    <3>1. PICK s \in ScanIds, b \in Branches : ImportOf(s, b, health, seen, measured)
      BY <2>2, ImportsAreImports DEF Inductive, Consistent
    <3> QED BY <3>1, IdentitiesHold DEF ImportOf, Inductive, Consistent
  <2>3. ASSUME NEW u \in Users, NEW st \in Statuses \cup {None}, NEW expires \in Expiry,
               PatchFinding(u, st, expires)
        PROVE  identity'[k].ticket = identity[k].ticket
    <3>1. CASE identity'[k] = identity[k]
      BY <3>1
    <3>2. CASE identity'[k] = Patched(identity[k], st, expires)
      <4>1. \A i \in Identity : Patched(i, st, expires).ticket = i.ticket
        BY PatchedHolds
      <4> QED BY <2>1, <3>2, <4>1
    <3> QED BY <2>1, <2>3, <3>1, <3>2 DEF PatchFinding
  <2>4. ASSUME NEW q \in Requests, RecordTicket(q)
        PROVE  identity'[k].ticket = identity[k].ticket
    <3>1. CASE UNCHANGED identity
      BY <3>1
    <3>2. CASE /\ Links(identity[filing[q].key].ticket, filing[q].issue)
               /\ identity' = [identity EXCEPT ![filing[q].key].ticket = filing[q].issue,
                                               ![filing[q].key].revision = @ + 1]
      <4>1. CASE filing[q].key = k
        <5>1. filing[q].issue = identity[k].ticket
          BY <3>2, <4>1 DEF Links
        <5>2. identity'[k] = [identity[k] EXCEPT !.ticket = filing[q].issue,
                                                 !.revision = identity[k].revision + 1]
          BY <2>1, <3>2, <4>1
        <5> QED BY <2>1, <5>1, <5>2 DEF Identity
      <4>2. CASE filing[q].key # k
        BY <2>1, <3>2, <4>2
      <4> QED BY <4>1, <4>2
    <3> QED BY <2>4, <3>1, <3>2 DEF RecordTicket
  <2>5. ASSUME NEW j \in Keys, ExpireTriage(j)
        PROVE  identity'[k].ticket = identity[k].ticket
    <3>1. CASE j = k
      <4>1. identity'[k] = [identity[k] EXCEPT !.expires = "passed"]
        BY <2>1, <2>5, <3>1 DEF ExpireTriage
      <4> QED BY <2>1, <4>1 DEF Identity
    <3>2. CASE j # k
      BY <2>1, <2>5, <3>2 DEF ExpireTriage
    <3> QED BY <3>1, <3>2
  <2> QED BY <2>2, <2>3, <2>4, <2>5
          DEF Next, RequestScan, MoveDefaultBranch, LoadFinding, PrepareTicket, CreateIssue,
              AbandonTicket, ArchiveProject, Expiry
<1>2. Inductive /\ [Next]_vars =>
        [\A k \in Keys : identity[k].ticket # None =>
           identity'[k].ticket = identity[k].ticket]_vars
  BY <1>1
<1> QED BY <1>2, Invariance, PTL DEF Spec, TicketIsKept

\* Absence is evidence: an identity becomes absent only with a new complete scan
\* of the default branch that no newer scan of the branch has superseded.
THEOREM AbsenceNeedsAScan == Spec => AbsenceIsMeasured
<1>1. ASSUME Inductive, Next, NEW k \in Keys, identity'[k].absent, ~identity[k].absent
      PROVE  \E s \in ScanIds :
               /\ scan[s] # "completed" /\ scan'[s] = "completed"
               /\ branchOf'[s] = defaultBranch
               /\ ~finding'[s][k].present
               /\ \A t \in ScanIds : t > s /\ branchOf[t] = branchOf'[s] =>
                    scan[t] \notin {"completed", "partial"}
  <2> USE <1>1
  <2>1. CASE Skeleton
    BY <2>1 DEF Skeleton
  <2>2. ASSUME NEW s \in ScanIds, NEW b \in Branches, NEW health \in Health,
               NEW seen \in SUBSET Keys, NEW measured \in SUBSET Keys,
               ImportOf(s, b, health, seen, measured)
        PROVE  /\ scan[s] # "completed" /\ scan'[s] = "completed"
               /\ branchOf'[s] = defaultBranch
               /\ ~finding'[s][k].present
               /\ \A t \in ScanIds : t > s /\ branchOf[t] = branchOf'[s] =>
                    scan[t] \notin {"completed", "partial"}
    <3>1. Reconciles(s, b, health) /\ k \notin seen
      BY <2>2, IdentitiesHold DEF ImportOf, Inductive, Consistent
    <3>2. health = "completed" /\ b = defaultBranch /\ ~Newer(s, b)
      BY <3>1 DEF Reconciles, Identifies, Baseline
    <3>3. scan'[s] = health /\ branchOf'[s] = b /\ scan[s] # "completed"
      BY <2>2 DEF ImportOf, Import, Health, Inductive, Consistent, TypeOK
    <3>4. ~finding'[s][k].present
      BY <2>2, <3>1, NewRows DEF Inductive, Consistent
    <3> QED BY <3>2, <3>3, <3>4 DEF Newer
  <2>3. CASE \E health \in Health, seen, measured \in SUBSET Keys :
               \/ \E s \in ScanIds : PublishScan(s, health, seen, measured)
               \/ \E b \in Branches : UploadScan(b, health, seen, measured)
    <3>1. PICK health \in Health, seen \in SUBSET Keys, measured \in SUBSET Keys,
               s \in ScanIds, b \in Branches : ImportOf(s, b, health, seen, measured)
      BY <2>3, ImportsAreImports DEF Inductive, Consistent
    <3> QED BY <2>2, <3>1
  <2>4. CASE UNCHANGED identity
    BY <2>4
  <2> QED BY <2>1, <2>3, <2>4, PatchFindingHolds, RecordTicketHolds, ExpireTriageHolds
          DEF Next, RequestScan, MoveDefaultBranch, LoadFinding, PrepareTicket, CreateIssue,
              AbandonTicket, ArchiveProject, Expiry
<1>2. Inductive /\ [Next]_vars =>
        [\A k \in Keys : identity'[k].absent /\ ~identity[k].absent =>
           \E s \in ScanIds :
             /\ scan[s] # "completed" /\ scan'[s] = "completed"
             /\ branchOf'[s] = defaultBranch
             /\ ~finding'[s][k].present
             /\ \A t \in ScanIds : t > s /\ branchOf[t] = branchOf'[s] =>
                  scan[t] \notin {"completed", "partial"}]_vars
  BY <1>1
<1> QED BY <1>2, Invariance, PTL DEF Spec, AbsenceIsMeasured

\* While a row of a scan is current, no row of an older scan of its branch is
\* after any step, in whatever order the scans are published.  A project whose
\* default branch moves may keep the older one (see OneCurrentRow).
THEOREM EvidenceMovesForward == MaxMoves = 0 => (Spec => CurrentNeverGoesBack)
<1> SUFFICES ASSUME MaxMoves = 0 PROVE Spec => CurrentNeverGoesBack
  OBVIOUS
<1>1. ASSUME Inductive, Next, NEW s \in ScanIds, NEW t \in ScanIds, NEW k \in Keys,
             finding[t][k].current, s < t, branchOf[s] = branchOf[t]
      PROVE  ~finding'[s][k].current
  <2> USE <1>1
  <2>1. OneCurrentRow
    BY FindingLifecycleAssumption DEF Inductive, Consistent, TypeOK, RowsAgree
  <2>2. ~finding[s][k].current
    <3>1. s # t
      BY DEF ScanIds
    <3> QED BY <2>1, <3>1 DEF OneCurrentRow
  <2>3. ASSUME NEW z \in ScanIds, NEW b \in Branches, NEW health \in Health,
               NEW seen \in SUBSET Keys, NEW measured \in SUBSET Keys,
               ImportOf(z, b, health, seen, measured)
        PROVE  ~finding'[s][k].current
    <3>1. CASE z # s
      BY <2>2, <2>3, <3>1, OldRows DEF Inductive, Consistent
    <3>2. CASE z = s
      <4>1. scan[t] \in {"completed", "partial"}
        BY DEF Inductive, Consistent, CurrentRows
      <4>2. b = branchOf[s]
        BY <2>3, <3>2, <4>1 DEF ImportOf, NextScan, Inductive, Consistent, Numbered
      <4>3. ~Baseline(s, b, health)
        BY <4>1, <4>2 DEF Baseline, Newer, ScanIds
      <4> QED BY <2>2, <2>3, <3>2, <4>3, NewRows DEF Inductive, Consistent
    <3> QED BY <3>1, <3>2
  <2>4. CASE \E health \in Health, seen, measured \in SUBSET Keys :
               \/ \E z \in ScanIds : PublishScan(z, health, seen, measured)
               \/ \E b \in Branches : UploadScan(b, health, seen, measured)
    <3>1. PICK health \in Health, seen \in SUBSET Keys, measured \in SUBSET Keys,
               z \in ScanIds, b \in Branches : ImportOf(z, b, health, seen, measured)
      BY <2>4, ImportsAreImports DEF Inductive, Consistent
    <3> QED BY <2>3, <3>1
  <2>5. CASE UNCHANGED finding
    BY <2>2, <2>5
  <2>6. CASE Skeleton
    BY <2>2, <2>6 DEF Skeleton
  <2> QED BY <2>4, <2>5, <2>6, PatchFindingHolds, RecordTicketHolds
          DEF Next, RequestScan, MoveDefaultBranch, LoadFinding, PrepareTicket, CreateIssue,
              AbandonTicket, ExpireTriage, ArchiveProject, Expiry
<1>2. Inductive /\ [Next]_vars =>
        [\A s, t \in ScanIds, k \in Keys :
           /\ finding[t][k].current
           /\ s < t /\ branchOf[s] = branchOf[t]
           => ~finding'[s][k].current]_vars
  BY <1>1
<1> QED BY <1>2, Invariance, PTL DEF Spec, CurrentNeverGoesBack

=============================================================================
