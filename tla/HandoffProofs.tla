---------------------------- MODULE HandoffProofs ----------------------------
(* Proofs about the consultation handoff, for any number of AI requests,    *)
(* consultations and handoffs: a consultation shows the best handoff it     *)
(* has, the first one the newest of all in whatever order they arrived, a   *)
(* summary is never replaced by an older one, and a request is stored once. *)
EXTENDS Handoff, SequenceTheorems, WellFoundedInduction,
        FiniteSetTheorems, TLAPS

-----------------------------------------------------------------------------
(* The inductive invariant.  What the run invariants say with Best, a       *)
(* CHOOSE, is said here of the member itself.                               *)

\* Consultations and handoffs, the bounds of their references aside.
Row == [status : OpenRow \cup {"COMPLETED"}, asked : BOOLEAN, summary : Nat]

Entry == [request : Requests, note : Notes, row : Nat]

\* s is the best of ids, or ids is empty and s is 0.
IsBest(hs, ids, s) ==
  \/ s = 0 /\ ids = {}
  \/ s \in ids /\ \A j \in ids \ {s} : Outranks(hs, s, j)

\* The handoffs attach may take for row n.
Pool(hs, n) == {i \in DOMAIN hs : Eligible(hs[i]) /\ hs[i].row \in {0, n}}

\* Summaries name stored handoffs, handoffs name existing rows.
Linked(rs, hs) ==
  /\ rs \in Seq(Row)
  /\ hs \in Seq(Entry)
  /\ \A n \in DOMAIN rs : rs[n].summary <= Len(hs)
  /\ \A i \in DOMAIN hs : hs[i].row <= Len(rs)

\* Every row shows the best of its own handoffs, all of them eligible.
RowsShowBest(rs, hs) ==
  \A n \in DOMAIN rs :
    /\ IsBest(hs, Shown(hs, n), rs[n].summary)
    /\ \A i \in Shown(hs, n) : Eligible(hs[i])

\* An open row that was asked for shows the best it may take.
OpenShowsBest(rs, hs) ==
  \A n \in DOMAIN rs :
    rs[n].asked /\ rs[n].status \in OpenRow =>
      IsBest(hs, Pool(hs, n), rs[n].summary)

\* Only the last row may be open, and it is in progress only while the
\* inquiry is.
OnlyLastOpen ==
  \A n \in DOMAIN rows :
    /\ n < Len(rows) => rows[n].status = "COMPLETED"
    /\ rows[n].status = "IN_PROGRESS" => status = "CONSULTATION_IN_PROGRESS"

\* completed_at never runs ahead of the runs completed.
DoneBehindClock == \A q \in Requests : run[q].done <= clock

\* A stored handoff has a finished run: its rank does not change any more.
StoredAreReady == \A i \in DOMAIN handoffs : Ready(handoffs[i].request)

\* uq_ai_handoff_request: one handoff per AI request.
RequestsDiffer ==
  \A i, j \in DOMAIN handoffs :
    handoffs[i].request = handoffs[j].request => i = j

\* A delivery is reported of a stored handoff only.
DeliveredIsStored ==
  \A q \in Requests :
    post[q] = "DELIVERED" => \E i \in DOMAIN handoffs : handoffs[i].request = q

Scalars ==
  /\ status \in InquiryStates
  /\ version \in 1 .. MaxVersion
  /\ Len(rows) <= MaxRows
  /\ run \in [Requests -> Runs]
  /\ clock \in Nat
  /\ applied \in [Requests -> EventCodes \cup {NONE}]
  /\ review \in [Requests -> {NONE, "PENDING", "REJECTED"}]
  /\ note \in [Requests -> Notes]
  /\ post \in [Requests -> Posts]

Projected ==
  /\ Linked(rows, handoffs)
  /\ RowsShowBest(rows, handoffs)
  /\ OpenShowsBest(rows, handoffs)

Ledger ==
  /\ DoneBehindClock
  /\ StoredAreReady
  /\ RequestsDiffer
  /\ DeliveredIsStored

IInv == Scalars /\ Projected /\ Ledger /\ OnlyLastOpen

-----------------------------------------------------------------------------
(* The rank is a strict total order, and a non-empty set has a best. *)

\* What the rank reads is typed.
Ranked(hs) == run \in [Requests -> Runs] /\ hs \in Seq(Entry)

(* The ranks of two handoffs are numbers.                                   *)
LEMMA RankTypes ==
  ASSUME NEW hs, Ranked(hs), NEW i \in DOMAIN hs
  PROVE  /\ run[hs[i].request].version \in 0 .. MaxVersion
         /\ run[hs[i].request].done \in Nat
         /\ i \in Nat \ {0}
         /\ i <= Len(hs)
<1>1. DOMAIN hs = 1 .. Len(hs) /\ Len(hs) \in Nat
  BY LenProperties DEF Ranked
<1>2. hs[i] \in Entry
  BY <1>1, ElementOfSeq DEF Ranked
<1>3. run[hs[i].request] \in Runs
  BY <1>2 DEF Ranked, Entry
<1>4. QED
  BY <1>1, <1>3 DEF Runs

(* Of two different handoffs one outranks the other, and not both.          *)
LEMMA RankTotal ==
  ASSUME NEW hs, Ranked(hs), NEW i \in DOMAIN hs, NEW j \in DOMAIN hs
  PROVE  /\ i # j => Outranks(hs, i, j) \/ Outranks(hs, j, i)
         /\ ~(Outranks(hs, i, j) /\ Outranks(hs, j, i))
<1> DEFINE v(m) == run[hs[m].request].version
           d(m) == run[hs[m].request].done
<1>1. /\ v(i) \in Nat /\ d(i) \in Nat /\ i \in Nat
      /\ v(j) \in Nat /\ d(j) \in Nat /\ j \in Nat
  BY RankTypes, HandoffAssumption
<1>2. QED
  BY <1>1 DEF Outranks

(* The rank is transitive.                                                  *)
LEMMA RankTransitive ==
  ASSUME NEW hs, Ranked(hs), NEW i \in DOMAIN hs, NEW j \in DOMAIN hs,
         NEW k \in DOMAIN hs, Outranks(hs, i, j), Outranks(hs, j, k)
  PROVE  Outranks(hs, i, k)
BY RankTypes, HandoffAssumption DEF Outranks

(* The numbers are well ordered.                                            *)
LEMMA LessIsWellFounded ==
  \E R : /\ IsWellFoundedOn(R, Nat)
         /\ \A j, k \in Nat : j < k => <<j, k>> \in R
<1> DEFINE Less == OpToRel(<, Nat)
<1>1. IsWellFoundedOn(Less, Nat)
  BY NatLessThanWellFounded
<1>2. \A j, k \in Nat : j < k => <<j, k>> \in Less
  BY DEF OpToRel
<1> HIDE DEF Less
<1>3. QED
  BY <1>1, <1>2

(* A non-empty set of numbers has a least.                                  *)
LEMMA Least ==
  ASSUME NEW T, T \subseteq Nat, T # {}
  PROVE  \E n \in T : \A m \in T : n <= m
<1>1. PICK R : /\ IsWellFoundedOn(R, Nat)
               /\ \A j, k \in Nat : j < k => <<j, k>> \in R
  BY LessIsWellFounded
<1>2. \E n \in T : \A m \in T : ~(<<m, n>> \in R)
  <2>1. IsWellFoundedOn(R, Nat)
    BY <1>1
  <2>2. QED
    BY <2>1, WFMin
<1>3. PICK n \in T : \A m \in T : ~(<<m, n>> \in R)
  BY <1>2
<1>4. ASSUME NEW m \in T
      PROVE  n <= m
  <2>1. m \in Nat /\ n \in Nat /\ ~(<<m, n>> \in R)
    BY <1>3
  <2>2. ~(m < n)
    BY <1>1, <2>1
  <2>3. QED
    BY <2>1, <2>2
<1>5. QED
  BY <1>4

(* A bounded non-empty set of numbers has a greatest.                       *)
LEMMA Greatest ==
  ASSUME NEW B \in Nat, NEW S, S \subseteq 0 .. B, S # {}
  PROVE  \E m \in S : \A x \in S : x <= m
<1> DEFINE T == {n \in Nat : B - n \in S}
<1>1. T \subseteq Nat /\ T # {}
  <2>1. PICK x : x \in S
    OBVIOUS
  <2>2. B - x \in Nat /\ B - (B - x) = x
    BY <2>1
  <2>3. QED
    BY <2>1, <2>2
<1>2. PICK n \in T : \A m \in T : n <= m
  BY <1>1, Least
<1>3. ASSUME NEW x \in S
      PROVE  x <= B - n
  <2>1. B - x \in T
    BY B - x \in Nat /\ B - (B - x) = x
  <2>2. QED
    BY <1>2, <2>1
<1>4. QED
  BY <1>2, <1>3

(* A non-empty set of handoffs has a best one: the latest version, of those *)
(* the last completed run, of those the last stored.                        *)
LEMMA BestExists ==
  ASSUME NEW hs, Ranked(hs), clock \in Nat, DoneBehindClock,
         NEW ids, ids \subseteq DOMAIN hs, ids # {}
  PROVE  \E i \in ids : \A j \in ids \ {i} : Outranks(hs, i, j)
<1> DEFINE v(i) == run[hs[i].request].version
           d(i) == run[hs[i].request].done
           V == {v(i) : i \in ids}
<1>1. \A i \in ids : /\ v(i) \in 0 .. MaxVersion
                     /\ d(i) \in 0 .. clock
                     /\ i \in 0 .. Len(hs)
                     /\ Len(hs) \in Nat
  <2> SUFFICES ASSUME NEW i \in ids
               PROVE  /\ v(i) \in 0 .. MaxVersion
                      /\ d(i) \in 0 .. clock
                      /\ i \in 0 .. Len(hs)
                      /\ Len(hs) \in Nat
    OBVIOUS
  <2>1. hs[i].request \in Requests /\ Len(hs) \in Nat
    <3>1. DOMAIN hs = 1 .. Len(hs) /\ Len(hs) \in Nat
      BY LenProperties DEF Ranked
    <3>2. hs[i] \in Entry
      BY <3>1, ElementOfSeq DEF Ranked
    <3>3. QED
      BY <3>1, <3>2 DEF Entry
  <2>2. run[hs[i].request].done <= clock
    BY <2>1 DEF DoneBehindClock
  <2>3. QED
    BY <2>1, <2>2, RankTypes
<1>2. PICK mv \in V : \A x \in V : x <= mv
  <2>1. V \subseteq 0 .. MaxVersion /\ V # {} /\ MaxVersion \in Nat
    BY <1>1, HandoffAssumption
  <2>2. QED
    BY <2>1, Greatest
<1> DEFINE top == {i \in ids : v(i) = mv}
           D == {d(i) : i \in top}
<1>3. PICK md \in D : \A x \in D : x <= md
  <2>1. D \subseteq 0 .. clock /\ D # {}
    BY <1>1, <1>2
  <2>2. QED
    BY <2>1, Greatest
<1> DEFINE last == {i \in top : d(i) = md}
<1>4. PICK i \in last : \A j \in last : j <= i
  <2>1. last \subseteq 0 .. Len(hs) /\ last # {} /\ Len(hs) \in Nat
    BY <1>1, <1>3
  <2>2. QED
    BY <2>1, Greatest
<1>5. ASSUME NEW j \in ids \ {i}
      PROVE  Outranks(hs, i, j)
  <2>1. i \in ids /\ v(i) = mv /\ d(i) = md /\ v(j) <= mv
    BY <1>2, <1>4
  <2>2. v(j) = mv => d(j) <= md
    BY <1>3
  <2>3. v(j) = mv /\ d(j) = md => j <= i
    BY <1>4
  <2>4. /\ v(i) \in Nat /\ v(j) \in Nat /\ d(i) \in Nat /\ d(j) \in Nat
        /\ i \in Nat /\ j \in Nat /\ i # j
    <3>1. \A k \in ids : v(k) \in Nat /\ d(k) \in Nat /\ k \in Nat
      BY <1>1
    <3> HIDE DEF v, d
    <3>2. QED
      BY <2>1, <3>1
  <2>5. QED
    BY <2>1, <2>2, <2>3, <2>4 DEF Outranks
<1>6. QED
  BY <1>4, <1>5

(* Best is the member IsBest describes.                                     *)
LEMMA BestIsBest ==
  ASSUME NEW hs, Ranked(hs), clock \in Nat, DoneBehindClock,
         NEW ids, ids \subseteq DOMAIN hs
  PROVE  /\ IsBest(hs, ids, Best(hs, ids))
         /\ \A s : IsBest(hs, ids, s) => s = Best(hs, ids)
<1>1. CASE ids = {}
  BY <1>1 DEF IsBest, Best
<1>2. CASE ids # {}
  <2> DEFINE best == CHOOSE i \in ids : \A j \in ids \ {i} : Outranks(hs, i, j)
  <2>1. best \in ids /\ \A j \in ids \ {best} : Outranks(hs, best, j)
    BY <1>2, BestExists
  <2>2. Best(hs, ids) = best
    BY <1>2 DEF Best
  <2>3. ASSUME NEW s, IsBest(hs, ids, s)
        PROVE  s = best
    <3>1. s \in ids /\ \A j \in ids \ {s} : Outranks(hs, s, j)
      BY <1>2, <2>3 DEF IsBest
    <3>2. s # best => Outranks(hs, s, best) /\ Outranks(hs, best, s)
      BY <2>1, <3>1
    <3>3. QED
      BY <2>1, <3>1, <3>2, RankTotal
  <2>4. QED
    BY <2>1, <2>2, <2>3 DEF IsBest
<1>3. QED
  BY <1>1, <1>2

-----------------------------------------------------------------------------
(* What attaching does to the rows and the handoffs. *)

(* A function on the indices of a sequence is a sequence of that length.    *)
LEMMA SameLength ==
  ASSUME NEW S, NEW T, NEW seq \in Seq(S), NEW new \in [DOMAIN seq -> T]
  PROVE  new \in Seq(T) /\ Len(new) = Len(seq) /\ DOMAIN new = DOMAIN seq
<1>1. DOMAIN seq = 1 .. Len(seq) /\ Len(seq) \in Nat
  BY LenProperties
<1>2. new \in [1 .. Len(seq) -> T] /\ DOMAIN new = DOMAIN seq
  BY <1>1
<1>3. new \in Seq(T)
  BY <1>1, <1>2, SeqDef
<1>4. DOMAIN new = 1 .. Len(new) /\ Len(new) \in Nat
  BY <1>3, LenProperties
<1>5. QED
  BY <1>1, <1>2, <1>3, <1>4

\* Two lists of handoffs with the same requests, and so the same ranks.
SameHandoffs(hs, hs2) ==
  /\ DOMAIN hs2 = DOMAIN hs
  /\ Len(hs2) = Len(hs)
  /\ \A k \in DOMAIN hs :
       hs2[k].request = hs[k].request /\ hs2[k].note = hs[k].note

(* They rank alike.                                                         *)
LEMMA SameRanks ==
  ASSUME NEW hs, NEW hs2, SameHandoffs(hs, hs2)
  PROVE  /\ \A k, l \in DOMAIN hs : Outranks(hs2, k, l) <=> Outranks(hs, k, l)
         /\ \A k \in DOMAIN hs : Eligible(hs2[k]) <=> Eligible(hs[k])
         /\ \A ids \in SUBSET DOMAIN hs :
              \A s : IsBest(hs2, ids, s) <=> IsBest(hs, ids, s)
<1>1. \A k, l \in DOMAIN hs : Outranks(hs2, k, l) <=> Outranks(hs, k, l)
  BY DEF SameHandoffs, Outranks
<1>2. \A k \in DOMAIN hs : Eligible(hs2[k]) <=> Eligible(hs[k])
  BY DEF SameHandoffs, Eligible
<1>3. QED
  BY <1>1, <1>2 DEF IsBest

\* What attach checks before it writes.
Takes(hs, n, i) ==
  /\ n # 0
  /\ i # 0
  /\ Eligible(hs[i])
  /\ hs[i].row \in {0, n}
  /\ ~\E j \in Shown(hs, n) \ {i} : Outranks(hs, j, i)

\* The outcome of attach: the rows and handoffs it leaves.
Attached(rs, hs, n, i, rs2, hs2) ==
  /\ Linked(rs2, hs2)
  /\ RowsShowBest(rs2, hs2)
  /\ SameHandoffs(hs, hs2)
  /\ Len(rs2) = Len(rs)
  /\ DOMAIN rs2 = DOMAIN rs
  /\ \A m \in DOMAIN rs : /\ rs2[m].status = rs[m].status
                          /\ rs2[m].asked = rs[m].asked
                          /\ m # n => rs2[m].summary = rs[m].summary
  /\ Pool(hs2, n) = Pool(hs, n)
  /\ Takes(hs, n, i) => rs2[n].summary = i
  /\ ~Takes(hs, n, i) => rs2 = rs /\ hs2 = hs

(* attach keeps the links and shows the best of the attached ones.          *)
LEMMA AttachFacts ==
  ASSUME NEW rs, NEW hs, Linked(rs, hs), RowsShowBest(rs, hs),
         run \in [Requests -> Runs],
         NEW n \in 0 .. Len(rs), NEW i \in 0 .. Len(hs),
         NEW rs2, NEW hs2,
         rs2 = Attach(rs, hs, n, i).rows, hs2 = Attach(rs, hs, n, i).handoffs
  PROVE  Attached(rs, hs, n, i, rs2, hs2)
<1>1. /\ DOMAIN rs = 1 .. Len(rs) /\ Len(rs) \in Nat
      /\ DOMAIN hs = 1 .. Len(hs) /\ Len(hs) \in Nat
  BY LenProperties DEF Linked
<1>2. CASE ~Takes(hs, n, i)
  <2>1. rs2 = rs /\ hs2 = hs
    BY <1>2 DEF Takes, Attach
  <2>2. QED
    BY <1>2, <2>1 DEF Attached, SameHandoffs
<1>3. CASE Takes(hs, n, i)
  <2>1. n \in DOMAIN rs /\ i \in DOMAIN hs
    BY <1>1, <1>3 DEF Takes
  <2>2. /\ rs2 = [rs EXCEPT ![n].summary = i]
        /\ hs2 = [hs EXCEPT ![i].row = n]
    BY <1>3 DEF Takes, Attach
  <2> DEFINE W ==
        /\ rs2 \in Seq(Row) /\ Len(rs2) = Len(rs) /\ DOMAIN rs2 = DOMAIN rs
        /\ hs2 \in Seq(Entry) /\ Len(hs2) = Len(hs) /\ DOMAIN hs2 = DOMAIN hs
        /\ rs2[n].summary = i /\ rs2[n].status = rs[n].status
        /\ rs2[n].asked = rs[n].asked
        /\ \A m \in DOMAIN rs \ {n} : rs2[m] = rs[m]
        /\ hs2[i].row = n /\ hs2[i].request = hs[i].request
        /\ hs2[i].note = hs[i].note
        /\ \A k \in DOMAIN hs \ {i} : hs2[k] = hs[k]
  <2>3. W
    <3>1. /\ rs \in Seq(Row) /\ hs \in Seq(Entry)
          /\ \A m \in DOMAIN rs : rs[m] \in Row
          /\ \A k \in DOMAIN hs : hs[k] \in Entry
      BY <1>1, ElementOfSeq DEF Linked
    <3>2. /\ rs2[n].summary = i /\ rs2[n].status = rs[n].status
          /\ rs2[n].asked = rs[n].asked /\ rs2[n] \in Row
      <4>1. rs2[n] = [rs[n] EXCEPT !.summary = i]
        BY <2>1, <2>2
      <4>2. rs[n] \in Row /\ i \in Nat
        BY <1>1, <2>1, <3>1
      <4>3. QED
        BY <4>1, <4>2 DEF Row
    <3>3. /\ hs2[i].row = n /\ hs2[i].request = hs[i].request
          /\ hs2[i].note = hs[i].note /\ hs2[i] \in Entry
      <4>1. hs2[i] = [hs[i] EXCEPT !.row = n]
        BY <2>1, <2>2
      <4>2. hs[i] \in Entry /\ n \in Nat
        BY <1>1, <2>1, <3>1
      <4>3. QED
        BY <4>1, <4>2 DEF Entry
    <3>4. /\ \A m \in DOMAIN rs \ {n} : rs2[m] = rs[m]
          /\ \A k \in DOMAIN hs \ {i} : hs2[k] = hs[k]
      BY <2>2
    <3>5. rs2 \in [DOMAIN rs -> Row] /\ hs2 \in [DOMAIN hs -> Entry]
      BY <2>2, <3>1, <3>2, <3>3, <3>4
    <3>6. /\ rs2 \in Seq(Row) /\ Len(rs2) = Len(rs) /\ DOMAIN rs2 = DOMAIN rs
          /\ hs2 \in Seq(Entry) /\ Len(hs2) = Len(hs) /\ DOMAIN hs2 = DOMAIN hs
      BY <3>1, <3>5, SameLength
    <3>7. QED
      BY <3>2, <3>3, <3>4, <3>6
  <2>4. SameHandoffs(hs, hs2)
    BY <2>3 DEF SameHandoffs
  <2>5. Linked(rs2, hs2)
    <3>1. \A m \in DOMAIN rs2 : rs2[m].summary <= Len(hs2)
      BY <1>1, <2>1, <2>3 DEF Linked
    <3>2. \A k \in DOMAIN hs2 : hs2[k].row <= Len(rs2)
      BY <1>1, <2>1, <2>3 DEF Linked
    <3>3. QED
      BY <2>3, <3>1, <3>2 DEF Linked
  <2>6. Shown(hs2, n) = Shown(hs, n) \cup {i}
    BY <2>1, <2>3 DEF Shown
  <2>7. \A m \in DOMAIN rs \ {n} : Shown(hs2, m) = Shown(hs, m)
    <3>1. \A m \in DOMAIN rs \ {n} : hs[i].row # m
      BY <1>1, <1>3 DEF Takes
    <3>2. QED
      BY <2>1, <2>3, <3>1 DEF Shown
  <2>8. Pool(hs2, n) = Pool(hs, n)
    <3>1. \A k \in DOMAIN hs : Eligible(hs2[k]) <=> Eligible(hs[k])
      BY <2>4, SameRanks
    <3>2. hs[i].row \in {0, n}
      BY <1>3 DEF Takes
    <3>3. \A k \in DOMAIN hs : hs2[k].row \in {0, n} <=> hs[k].row \in {0, n}
      BY <2>3, <3>2
    <3>4. QED
      BY <2>3, <3>1, <3>3 DEF Pool
  <2>9. \A j \in Shown(hs, n) \ {i} : Outranks(hs, i, j)
    <3>1. Ranked(hs)
      BY DEF Ranked, Linked
    <3>2. Shown(hs, n) \subseteq DOMAIN hs
      BY DEF Shown
    <3>3. QED
      BY <1>3, <2>1, <3>1, <3>2, RankTotal DEF Takes
  <2>10. RowsShowBest(rs2, hs2)
    <3> SUFFICES ASSUME NEW m \in DOMAIN rs
                 PROVE  /\ IsBest(hs2, Shown(hs2, m), rs2[m].summary)
                        /\ \A k \in Shown(hs2, m) : Eligible(hs2[k])
      BY <2>3 DEF RowsShowBest
    <3>1. CASE m = n
      <4>1. IsBest(hs, Shown(hs, n) \cup {i}, i)
        BY <2>9 DEF IsBest
      <4>2. Shown(hs, n) \cup {i} \subseteq DOMAIN hs
        BY <2>1 DEF Shown
      <4>3. IsBest(hs2, Shown(hs2, n), i)
        BY <2>4, <2>6, <4>1, <4>2, SameRanks
      <4>4. \A k \in Shown(hs2, n) : Eligible(hs[k])
        BY <1>3, <2>1, <2>6, <3>1 DEF RowsShowBest, Takes
      <4>5. \A k \in Shown(hs2, n) : Eligible(hs2[k])
        BY <2>4, <2>6, <4>2, <4>4, SameRanks
      <4>6. QED
        BY <2>3, <3>1, <4>3, <4>5
    <3>2. CASE m # n
      <4>1. Shown(hs2, m) = Shown(hs, m) /\ rs2[m] = rs[m]
        BY <2>3, <2>7, <3>2
      <4>2. Shown(hs, m) \subseteq DOMAIN hs
        BY DEF Shown
      <4>3. IsBest(hs2, Shown(hs2, m), rs2[m].summary)
        BY <2>4, <4>1, <4>2, SameRanks DEF RowsShowBest
      <4>4. \A k \in Shown(hs2, m) : Eligible(hs2[k])
        BY <2>4, <4>1, <4>2, SameRanks DEF RowsShowBest
      <4>5. QED
        BY <4>3, <4>4
    <3>3. QED
      BY <3>1, <3>2
  <2>11. \A m \in DOMAIN rs : /\ rs2[m].status = rs[m].status
                              /\ rs2[m].asked = rs[m].asked
                              /\ m # n => rs2[m].summary = rs[m].summary
    BY <2>3
  <2>12. QED
    BY <1>3, <2>3, <2>4, <2>5, <2>8, <2>10, <2>11 DEF Attached
<1>4. QED
  BY <1>2, <1>3

(* Where the handoff is the best of the pool, the row shows it afterwards;  *)
(* an empty pool leaves a row that shows nothing.                           *)
LEMMA AttachBest ==
  ASSUME NEW rs, NEW hs, Linked(rs, hs), RowsShowBest(rs, hs),
         run \in [Requests -> Runs],
         NEW n \in DOMAIN rs, NEW i, IsBest(hs, Pool(hs, n), i),
         NEW rs2, NEW hs2, Attached(rs, hs, n, i, rs2, hs2)
  PROVE  IsBest(hs2, Pool(hs2, n), rs2[n].summary)
<1>1. DOMAIN rs = 1 .. Len(rs) /\ DOMAIN hs = 1 .. Len(hs)
  BY LenProperties DEF Linked
<1>2. Pool(hs, n) \subseteq DOMAIN hs /\ Shown(hs, n) \subseteq Pool(hs, n)
  BY DEF Pool, Shown, RowsShowBest
<1>3. IsBest(hs2, Pool(hs2, n), i)
  BY <1>2, SameRanks DEF Attached
<1>4. CASE Takes(hs, n, i)
  BY <1>3, <1>4 DEF Attached
<1>5. CASE ~Takes(hs, n, i)
  <2>1. CASE i = 0 /\ Pool(hs, n) = {}
    <3>1. rs[n].summary = 0
      BY <1>2, <2>1 DEF RowsShowBest, IsBest
    <3>2. QED
      BY <1>3, <1>5, <2>1, <3>1 DEF Attached
  <2>2. CASE i \in Pool(hs, n) /\ \A j \in Pool(hs, n) \ {i} : Outranks(hs, i, j)
    <3>1. n # 0 /\ i # 0 /\ Eligible(hs[i]) /\ hs[i].row \in {0, n}
      BY <1>1, <2>2 DEF Pool, Linked
    <3>2. Ranked(hs)
      BY DEF Ranked, Linked
    <3>3. ASSUME NEW j \in Shown(hs, n) \ {i}
          PROVE  ~Outranks(hs, j, i)
      BY <1>2, <2>2, <3>2, RankTotal
    <3>4. QED
      BY <1>5, <3>1, <3>3 DEF Takes
  <2>3. QED
    BY <2>1, <2>2 DEF IsBest
<1>6. QED
  BY <1>4, <1>5

-----------------------------------------------------------------------------
(* Rows that grow without a handoff being attached. *)

\* The rows keep their summaries, and a new one shows nothing.
Grown(rs) ==
  /\ rs \in Seq(Row)
  /\ Len(rows) <= Len(rs)
  /\ \A n \in DOMAIN rows : rs[n].summary = rows[n].summary
  /\ \A n \in DOMAIN rs \ DOMAIN rows : rs[n].summary = 0

(* Such rows still show the best of what is attached to them.               *)
LEMMA GrownFacts ==
  ASSUME IInv, NEW rs, Grown(rs)
  PROVE  Linked(rs, handoffs) /\ RowsShowBest(rs, handoffs)
<1> USE DEF IInv, Projected
<1>1. /\ DOMAIN rows = 1 .. Len(rows) /\ Len(rows) \in Nat
      /\ DOMAIN rs = 1 .. Len(rs) /\ Len(rs) \in Nat
      /\ DOMAIN handoffs = 1 .. Len(handoffs) /\ Len(handoffs) \in Nat
      /\ \A i \in DOMAIN handoffs : handoffs[i].row \in Nat
  <2>1. \A i \in 1 .. Len(handoffs) : handoffs[i] \in Entry
    BY ElementOfSeq DEF Linked
  <2>2. QED
    BY <2>1, LenProperties DEF Linked, Grown, Entry
<1>2. Linked(rs, handoffs)
  BY <1>1 DEF Linked, Grown
<1>3. ASSUME NEW n \in DOMAIN rs \ DOMAIN rows
      PROVE  Shown(handoffs, n) = {} /\ rs[n].summary = 0
  BY <1>1, <1>3 DEF Shown, Linked, Grown
<1>4. RowsShowBest(rs, handoffs)
  <2> SUFFICES ASSUME NEW n \in DOMAIN rs
               PROVE  /\ IsBest(handoffs, Shown(handoffs, n), rs[n].summary)
                      /\ \A i \in Shown(handoffs, n) : Eligible(handoffs[i])
    BY DEF RowsShowBest
  <2>1. CASE n \in DOMAIN rows
    BY <2>1 DEF RowsShowBest, Grown
  <2>2. CASE n \notin DOMAIN rows
    BY <1>3, <2>2 DEF IsBest
  <2>3. QED
    BY <2>1, <2>2
<1>5. QED
  BY <1>2, <1>4

\* The run of a stored handoff keeps its rank and stays finished.
RanksKept ==
  \A i \in DOMAIN handoffs :
    LET q == handoffs[i].request
    IN  /\ run'[q].version = run[q].version
        /\ run'[q].done = run[q].done
        /\ run'[q].status \in Valid \cup Invalid

\* No summary is taken away or replaced by one from earlier answers.
Upgraded ==
  \A n \in DOMAIN rows :
    LET old == rows[n].summary
        new == rows'[n].summary
    IN  old # 0 =>
          /\ new # 0
          /\ run[handoffs'[new].request].version
               >= run[handoffs[old].request].version

\* What every step is shown to do.
GoodStep == IInv' /\ Upgraded

(* The summary of a row names a stored handoff with a typed run.            *)
LEMMA SummaryTyped ==
  ASSUME IInv, NEW n \in DOMAIN rows, rows[n].summary # 0
  PROVE  /\ rows[n].summary \in DOMAIN handoffs
         /\ rows[n].summary \in Shown(handoffs, n)
         /\ run[handoffs[rows[n].summary].request].version \in Nat
<1>1. IsBest(handoffs, Shown(handoffs, n), rows[n].summary)
  BY DEF IInv, Projected, RowsShowBest
<1>2. /\ rows[n].summary \in Shown(handoffs, n)
      /\ rows[n].summary \in DOMAIN handoffs
  BY <1>1 DEF IsBest, Shown
<1>3. Ranked(handoffs)
  BY DEF Ranked, IInv, Scalars, Projected, Linked
<1>4. run[handoffs[rows[n].summary].request].version \in 0 .. MaxVersion
  BY <1>2, <1>3, RankTypes
<1>5. QED
  BY <1>2, <1>4, HandoffAssumption

(* A step that stores and attaches nothing.                                 *)
LEMMA KeptStep ==
  ASSUME IInv, handoffs' = handoffs, Grown(rows'), RanksKept,
         Scalars', DoneBehindClock', DeliveredIsStored', OnlyLastOpen',
         \A n \in DOMAIN rows' :
           rows'[n].asked /\ rows'[n].status \in OpenRow =>
             n \in DOMAIN rows /\ rows[n].asked /\ rows[n].status \in OpenRow
  PROVE  GoodStep
<1> USE DEF IInv, Projected, Ledger
<1>1. \A k, l \in DOMAIN handoffs :
        Outranks(handoffs, k, l)' <=> Outranks(handoffs, k, l)
  BY DEF RanksKept, Outranks
<1>2. \A ids \in SUBSET DOMAIN handoffs :
        \A s : IsBest(handoffs, ids, s)' <=> IsBest(handoffs, ids, s)
  BY <1>1 DEF IsBest
<1>3. Linked(rows', handoffs) /\ RowsShowBest(rows', handoffs)
  BY GrownFacts
<1>4. Linked(rows, handoffs)'
  BY <1>3 DEF Linked
<1>5. RowsShowBest(rows, handoffs)'
  <2>1. \A n : Shown(handoffs, n) \in SUBSET DOMAIN handoffs
    BY DEF Shown
  <2>2. \A n \in DOMAIN rows' : \A s : s = rows'[n].summary =>
          IsBest(handoffs, Shown(handoffs, n), s)'
    <3> SUFFICES ASSUME NEW n \in DOMAIN rows'
                 PROVE  \A s : s = rows'[n].summary =>
                          IsBest(handoffs, Shown(handoffs, n), s)'
      OBVIOUS
    <3>1. IsBest(handoffs, Shown(handoffs, n), rows'[n].summary)
      BY <1>3 DEF RowsShowBest
    <3>2. \A s : IsBest(handoffs, Shown(handoffs, n), s)
                 => IsBest(handoffs, Shown(handoffs, n), s)'
      BY <1>2, <2>1 DEF Shown
    <3>3. QED
      BY <3>1, <3>2
  <2>3. \A n \in DOMAIN rows' : \A i \in Shown(handoffs, n) : Eligible(handoffs[i])
    BY <1>3 DEF RowsShowBest
  <2>4. QED
    BY <2>2, <2>3 DEF RowsShowBest, Shown
<1>6. OpenShowsBest(rows, handoffs)'
  <2>1. \A n : Pool(handoffs, n) \in SUBSET DOMAIN handoffs
    BY DEF Pool
  <2> SUFFICES ASSUME NEW n \in DOMAIN rows',
                      rows'[n].asked /\ rows'[n].status \in OpenRow
               PROVE  IsBest(handoffs, Pool(handoffs, n), rows[n].summary)'
    BY DEF OpenShowsBest, OpenRow
  <2>2. IsBest(handoffs, Pool(handoffs, n), rows[n].summary)
    BY DEF OpenShowsBest
  <2>3. rows'[n].summary = rows[n].summary
    BY DEF Grown
  <2>4. QED
    BY <1>2, <2>1, <2>2, <2>3 DEF Pool
<1>7. StoredAreReady' /\ RequestsDiffer'
  BY DEF StoredAreReady, RequestsDiffer, RanksKept, Ready
<1>8. IInv'
  BY <1>4, <1>5, <1>6, <1>7
<1>9. Upgraded
  <2> SUFFICES ASSUME NEW n \in DOMAIN rows, rows[n].summary # 0
               PROVE  /\ rows'[n].summary # 0
                      /\ run[handoffs'[rows'[n].summary].request].version
                           >= run[handoffs[rows[n].summary].request].version
    BY DEF Upgraded
  <2>1. rows'[n].summary = rows[n].summary
    BY DEF Grown
  <2>2. run[handoffs[rows[n].summary].request].version \in Nat
    BY SummaryTyped
  <2>3. QED
    BY <2>1, <2>2
<1>10. QED
  BY <1>8, <1>9 DEF GoodStep

(* A step that leaves the rows alone as well.                               *)
LEMMA QuietStep ==
  ASSUME IInv, handoffs' = handoffs, rows' = rows, RanksKept,
         Scalars', DoneBehindClock', DeliveredIsStored', OnlyLastOpen'
  PROVE  GoodStep
<1>1. Grown(rows')
  <2>1. rows \in Seq(Row) /\ Len(rows) \in Nat
    BY LenProperties DEF IInv, Projected, Linked
  <2>2. QED
    BY <2>1 DEF Grown
<1>2. QED
  BY <1>1, KeptStep

-----------------------------------------------------------------------------
(* The inquiry's moves. *)

(* What resolve and apply_state_transition do together.                     *)
LEMMA TransitFacts ==
  ASSUME Scalars, NEW e, Transit(e)
  PROVE  /\ e \in EventCodes
         /\ status' \in InquiryStates
         /\ version' \in 1 .. MaxVersion
         /\ e \notin {"CONSULTATION_COMPLETED", "UPDATE_CONSULTATION_SUMMARY",
                      "CONFIRM_CONSULTATION_SUMMARY", "VISIT_REVIEW_REQUIRED",
                      "CANCEL_INQUIRY"} =>
              status # "CONSULTATION_IN_PROGRESS"
         /\ e = "START_CONSULTATION" => status' = "CONSULTATION_IN_PROGRESS"
<1>1. PICK rule \in Plan(e, status, NONE) :
        version < MaxVersion /\ status' = rule.to /\ version' = NextVersion(version)
  BY DEF Transit
<1>2. rule \in Rules /\ rule.event = e /\ rule.from = status
  BY <1>1 DEF Plan, Candidates, StateCandidates
<1>3. version' \in 1 .. MaxVersion
  BY <1>1, HandoffAssumption DEF Scalars, NextVersion
<1>4. /\ rule.to \in InquiryStates
      /\ rule.event \notin {"CONSULTATION_COMPLETED", "UPDATE_CONSULTATION_SUMMARY",
                            "CONFIRM_CONSULTATION_SUMMARY", "VISIT_REVIEW_REQUIRED",
                            "CANCEL_INQUIRY"} =>
           rule.from # "CONSULTATION_IN_PROGRESS"
      /\ rule.event = "START_CONSULTATION" => rule.to = "CONSULTATION_IN_PROGRESS"
  BY <1>2 DEF Rules, Absent, Preserve, Moves, Rule, InquiryStates, NONE
<1>5. QED
  BY <1>1, <1>2, <1>3, <1>4 DEF EventCodes

\* The events that this model applies outside a consultation.
OutsideEvents ==
  {"SUBMIT_ANSWERS", "CUSTOMER_REPORTED_UNRESOLVED", "REQUEST_CONSULTATION",
   "RESUME_CONSULTATION", "NO_EVIDENCE", "AI_PROCESSING_TIMEOUT",
   "DANGER_DETECTED", "SAFE_GUIDANCE_READY", "HUMAN_REVIEW_REJECTED"}

(* Such an event finds no consultation in progress.                         *)
LEMMA OutsideFacts ==
  ASSUME Scalars, OnlyLastOpen, NEW e \in OutsideEvents \cup {"START_CONSULTATION"},
         Transit(e)
  PROVE  \A n \in DOMAIN rows : rows[n].status # "IN_PROGRESS"
BY TransitFacts DEF OutsideEvents, OnlyLastOpen

(* Nor does it bring one about.                                             *)
LEMMA OutsideKeeps ==
  ASSUME Scalars, OnlyLastOpen, NEW e \in OutsideEvents, Transit(e), rows' = rows
  PROVE  OnlyLastOpen'
BY OutsideFacts DEF OnlyLastOpen

(* Nothing but the inquiry's own row changes.                               *)
LEMMA InquiryStep ==
  ASSUME IInv, NEW e \in OutsideEvents, Transit(e),
         UNCHANGED <<rows, run, clock, applied, review, note, post, handoffs>>
  PROVE  GoodStep
<1> USE DEF IInv, Ledger
<1>1. Scalars'
  BY TransitFacts DEF Scalars
<1>2. OnlyLastOpen'
  BY OutsideKeeps
<1>3. RanksKept /\ DoneBehindClock' /\ DeliveredIsStored'
  BY DEF RanksKept, StoredAreReady, Ready, DoneBehindClock, DeliveredIsStored
<1>4. QED
  BY <1>1, <1>2, <1>3, QuietStep

-----------------------------------------------------------------------------
(* The runs and the posts. *)

(* A step that changes only the run of q, which may not be stored yet or is *)
(* finished and stays so with its rank.                                     *)
LEMMA OneRunKeepsRanks ==
  ASSUME IInv, NEW q \in Requests,
         \A p \in Requests \ {q} : run'[p] = run[p],
         \/ ~Ready(q)
         \/ /\ run'[q].version = run[q].version
            /\ run'[q].done = run[q].done
            /\ run'[q].status \in Valid \cup Invalid
  PROVE  RanksKept
<1>1. \A i \in DOMAIN handoffs : /\ handoffs[i].request \in Requests
                                 /\ Ready(handoffs[i].request)
  <2>1. \A i \in DOMAIN handoffs : handoffs[i] \in Entry
    BY ElementOfSeq, LenProperties DEF IInv, Projected, Linked
  <2>2. QED
    BY <2>1 DEF Entry, IInv, Ledger, StoredAreReady
<1>2. QED
  BY <1>1 DEF RanksKept, Ready

(* The callback creates the run; the AI service answers; the run is settled.*)
LEMMA RunStep ==
  ASSUME IInv, NEW q \in Requests,
         \/ StartRun(q) \/ MarkSucceeded(q) \/ MarkFailed(q)
         \/ \E a \in Answers : AIAnswers(q, a)
  PROVE  GoodStep
<1> USE DEF IInv, Ledger
<1>1. CASE StartRun(q)
  <2> USE <1>1 DEF StartRun, inquiry
  <2>1. run' \in [Requests -> Runs]
    <3> DEFINE mid == [run EXCEPT ![q].status = "RUNNING"]
    <3>1. run[q] \in Runs /\ run \in [Requests -> Runs] /\ version \in 0 .. MaxVersion
      BY HandoffAssumption DEF Scalars
    <3>2. run' = [mid EXCEPT ![q].version = version]
      OBVIOUS
    <3>3. mid \in [Requests -> Runs]
      <4>1. [run[q] EXCEPT !.status = "RUNNING"] \in Runs
        BY <3>1 DEF Runs
      <4>2. QED
        BY <3>1, <4>1
    <3> HIDE DEF mid
    <3>4. mid[q] \in Runs
      BY <3>3
    <3>5. [mid[q] EXCEPT !.version = version] \in Runs
      BY <3>1, <3>4 DEF Runs
    <3>6. QED
      BY <3>1, <3>2, <3>3, <3>5
  <2>2. Scalars'
    BY <2>1 DEF Scalars
  <2>3. RanksKept
    BY OneRunKeepsRanks DEF Scalars, Ready, Valid, Invalid, NONE
  <2>4. DoneBehindClock' /\ DeliveredIsStored' /\ OnlyLastOpen'
    BY DEF DoneBehindClock, DeliveredIsStored, OnlyLastOpen, Scalars, Runs
  <2>5. QED
    BY <2>2, <2>3, <2>4, QuietStep
<1>2. CASE MarkSucceeded(q)
  <2> USE <1>2 DEF MarkSucceeded, inquiry
  <2>1. run' \in [Requests -> Runs] /\ clock' \in Nat
    <3> DEFINE mid == [run EXCEPT ![q].status = "PERSISTING"]
    <3>1. run[q] \in Runs /\ run \in [Requests -> Runs] /\ clock + 1 \in Nat
      BY HandoffAssumption DEF Scalars
    <3>2. run' = [mid EXCEPT ![q].done = clock + 1]
      OBVIOUS
    <3>3. mid \in [Requests -> Runs]
      <4>1. [run[q] EXCEPT !.status = "PERSISTING"] \in Runs
        BY <3>1 DEF Runs, Valid
      <4>2. QED
        BY <3>1, <4>1
    <3> HIDE DEF mid
    <3>4. mid[q] \in Runs
      BY <3>3
    <3>5. [mid[q] EXCEPT !.done = clock + 1] \in Runs
      BY <3>1, <3>4 DEF Runs
    <3>6. QED
      BY <3>1, <3>2, <3>3, <3>5
  <2>2. Scalars'
    BY <2>1 DEF Scalars
  <2>3. RanksKept
    BY OneRunKeepsRanks DEF Scalars, Ready, Valid, Invalid
  <2>4. DoneBehindClock'
    BY DEF DoneBehindClock, Scalars, Runs
  <2>5. DeliveredIsStored' /\ OnlyLastOpen'
    BY DEF DeliveredIsStored, OnlyLastOpen
  <2>6. QED
    BY <2>2, <2>3, <2>4, <2>5, QuietStep
<1>3. CASE MarkFailed(q)
  <2> USE <1>3 DEF MarkFailed, inquiry
  <2>1. run' \in [Requests -> Runs] /\ clock' \in Nat
    <3> DEFINE mid == [run EXCEPT ![q].status = "FAILING"]
    <3>1. run[q] \in Runs /\ run \in [Requests -> Runs] /\ clock + 1 \in Nat
      BY HandoffAssumption DEF Scalars
    <3>2. run' = [mid EXCEPT ![q].done = clock + 1]
      OBVIOUS
    <3>3. mid \in [Requests -> Runs]
      <4>1. [run[q] EXCEPT !.status = "FAILING"] \in Runs
        BY <3>1 DEF Runs, Invalid
      <4>2. QED
        BY <3>1, <4>1
    <3> HIDE DEF mid
    <3>4. mid[q] \in Runs
      BY <3>3
    <3>5. [mid[q] EXCEPT !.done = clock + 1] \in Runs
      BY <3>1, <3>4 DEF Runs
    <3>6. QED
      BY <3>1, <3>2, <3>3, <3>5
  <2>2. Scalars'
    BY <2>1 DEF Scalars
  <2>3. RanksKept
    BY OneRunKeepsRanks DEF Scalars, Ready, Valid, Invalid
  <2>4. DoneBehindClock'
    BY DEF DoneBehindClock, Scalars, Runs
  <2>5. DeliveredIsStored' /\ OnlyLastOpen'
    BY DEF DeliveredIsStored, OnlyLastOpen
  <2>6. QED
    BY <2>2, <2>3, <2>4, <2>5, QuietStep
<1>4. ASSUME NEW a \in Answers, AIAnswers(q, a)
      PROVE  GoodStep
  <2> USE <1>4 DEF AIAnswers, inquiry
  <2>1. /\ run' \in [Requests -> Runs]
        /\ note' \in [Requests -> Notes]
        /\ post' \in [Requests -> Posts]
    <3>1. a.result \in ResultCodes /\ a.note \in Notes
      BY DEF ResultCodes, Notes
    <3>2. run' \in [Requests -> Runs]
      <4>1. run[q] \in Runs
        BY DEF Scalars
      <4>2. run' = [run EXCEPT ![q] = [run[q] EXCEPT !.result = a.result]]
        OBVIOUS
      <4>3. [run[q] EXCEPT !.result = a.result] \in Runs
        BY <3>1, <4>1 DEF Runs
      <4>4. QED
        BY <4>2, <4>3 DEF Scalars
    <3>3. note' \in [Requests -> Notes] /\ post' \in [Requests -> Posts]
      <4>1. NONE \in Posts /\ "first" \in Posts
        BY DEF Posts
      <4>2. QED
        BY <3>1, <4>1 DEF Scalars
    <3>4. QED
      BY <3>2, <3>3
  <2>2. Scalars'
    BY <2>1 DEF Scalars
  <2>3. RanksKept
    <3>1. /\ run'[q].version = run[q].version /\ run'[q].done = run[q].done
          /\ run'[q].status = run[q].status
          /\ \A p \in Requests \ {q} : run'[p] = run[p]
      BY DEF Scalars, Runs
    <3>2. QED
      BY <3>1, OneRunKeepsRanks DEF Ready
  <2>4. DoneBehindClock'
    BY DEF DoneBehindClock, Scalars, Runs
  <2>5. DeliveredIsStored' /\ OnlyLastOpen'
    BY DEF DeliveredIsStored, OnlyLastOpen, Scalars, NONE
  <2>6. QED
    BY <2>2, <2>3, <2>4, <2>5, QuietStep
<1>5. QED
  BY <1>1, <1>2, <1>3, <1>4

(* A step of the publisher that stores nothing.                             *)
LEMMA PostStep ==
  ASSUME IInv, NEW q \in Requests,
         \/ ResumeReview(q) \/ PostLost(q) \/ Replay(q) \/ NotReady(q)
         \/ Stale(q)
  PROVE  GoodStep
<1> USE DEF IInv, Ledger, inquiry
<1>1. /\ UNCHANGED <<status, version, rows, run, clock, applied, review, handoffs>>
      /\ note' \in [Requests -> Notes]
      /\ post' \in [Requests -> Posts]
      /\ \A p \in Requests : p # q => post'[p] = post[p]
      /\ post'[q] = "DELIVERED" => Existing(q) # {}
  <2>1. UNCHANGED <<status, version, rows, run, clock, applied, review, handoffs>>
    BY DEF ResumeReview, PostLost, Replay, NotReady, Stale
  <2>2. CASE ResumeReview(q)
    BY <2>1, <2>2 DEF ResumeReview, Scalars, Notes, Posts
  <2>3. CASE Retry(q) /\ UNCHANGED note
    BY <2>1, <2>3 DEF Retry, Scalars, Posts
  <2>4. CASE /\ UNCHANGED note /\ Existing(q) # {}
             /\ post' = [post EXCEPT ![q] = "DELIVERED"]
    BY <2>1, <2>4 DEF Scalars, Posts
  <2>5. CASE Stale(q)
    BY <2>1, <2>5 DEF Stale, Scalars, Posts
  <2>6. QED
    BY <2>2, <2>3, <2>4, <2>5 DEF PostLost, Replay, NotReady, Accepted
<1>2. Scalars'
  BY <1>1 DEF Scalars
<1>3. RanksKept /\ DoneBehindClock' /\ OnlyLastOpen'
  BY <1>1 DEF RanksKept, StoredAreReady, Ready, DoneBehindClock, OnlyLastOpen
<1>4. DeliveredIsStored'
  <2>1. Existing(q) # {} => \E i \in DOMAIN handoffs : handoffs[i].request = q
    BY DEF Existing
  <2>2. QED
    BY <1>1, <2>1 DEF DeliveredIsStored
<1>5. QED
  BY <1>1, <1>2, <1>3, <1>4, QuietStep

(* A settled run keeps its rank when its event is applied.                  *)
LEMMA SettleFacts ==
  ASSUME IInv, NEW q \in Requests, run[q].status \in Valid \cup Invalid,
         NEW st \in Valid \cup Invalid,
         run' = [run EXCEPT ![q].status = st]
  PROVE  /\ run' \in [Requests -> Runs]
         /\ RanksKept
         /\ clock' = clock => DoneBehindClock'
<1>1. run[q] \in Runs /\ run \in [Requests -> Runs]
  BY DEF IInv, Scalars
<1>2. [run[q] EXCEPT !.status = st] \in Runs
  BY <1>1 DEF Runs
<1>3. run' \in [Requests -> Runs]
  BY <1>1, <1>2
<1>4. /\ run'[q].version = run[q].version
      /\ run'[q].done = run[q].done
      /\ run'[q].status = st
      /\ \A p \in Requests \ {q} : run'[p] = run[p]
  BY <1>1 DEF Runs
<1>5. RanksKept
  BY <1>4, OneRunKeepsRanks
<1>6. clock' = clock => DoneBehindClock'
  BY <1>4 DEF IInv, Ledger, DoneBehindClock
<1>7. QED
  BY <1>3, <1>5, <1>6

(* The failure of a run is applied, or found out of date.                   *)
LEMMA ApplyFailureStep ==
  ASSUME IInv, NEW q \in Requests, ApplyFailure(q)
  PROVE  GoodStep
<1>1. /\ run' = [run EXCEPT ![q].status = "FAILED"]
      /\ run[q].status \in Valid \cup Invalid
      /\ UNCHANGED <<rows, clock, review, note, post, handoffs>>
  BY DEF ApplyFailure, Invalid
<1>2. run' \in [Requests -> Runs] /\ RanksKept /\ DoneBehindClock'
  <2>1. "FAILED" \in Valid \cup Invalid
    BY DEF Invalid
  <2>2. QED
    BY <1>1, <2>1, SettleFacts
<1>3. DeliveredIsStored'
  BY <1>1 DEF IInv, Ledger, DeliveredIsStored
<1>4. CASE UNCHANGED <<inquiry, applied>>
  <2>1. Scalars' /\ OnlyLastOpen'
    BY <1>1, <1>2, <1>4 DEF IInv, Scalars, OnlyLastOpen, inquiry
  <2>2. QED
    BY <1>1, <1>2, <1>3, <2>1, QuietStep
<1>5. ASSUME NEW e \in {"NO_EVIDENCE", "AI_PROCESSING_TIMEOUT"}, Transit(e),
             applied' = [applied EXCEPT ![q] = e]
      PROVE  GoodStep
  <2>1. Scalars /\ OnlyLastOpen /\ e \in OutsideEvents
    BY <1>5 DEF IInv, OutsideEvents
  <2>2. /\ e \in EventCodes
        /\ status' \in InquiryStates
        /\ version' \in 1 .. MaxVersion
    BY <1>5, <2>1, TransitFacts
  <2>3. Scalars'
    BY <1>1, <1>2, <1>5, <2>1, <2>2 DEF Scalars
  <2>4. OnlyLastOpen'
    BY <1>1, <1>5, <2>1, OutsideKeeps
  <2>5. QED
    BY <1>1, <1>2, <1>3, <2>3, <2>4, QuietStep
<1>6. QED
  BY <1>4, <1>5 DEF ApplyFailure

-----------------------------------------------------------------------------
(* Consultations that are requested, started and completed. *)

(* request keeps the rows there are and returns one that waits, after       *)
(* completed ones.                                                          *)
LEMMA RequestedFacts ==
  ASSUME IInv, \A n \in DOMAIN rows : rows[n].status # "IN_PROGRESS"
  PROVE  /\ Requested \in Seq(Row)
         /\ Len(Requested) \in Nat \ {0}
         /\ Len(rows) <= Len(Requested)
         /\ DOMAIN Requested = 1 .. Len(Requested)
         /\ \A n \in DOMAIN rows : n \in DOMAIN Requested /\ Requested[n] = rows[n]
         /\ \A n \in DOMAIN Requested \ DOMAIN rows :
              Requested[n].summary = 0 /\ Requested[n].asked = FALSE
         /\ Requested[Len(Requested)].status = "WAITING"
         /\ \A n \in DOMAIN Requested :
              n < Len(Requested) => Requested[n].status = "COMPLETED"
<1>1. /\ rows \in Seq(Row) /\ DOMAIN rows = 1 .. Len(rows) /\ Len(rows) \in Nat
      /\ \A n \in DOMAIN rows : rows[n] \in Row
  BY LenProperties, ElementOfSeq DEF IInv, Projected, Linked
<1>2. \A n \in DOMAIN rows : n < Len(rows) => rows[n].status = "COMPLETED"
  BY DEF IInv, OnlyLastOpen
<1>3. CASE rows # << >> /\ rows[Len(rows)].status = "WAITING"
  <2>1. Requested = rows
    BY <1>3 DEF Requested
  <2>2. Len(rows) # 0
    BY <1>1, <1>3, EmptySeq
  <2>3. QED
    BY <1>1, <1>2, <1>3, <2>1, <2>2
<1>4. CASE ~(rows # << >> /\ rows[Len(rows)].status = "WAITING")
  <2> DEFINE new == [status |-> "WAITING", asked |-> FALSE, summary |-> 0]
  <2>1. Requested = Append(rows, new)
    BY <1>4 DEF Requested
  <2>2. new \in Row /\ new.status = "WAITING" /\ new.asked = FALSE /\ new.summary = 0
    BY DEF Row, OpenRow
  <2> HIDE DEF new
  <2>3. /\ Append(rows, new) \in Seq(Row)
        /\ Len(Append(rows, new)) = Len(rows) + 1
        /\ \A n \in 1 .. Len(rows) : Append(rows, new)[n] = rows[n]
        /\ Append(rows, new)[Len(rows) + 1] = new
    BY <1>1, <2>2, AppendProperties
  <2>4. DOMAIN Requested = 1 .. Len(rows) + 1 /\ Len(Requested) = Len(rows) + 1
    BY <2>1, <2>3, LenProperties
  <2>5. \A n \in DOMAIN rows : rows[n].status = "COMPLETED"
    <3>1. ASSUME rows # << >>
          PROVE  rows[Len(rows)].status = "COMPLETED"
      <4>1. Len(rows) \in DOMAIN rows
        BY <1>1, <3>1, EmptySeq
      <4>2. rows[Len(rows)] \in Row /\ rows[Len(rows)].status \notin {"WAITING", "IN_PROGRESS"}
        BY <1>1, <1>4, <3>1, <4>1
      <4>3. QED
        BY <4>2 DEF Row, OpenRow
    <3>2. rows = << >> => DOMAIN rows = {}
      OBVIOUS
    <3>3. QED
      BY <1>1, <1>2, <3>1, <3>2
  <2>6. DOMAIN Requested \ DOMAIN rows = {Len(rows) + 1}
    BY <1>1, <2>4
  <2>7. \A n \in DOMAIN Requested : n < Len(Requested) => n \in DOMAIN rows
    BY <1>1, <2>4
  <2>8. QED
    BY <1>1, <2>1, <2>2, <2>3, <2>4, <2>5, <2>6, <2>7
<1>5. QED
  BY <1>3, <1>4

(* request alone leaves the summaries as they are.                          *)
LEMMA RequestOnlyFacts ==
  ASSUME IInv, NEW e \in OutsideEvents, Transit(e), RequestOnly
  PROVE  /\ Len(rows') <= MaxRows
         /\ handoffs' = handoffs
         /\ Grown(rows')
         /\ OnlyLastOpen'
         /\ \A n \in DOMAIN rows' :
              rows'[n].asked /\ rows'[n].status \in OpenRow =>
                n \in DOMAIN rows /\ rows[n].asked /\ rows[n].status \in OpenRow
<1>1. \A n \in DOMAIN rows : rows[n].status # "IN_PROGRESS"
  BY OutsideFacts DEF IInv
<1>2. rows' = Requested /\ Len(Requested) <= MaxRows /\ handoffs' = handoffs
  BY DEF RequestOnly
<1>3. Grown(rows')
  BY <1>1, <1>2, RequestedFacts DEF Grown
<1>4. \A n \in DOMAIN rows' :
        /\ n < Len(rows') => rows'[n].status = "COMPLETED"
        /\ rows'[n].status # "IN_PROGRESS"
  <2>1. \A n \in DOMAIN rows' : n < Len(rows') \/ n = Len(rows')
    BY <1>1, <1>2, RequestedFacts
  <2>2. QED
    BY <1>1, <1>2, <2>1, RequestedFacts
<1>5. OnlyLastOpen'
  BY <1>4 DEF OnlyLastOpen
<1>6. ASSUME NEW n \in DOMAIN rows', rows'[n].asked /\ rows'[n].status \in OpenRow
      PROVE  n \in DOMAIN rows /\ rows[n].asked /\ rows[n].status \in OpenRow
  BY <1>1, <1>2, <1>6, RequestedFacts
<1>7. QED
  BY <1>2, <1>3, <1>5, <1>6

(* A consultation is resumed.                                               *)
LEMMA ResumeStep ==
  ASSUME IInv, ResumeConsultation
  PROVE  GoodStep
<1> DEFINE e == "RESUME_CONSULTATION"
<1>1. /\ e \in OutsideEvents /\ Transit(e) /\ RequestOnly
      /\ UNCHANGED <<run, clock, applied, review, note, post>>
  BY DEF ResumeConsultation, OutsideEvents
<1> HIDE DEF e
<1>2. /\ status' \in InquiryStates /\ version' \in 1 .. MaxVersion
      /\ Len(rows') <= MaxRows
  BY <1>1, TransitFacts, RequestOnlyFacts DEF IInv
<1>3. Scalars'
  BY <1>1, <1>2 DEF Scalars, IInv
<1>4. RanksKept /\ DoneBehindClock' /\ DeliveredIsStored'
  <2>1. handoffs' = handoffs
    BY <1>1, RequestOnlyFacts
  <2>2. QED
    BY <1>1, <2>1 DEF IInv, Ledger, RanksKept, StoredAreReady, Ready,
                      DoneBehindClock, DeliveredIsStored
<1>5. QED
  BY <1>1, <1>3, <1>4, RequestOnlyFacts, KeptStep

(* The result of a run is persisted and its event applied, or found stale.  *)
LEMMA PersistStep ==
  ASSUME IInv, NEW q \in Requests, Persist(q)
  PROVE  GoodStep
<1>1. /\ run' = [run EXCEPT ![q].status = DoneStatus(q)]
      /\ run[q].status \in Valid \cup Invalid
      /\ UNCHANGED <<clock, note, post>>
  BY DEF Persist, Valid
<1>2. run' \in [Requests -> Runs] /\ RanksKept /\ DoneBehindClock'
  <2>1. DoneStatus(q) \in Valid \cup Invalid
    BY DEF DoneStatus, Valid
  <2>2. QED
    BY <1>1, <2>1, SettleFacts
<1>3. CASE /\ UNCHANGED <<inquiry, rows, applied, handoffs>>
           /\ review' \in [Requests -> {NONE, "PENDING", "REJECTED"}]
  <2>1. Scalars' /\ OnlyLastOpen'
    BY <1>1, <1>2, <1>3 DEF IInv, Scalars, OnlyLastOpen, inquiry
  <2>2. DeliveredIsStored'
    BY <1>1, <1>3 DEF IInv, Ledger, DeliveredIsStored
  <2>3. QED
    BY <1>1, <1>2, <1>3, <2>1, <2>2, QuietStep
<1>4. ASSUME NEW e \in Events(q) \ {NONE}, Transit(e),
             applied' = [applied EXCEPT ![q] = e], UNCHANGED review,
             IF e = "DANGER_DETECTED" THEN RequestOnly
                                      ELSE UNCHANGED <<rows, handoffs>>
      PROVE  GoodStep
  <2>1. Scalars /\ OnlyLastOpen /\ e \in OutsideEvents
    BY <1>4 DEF IInv, OutsideEvents, Events, NONE
  <2>2. /\ e \in EventCodes
        /\ status' \in InquiryStates
        /\ version' \in 1 .. MaxVersion
    BY <1>4, <2>1, TransitFacts
  <2>3. ASSUME Len(rows') <= MaxRows
        PROVE  Scalars'
    BY <1>1, <1>2, <1>4, <2>1, <2>2, <2>3 DEF Scalars
  <2>4. ASSUME handoffs' = handoffs
        PROVE  DeliveredIsStored'
    BY <1>1, <2>4 DEF IInv, Ledger, DeliveredIsStored
  <2>5. CASE RequestOnly
    <3>1. handoffs' = handoffs /\ Len(rows') <= MaxRows
      BY <1>4, <2>1, <2>5, RequestOnlyFacts
    <3>2. Scalars' /\ DeliveredIsStored'
      BY <2>3, <2>4, <3>1
    <3>3. QED
      BY <1>2, <1>4, <2>1, <2>5, <3>2, RequestOnlyFacts, KeptStep
  <2>6. CASE UNCHANGED <<rows, handoffs>>
    <3>1. Scalars' /\ DeliveredIsStored'
      BY <2>1, <2>3, <2>4, <2>6 DEF Scalars
    <3>2. OnlyLastOpen'
      BY <1>4, <2>1, <2>6, OutsideKeeps
    <3>3. QED
      BY <1>2, <2>6, <3>1, <3>2, QuietStep
  <2>7. QED
    BY <1>4, <2>5, <2>6
<1>5. review' \in [Requests -> {NONE, "PENDING", "REJECTED"}]
  BY DEF Persist, IInv, Scalars
<1>6. QED
  BY <1>3, <1>4, <1>5 DEF Persist

\* The last row, of those in rs, gets a new status.
LastSet(rs, new, st) ==
  /\ new \in Seq(Row)
  /\ Len(new) = Len(rs)
  /\ DOMAIN new = 1 .. Len(rs)
  /\ new[Len(rs)].status = st
  /\ \A n \in DOMAIN rs : /\ new[n].summary = rs[n].summary
                          /\ new[n].asked = rs[n].asked
                          /\ n # Len(rs) => new[n] = rs[n]

(* What writing the status of the last row leaves.                          *)
LEMMA LastSetFacts ==
  ASSUME NEW rs \in Seq(Row), Len(rs) # 0,
         NEW st \in OpenRow \cup {"COMPLETED"}, NEW new,
         new = [rs EXCEPT ![Len(rs)].status = st]
  PROVE  LastSet(rs, new, st)
<1>1. /\ DOMAIN rs = 1 .. Len(rs) /\ Len(rs) \in Nat /\ Len(rs) \in DOMAIN rs
      /\ \A n \in DOMAIN rs : rs[n] \in Row
  BY LenProperties, ElementOfSeq
<1>2. new[Len(rs)] = [rs[Len(rs)] EXCEPT !.status = st]
  BY <1>1
<1>3. /\ new[Len(rs)] \in Row
      /\ new[Len(rs)].status = st
      /\ new[Len(rs)].summary = rs[Len(rs)].summary
      /\ new[Len(rs)].asked = rs[Len(rs)].asked
  <2>1. rs[Len(rs)] \in Row
    BY <1>1
  <2>2. QED
    BY <1>2, <2>1 DEF Row
<1>4. \A n \in DOMAIN rs : n # Len(rs) => new[n] = rs[n]
  OBVIOUS
<1>5. new \in [DOMAIN rs -> Row]
  BY <1>1, <1>3, <1>4
<1>6. new \in Seq(Row) /\ Len(new) = Len(rs) /\ DOMAIN new = DOMAIN rs
  BY <1>5, SameLength
<1>7. QED
  BY <1>1, <1>3, <1>4, <1>6 DEF LastSet

(* A consultation starts.                                                   *)
LEMMA StartStep ==
  ASSUME IInv, StartConsultation
  PROVE  GoodStep
<1> DEFINE e == "START_CONSULTATION"
<1>1. /\ Transit(e) /\ Len(Requested) <= MaxRows
      /\ rows' = [Requested EXCEPT ![Len(Requested)].status = "IN_PROGRESS"]
      /\ UNCHANGED <<run, clock, applied, review, note, post, handoffs>>
  BY DEF StartConsultation
<1>2. /\ status' = "CONSULTATION_IN_PROGRESS"
      /\ status' \in InquiryStates /\ version' \in 1 .. MaxVersion
  BY <1>1, TransitFacts DEF IInv
<1>3. \A n \in DOMAIN rows : rows[n].status # "IN_PROGRESS"
  BY <1>1, OutsideFacts DEF IInv
<1>4. LastSet(Requested, rows', "IN_PROGRESS")
  <2>1. Requested \in Seq(Row) /\ Len(Requested) # 0
    BY <1>3, RequestedFacts
  <2>2. "IN_PROGRESS" \in OpenRow \cup {"COMPLETED"}
    BY DEF OpenRow
  <2>3. QED
    BY <1>1, <2>1, <2>2, LastSetFacts
<1>5. Grown(rows')
  BY <1>3, <1>4, RequestedFacts DEF Grown, LastSet
<1>6. OnlyLastOpen'
  <2>1. \A n \in DOMAIN rows' : n < Len(rows') => rows'[n].status = "COMPLETED"
    BY <1>3, <1>4, RequestedFacts DEF LastSet
  <2>2. QED
    BY <1>2, <2>1 DEF OnlyLastOpen
<1>7. ASSUME NEW n \in DOMAIN rows', rows'[n].asked /\ rows'[n].status \in OpenRow
      PROVE  n \in DOMAIN rows /\ rows[n].asked /\ rows[n].status \in OpenRow
  <2>1. n \in DOMAIN Requested /\ Requested[n].asked
    BY <1>3, <1>4, <1>7, RequestedFacts DEF LastSet
  <2>2. n \in DOMAIN rows /\ rows[n].asked /\ Requested[n] = rows[n]
    BY <1>3, <2>1, RequestedFacts
  <2>3. n = Len(Requested)
    <3>1. n \in 1 .. Len(Requested) /\ Len(Requested) \in Nat
      BY <1>3, <2>1, RequestedFacts
    <3>2. n < Len(Requested) => rows'[n].status = "COMPLETED"
      BY <1>3, <1>4, <2>1, RequestedFacts DEF LastSet
    <3>3. QED
      BY <1>7, <3>1, <3>2 DEF OpenRow
  <2>4. rows[n].status \in OpenRow
    BY <1>3, <2>2, <2>3, RequestedFacts DEF OpenRow
  <2>5. QED
    BY <2>2, <2>4
<1>8. Scalars'
  <2>1. Len(rows') <= MaxRows
    BY <1>1, <1>4 DEF LastSet
  <2>2. QED
    BY <1>1, <1>2, <2>1 DEF Scalars, IInv
<1>9. RanksKept /\ DoneBehindClock' /\ DeliveredIsStored'
  BY <1>1 DEF IInv, Ledger, RanksKept, StoredAreReady, Ready, DoneBehindClock,
              DeliveredIsStored
<1>10. handoffs' = handoffs
  BY <1>1
<1>11. QED
  BY <1>5, <1>6, <1>7, <1>8, <1>9, <1>10, KeptStep

(* A consultation ends: no row is open any more.                            *)
LEMMA CompleteStep ==
  ASSUME IInv, CompleteConsultation
  PROVE  GoodStep
<1>1. /\ rows # << >> /\ Transit("CONSULTATION_COMPLETED")
      /\ rows' = [rows EXCEPT ![Len(rows)].status = "COMPLETED"]
      /\ UNCHANGED <<run, clock, applied, review, note, post, handoffs>>
  BY DEF CompleteConsultation
<1>2. status' \in InquiryStates /\ version' \in 1 .. MaxVersion
  BY <1>1, TransitFacts DEF IInv
<1>3. /\ rows \in Seq(Row) /\ Len(rows) # 0 /\ Len(rows) \in Nat
      /\ DOMAIN rows = 1 .. Len(rows)
  BY <1>1, EmptySeq, LenProperties DEF IInv, Projected, Linked
<1>4. LastSet(rows, rows', "COMPLETED")
  BY <1>1, <1>3, LastSetFacts
<1>5. Grown(rows')
  BY <1>3, <1>4 DEF Grown, LastSet
<1>6. \A n \in DOMAIN rows' : rows'[n].status = "COMPLETED"
  <2>1. \A n \in DOMAIN rows : n < Len(rows) => rows[n].status = "COMPLETED"
    BY DEF IInv, OnlyLastOpen
  <2>2. QED
    BY <1>3, <1>4, <2>1 DEF LastSet
<1>7. OnlyLastOpen'
  BY <1>6 DEF OnlyLastOpen
<1>8. Scalars'
  <2>1. Len(rows') <= MaxRows
    BY <1>4 DEF LastSet, IInv, Scalars
  <2>2. QED
    BY <1>1, <1>2, <2>1 DEF Scalars, IInv
<1>9. RanksKept /\ DoneBehindClock' /\ DeliveredIsStored'
  BY <1>1 DEF IInv, Ledger, RanksKept, StoredAreReady, Ready, DoneBehindClock,
              DeliveredIsStored
<1>10. \A n \in DOMAIN rows' : rows'[n].status \notin OpenRow
  BY <1>6 DEF OpenRow
<1>11. handoffs' = handoffs
  BY <1>1
<1>12. QED
  BY <1>5, <1>7, <1>8, <1>9, <1>10, <1>11, KeptStep

-----------------------------------------------------------------------------
(* Steps that attach. *)

(* The ranks do not change while the runs do not.                           *)
LEMMA SameRuns ==
  ASSUME run' = run, Linked(rows', handoffs'), RowsShowBest(rows', handoffs'),
         OpenShowsBest(rows', handoffs')
  PROVE  Projected'
<1>1. Linked(rows, handoffs)'
  BY DEF Linked
<1>2. RowsShowBest(rows, handoffs)'
  BY DEF RowsShowBest, IsBest, Outranks, Shown
<1>3. OpenShowsBest(rows, handoffs)'
  BY DEF OpenShowsBest, IsBest, Outranks, Pool
<1>4. QED
  BY <1>1, <1>2, <1>3 DEF Projected

(* A row that shows a handoff shows the same or a later one afterwards.      *)
LEMMA AttachUpgrades ==
  ASSUME NEW rs, NEW hs, Linked(rs, hs), RowsShowBest(rs, hs),
         run \in [Requests -> Runs],
         NEW n \in 0 .. Len(rs), NEW i \in 0 .. Len(hs),
         NEW rs2, NEW hs2, Attached(rs, hs, n, i, rs2, hs2),
         NEW m \in DOMAIN rs, rs[m].summary # 0
  PROVE  /\ rs2[m].summary # 0
         /\ run[hs2[rs2[m].summary].request].version
              >= run[hs[rs[m].summary].request].version
<1> DEFINE old == rs[m].summary
<1>1. /\ old \in Shown(hs, m) /\ old \in DOMAIN hs
      /\ DOMAIN hs = 1 .. Len(hs) /\ Len(hs) \in Nat
  BY LenProperties DEF Linked, RowsShowBest, IsBest, Shown
<1>2. Ranked(hs)
  BY DEF Ranked, Linked
<1>3. \A k \in DOMAIN hs : /\ hs2[k].request = hs[k].request
                           /\ run[hs[k].request].version \in Nat
  <2>1. \A k \in DOMAIN hs : run[hs[k].request].version \in 0 .. MaxVersion
    BY <1>2, RankTypes
  <2>2. QED
    BY <2>1, HandoffAssumption DEF Attached, SameHandoffs
<1>4. CASE m = n /\ Takes(hs, n, i)
  <2>1. rs2[m].summary = i /\ i # 0 /\ i \in DOMAIN hs
    BY <1>1, <1>4 DEF Attached, Takes
  <2>2. i # old => ~Outranks(hs, old, i)
    BY <1>1, <1>4 DEF Takes
  <2>3. i # old => Outranks(hs, i, old)
    BY <1>1, <1>2, <2>1, <2>2, RankTotal
  <2>4. run[hs[i].request].version >= run[hs[old].request].version
    BY <1>1, <1>3, <2>1, <2>3 DEF Outranks
  <2>5. QED
    BY <1>3, <2>1, <2>4
<1>5. CASE ~(m = n /\ Takes(hs, n, i))
  <2>1. rs2[m].summary = old
    BY <1>5 DEF Attached
  <2>2. QED
    BY <1>1, <1>3, <2>1
<1>6. QED
  BY <1>4, <1>5

(* A consultation is requested and shown the best handoff it may take.      *)
LEMMA RequestAndAttachFacts ==
  ASSUME IInv, NEW e \in OutsideEvents, Transit(e), RequestAndAttach,
         UNCHANGED <<run, clock, post>>
  PROVE  /\ Len(rows') <= MaxRows
         /\ Projected'
         /\ Ledger'
         /\ OnlyLastOpen'
         /\ Upgraded
<1> DEFINE n == Len(Requested)
           rs == [Requested EXCEPT ![n].asked = TRUE]
           i == Candidate(handoffs, n)
<1>1. \A m \in DOMAIN rows : rows[m].status # "IN_PROGRESS"
  BY OutsideFacts DEF IInv
<1>2. /\ n <= MaxRows
      /\ rows' = Attach(rs, handoffs, n, i).rows
      /\ handoffs' = Attach(rs, handoffs, n, i).handoffs
  BY DEF RequestAndAttach, Project
<1>3. /\ rs \in Seq(Row) /\ Len(rs) = n /\ DOMAIN rs = 1 .. n
      /\ n \in Nat \ {0}
      /\ rs[n].status = "WAITING"
      /\ rs[n].summary = Requested[n].summary
      /\ \A m \in DOMAIN Requested : m # n => rs[m] = Requested[m]
  <2>1. /\ Requested \in Seq(Row) /\ DOMAIN Requested = 1 .. n /\ n \in Nat \ {0}
        /\ Requested[n].status = "WAITING"
        /\ \A m \in DOMAIN Requested : Requested[m] \in Row
    BY <1>1, RequestedFacts, ElementOfSeq
  <2>2. n \in DOMAIN Requested /\ Requested[n] \in Row
    BY <2>1
  <2>3. rs[n] = [Requested[n] EXCEPT !.asked = TRUE]
    BY <2>2
  <2>4. /\ rs[n] \in Row /\ rs[n].status = Requested[n].status
        /\ rs[n].summary = Requested[n].summary
    BY <2>2, <2>3 DEF Row
  <2>5. rs \in [DOMAIN Requested -> Row]
    BY <2>1, <2>4
  <2> HIDE DEF rs
  <2>6. rs \in Seq(Row) /\ Len(rs) = Len(Requested) /\ DOMAIN rs = DOMAIN Requested
    BY <2>1, <2>5, SameLength
  <2>7. \A m \in DOMAIN Requested : m # n => rs[m] = Requested[m]
    BY DEF rs
  <2>8. QED
    BY <2>1, <2>4, <2>6, <2>7
<1> HIDE DEF rs
<1>4. Grown(rs)
  <2>1. \A m \in DOMAIN Requested : rs[m].summary = Requested[m].summary
    BY <1>3
  <2>2. QED
    BY <1>1, <1>3, <2>1, RequestedFacts DEF Grown
<1>5. Linked(rs, handoffs) /\ RowsShowBest(rs, handoffs)
  BY <1>4, GrownFacts
<1>6. IsBest(handoffs, Pool(handoffs, n), i) /\ i \in 0 .. Len(handoffs)
  <2>1. i = Best(handoffs, Pool(handoffs, n))
    BY DEF Candidate, Pool
  <2>2. Ranked(handoffs) /\ clock \in Nat /\ DoneBehindClock
    BY DEF Ranked, IInv, Scalars, Projected, Linked, Ledger
  <2>3. Pool(handoffs, n) \subseteq DOMAIN handoffs
    BY DEF Pool
  <2>4. IsBest(handoffs, Pool(handoffs, n), i)
    BY <2>1, <2>2, <2>3, BestIsBest
  <2>5. DOMAIN handoffs = 1 .. Len(handoffs) /\ Len(handoffs) \in Nat
    BY LenProperties DEF IInv, Projected, Linked
  <2>6. QED
    BY <2>3, <2>4, <2>5 DEF IsBest
<1> HIDE DEF i, n
<1>7. run \in [Requests -> Runs]
  BY DEF IInv, Scalars
<1>8. Attached(rs, handoffs, n, i, rows', handoffs')
  <2>1. n \in 0 .. Len(rs)
    BY <1>3
  <2>2. QED
    BY <1>2, <1>5, <1>6, <1>7, <2>1, AttachFacts
<1>9. IsBest(handoffs', Pool(handoffs', n), rows'[n].summary)
  <2>1. n \in DOMAIN rs
    BY <1>3
  <2>2. QED
    BY <1>5, <1>6, <1>7, <1>8, <2>1, AttachBest
<1>10. /\ Len(rows') = n /\ DOMAIN rows' = 1 .. n
       /\ \A m \in DOMAIN rows' : m < n => rows'[m].status = "COMPLETED"
       /\ rows'[n].status = "WAITING"
  <2>1. \A m \in DOMAIN Requested : m < n => Requested[m].status = "COMPLETED"
    BY <1>1, RequestedFacts DEF n
  <2>2. DOMAIN Requested = 1 .. n
    BY <1>1, RequestedFacts DEF n
  <2>3. QED
    BY <1>3, <1>8, <2>1, <2>2 DEF Attached
<1>11. OnlyLastOpen'
  <2>1. \A m \in DOMAIN rows' : m < n \/ m = n
    BY <1>3, <1>10
  <2>2. QED
    BY <1>10, <2>1 DEF OnlyLastOpen
<1>12. OpenShowsBest(rows', handoffs')
  <2>1. \A m \in DOMAIN rows' : m < n \/ m = n
    BY <1>3, <1>10
  <2>2. \A m \in DOMAIN rows' : rows'[m].status \in OpenRow => m = n
    BY <1>10, <2>1 DEF OpenRow
  <2>3. QED
    BY <1>9, <2>2 DEF OpenShowsBest
<1>13. Projected'
  BY <1>8, <1>12, SameRuns DEF Attached
<1>14. Ledger'
  <2>1. SameHandoffs(handoffs, handoffs')
    BY <1>8 DEF Attached
  <2>2. DoneBehindClock' /\ StoredAreReady' /\ RequestsDiffer' /\ DeliveredIsStored'
    BY <2>1 DEF IInv, Ledger, SameHandoffs, DoneBehindClock, StoredAreReady,
                Ready, RequestsDiffer, DeliveredIsStored
  <2>3. QED
    BY <2>2 DEF Ledger
<1>15. Upgraded
  <2> SUFFICES ASSUME NEW m \in DOMAIN rows, rows[m].summary # 0
               PROVE  /\ rows'[m].summary # 0
                      /\ run[handoffs'[rows'[m].summary].request].version
                           >= run[handoffs[rows[m].summary].request].version
    BY DEF Upgraded
  <2>1. m \in DOMAIN rs /\ rs[m].summary = rows[m].summary
    <3>1. m \in DOMAIN Requested /\ Requested[m] = rows[m]
      BY <1>1, RequestedFacts
    <3>2. DOMAIN Requested = 1 .. n
      BY <1>1, RequestedFacts DEF n
    <3>3. QED
      BY <1>3, <3>1, <3>2
  <2>2. n \in 0 .. Len(rs)
    BY <1>3
  <2>3. QED
    BY <1>5, <1>6, <1>7, <1>8, <2>1, <2>2, AttachUpgrades
<1>16. QED
  BY <1>2, <1>10, <1>11, <1>13, <1>14, <1>15

(* The customer asks for a consultation.                                    *)
LEMMA RequestStep ==
  ASSUME IInv, RequestConsultation
  PROVE  GoodStep
<1> DEFINE e == "REQUEST_CONSULTATION"
<1>1. /\ e \in OutsideEvents /\ Transit(e) /\ RequestAndAttach
      /\ UNCHANGED <<run, clock, applied, review, note, post>>
  BY DEF RequestConsultation, OutsideEvents
<1> HIDE DEF e
<1>2. Len(rows') <= MaxRows /\ Projected' /\ Ledger' /\ OnlyLastOpen' /\ Upgraded
  BY <1>1, RequestAndAttachFacts
<1>3. status' \in InquiryStates /\ version' \in 1 .. MaxVersion
  BY <1>1, TransitFacts DEF IInv
<1>4. Scalars'
  BY <1>1, <1>2, <1>3 DEF Scalars, IInv
<1>5. QED
  BY <1>2, <1>4 DEF IInv, GoodStep

(* A review is rejected.                                                    *)
LEMMA RejectStep ==
  ASSUME IInv, NEW q \in Requests, RejectReview(q)
  PROVE  GoodStep
<1> DEFINE e == "HUMAN_REVIEW_REJECTED"
<1>1. /\ e \in OutsideEvents /\ Transit(e) /\ RequestAndAttach
      /\ review' = [review EXCEPT ![q] = "REJECTED"]
      /\ UNCHANGED <<run, clock, applied, note, post>>
  BY DEF RejectReview, OutsideEvents
<1> HIDE DEF e
<1>2. Len(rows') <= MaxRows /\ Projected' /\ Ledger' /\ OnlyLastOpen' /\ Upgraded
  BY <1>1, RequestAndAttachFacts
<1>3. status' \in InquiryStates /\ version' \in 1 .. MaxVersion
  BY <1>1, TransitFacts DEF IInv
<1>4. Scalars'
  BY <1>1, <1>2, <1>3 DEF Scalars, IInv
<1>5. QED
  BY <1>2, <1>4 DEF IInv, GoodStep

(* The row that the endpoint takes is the last one, or there is none.       *)
LEMMA LatestOpenFacts ==
  ASSUME IInv
  PROVE  \/ /\ LatestOpen(rows) = 0
            /\ \A n \in DOMAIN rows : rows[n].status \notin OpenRow
         \/ /\ LatestOpen(rows) = Len(rows)
            /\ Len(rows) \in DOMAIN rows
            /\ rows[Len(rows)].status \in OpenRow
<1> DEFINE open == {n \in DOMAIN rows : rows[n].status \in OpenRow}
<1>1. DOMAIN rows = 1 .. Len(rows) /\ Len(rows) \in Nat
  BY LenProperties DEF IInv, Projected, Linked
<1>2. \A n \in open : n = Len(rows)
  <2>1. \A n \in DOMAIN rows : n < Len(rows) => rows[n].status \notin OpenRow
    BY DEF IInv, OnlyLastOpen, OpenRow
  <2>2. QED
    BY <1>1, <2>1
<1>3. CASE open = {}
  BY <1>3 DEF LatestOpen
<1>4. CASE open # {}
  <2>1. open = {Len(rows)}
    BY <1>2, <1>4
  <2> HIDE DEF open
  <2>2. Max(open) = Len(rows)
    BY <1>1, <2>1 DEF Max
  <2>3. LatestOpen(rows) = Max(open)
    BY <1>4 DEF LatestOpen, open
  <2>4. QED
    BY <2>1, <2>2, <2>3 DEF open
<1>5. QED
  BY <1>3, <1>4

(* A handoff that joins the pool of a row is shown when it is the best of   *)
(* it, and otherwise the one shown before still is.                         *)
LEMMA AttachJoins ==
  ASSUME NEW rs, NEW hs, Linked(rs, hs), RowsShowBest(rs, hs),
         run \in [Requests -> Runs],
         NEW n \in DOMAIN rs, NEW i \in DOMAIN hs, hs[i].row = 0,
         IsBest(hs, Pool(hs, n) \ {i}, rs[n].summary),
         NEW rs2, NEW hs2, Attached(rs, hs, n, i, rs2, hs2)
  PROVE  IsBest(hs2, Pool(hs2, n), rs2[n].summary)
<1> DEFINE s == rs[n].summary
<1>1. /\ DOMAIN rs = 1 .. Len(rs) /\ DOMAIN hs = 1 .. Len(hs)
      /\ Len(rs) \in Nat /\ Len(hs) \in Nat
  BY LenProperties DEF Linked
<1>2. Ranked(hs)
  BY DEF Ranked, Linked
<1>3. Pool(hs, n) \subseteq DOMAIN hs /\ Shown(hs, n) \subseteq Pool(hs, n)
  BY DEF Pool, Shown, RowsShowBest
<1>4. n # 0 /\ i # 0 /\ i \notin Shown(hs, n)
  BY <1>1 DEF Shown
<1>5. IsBest(hs, Shown(hs, n), s)
  BY DEF RowsShowBest
<1>6. \A t : IsBest(hs, Pool(hs, n), t) => IsBest(hs2, Pool(hs2, n), t)
  BY <1>3, SameRanks DEF Attached
<1>7. CASE ~Eligible(hs[i])
  <2>1. i \notin Pool(hs, n) /\ ~Takes(hs, n, i)
    BY <1>7 DEF Pool, Takes
  <2>2. Pool(hs, n) \ {i} = Pool(hs, n) /\ rs2 = rs
    BY <2>1 DEF Attached
  <2>3. QED
    BY <1>6, <2>2
<1>8. CASE Eligible(hs[i]) /\ Takes(hs, n, i)
  <2>1. i \in Pool(hs, n) /\ rs2[n].summary = i
    BY <1>8 DEF Pool, Attached
  <2>2. ASSUME NEW j \in Pool(hs, n) \ {i}
        PROVE  Outranks(hs, i, j)
    <3>1. s \in Pool(hs, n) \ {i} /\ \A k \in (Pool(hs, n) \ {i}) \ {s} : Outranks(hs, s, k)
      BY <2>2 DEF IsBest
    <3>2. s \in Shown(hs, n)
      BY <1>1, <1>3, <1>5, <3>1 DEF IsBest
    <3>3. ~Outranks(hs, s, i)
      BY <1>8, <3>1, <3>2 DEF Takes
    <3>4. Outranks(hs, i, s)
      BY <1>2, <1>3, <3>1, <3>3, RankTotal
    <3>5. CASE j = s
      BY <3>4, <3>5
    <3>6. CASE j # s
      <4>1. Outranks(hs, s, j) /\ s \in DOMAIN hs /\ j \in DOMAIN hs
        BY <1>3, <3>1, <3>6
      <4>2. QED
        BY <1>2, <3>4, <4>1, RankTransitive
    <3>7. QED
      BY <3>5, <3>6
  <2>3. IsBest(hs, Pool(hs, n), i)
    BY <2>1, <2>2 DEF IsBest
  <2>4. QED
    BY <1>6, <2>1, <2>3
<1>9. CASE Eligible(hs[i]) /\ ~Takes(hs, n, i)
  <2>1. i \in Pool(hs, n) /\ rs2 = rs
    BY <1>9 DEF Pool, Attached
  <2>2. PICK j \in Shown(hs, n) \ {i} : Outranks(hs, j, i)
    BY <1>4, <1>9 DEF Takes
  <2>3. s \in Shown(hs, n) /\ (j # s => Outranks(hs, s, j))
    BY <1>5, <2>2 DEF IsBest
  <2>4. s \in DOMAIN hs /\ j \in DOMAIN hs /\ s \in Pool(hs, n) \ {i}
    BY <1>3, <1>4, <2>2, <2>3
  <2>5. Outranks(hs, s, i)
    <3>1. CASE j = s
      BY <2>2, <3>1
    <3>2. CASE j # s
      BY <1>2, <2>2, <2>3, <2>4, <3>2, RankTransitive
    <3>3. QED
      BY <3>1, <3>2
  <2>6. \A k \in (Pool(hs, n) \ {i}) \ {s} : Outranks(hs, s, k)
    BY <2>4 DEF IsBest
  <2>7. IsBest(hs, Pool(hs, n), s)
    BY <2>4, <2>5, <2>6 DEF IsBest
  <2>8. QED
    BY <1>6, <2>1, <2>7
<1>10. QED
  BY <1>7, <1>8, <1>9

(* A handoff is stored, and shown where it is the best.                     *)
LEMMA StoreStep ==
  ASSUME IInv, NEW q \in Requests, Store(q)
  PROVE  GoodStep
<1> DEFINE entry == [request |-> q, note |-> note[q], row |-> 0]
           hs == Append(handoffs, entry)
           n == LatestOpen(rows)
           i == Len(hs)
<1>1. /\ rows' = Attach(rows, hs, n, i).rows
      /\ handoffs' = Attach(rows, hs, n, i).handoffs
      /\ Existing(q) = {} /\ Ready(q) /\ Accepted(q)
      /\ UNCHANGED <<status, version, run, clock, applied, review, note>>
  BY DEF Store, Project, inquiry
<1>2. /\ handoffs \in Seq(Entry) /\ rows \in Seq(Row)
      /\ DOMAIN handoffs = 1 .. Len(handoffs) /\ Len(handoffs) \in Nat
      /\ DOMAIN rows = 1 .. Len(rows) /\ Len(rows) \in Nat
      /\ run \in [Requests -> Runs]
  BY LenProperties DEF IInv, Projected, Linked, Scalars
<1>3. entry \in Entry /\ entry.request = q /\ entry.row = 0
  BY DEF Entry, IInv, Scalars
<1> HIDE DEF entry
<1>4. /\ hs \in Seq(Entry) /\ i = Len(handoffs) + 1 /\ hs[i] = entry
      /\ DOMAIN hs = 1 .. i
      /\ \A k \in DOMAIN handoffs : k \in DOMAIN hs /\ k # i /\ hs[k] = handoffs[k]
      /\ \A k \in DOMAIN hs \ {i} : k \in DOMAIN handoffs
  <2>1. /\ hs \in Seq(Entry) /\ Len(hs) = Len(handoffs) + 1
        /\ \A k \in 1 .. Len(handoffs) : hs[k] = handoffs[k]
        /\ hs[Len(handoffs) + 1] = entry
    BY <1>2, <1>3, AppendProperties
  <2>2. DOMAIN hs = 1 .. Len(hs)
    BY <2>1, LenProperties
  <2>3. QED
    BY <1>2, <2>1, <2>2
<1> HIDE DEF hs, i
<1>5. Linked(rows, hs)
  <2>1. \A m \in DOMAIN rows : rows[m].summary \in Nat /\ rows[m].summary <= Len(handoffs)
    <3>1. \A m \in DOMAIN rows : rows[m] \in Row
      BY <1>2, ElementOfSeq
    <3>2. QED
      BY <3>1 DEF Row, IInv, Projected, Linked
  <2>2. Len(hs) = Len(handoffs) + 1
    BY <1>4 DEF i
  <2>3. \A m \in DOMAIN rows : rows[m].summary <= Len(hs)
    BY <1>2, <2>1, <2>2
  <2>4. \A k \in DOMAIN hs : hs[k].row <= Len(rows)
    BY <1>2, <1>3, <1>4 DEF IInv, Projected, Linked
  <2>5. QED
    BY <1>2, <1>4, <2>3, <2>4 DEF Linked
<1>6. /\ \A k, l \in DOMAIN handoffs : Outranks(hs, k, l) <=> Outranks(handoffs, k, l)
      /\ \A ids \in SUBSET DOMAIN handoffs :
           \A s : IsBest(handoffs, ids, s) => IsBest(hs, ids, s)
  <2>1. \A k, l \in DOMAIN handoffs : Outranks(hs, k, l) <=> Outranks(handoffs, k, l)
    BY <1>4 DEF Outranks
  <2>2. QED
    BY <2>1 DEF IsBest
<1>7. \A m \in DOMAIN rows : Shown(hs, m) = Shown(handoffs, m)
  <2> SUFFICES ASSUME NEW m \in DOMAIN rows
               PROVE  Shown(hs, m) = Shown(handoffs, m)
    OBVIOUS
  <2>1. m # 0
    BY <1>2
  <2>2. QED
    BY <1>3, <1>4, <2>1 DEF Shown
<1>8. RowsShowBest(rows, hs)
  <2> SUFFICES ASSUME NEW m \in DOMAIN rows
               PROVE  /\ IsBest(hs, Shown(hs, m), rows[m].summary)
                      /\ \A k \in Shown(hs, m) : Eligible(hs[k])
    BY DEF RowsShowBest
  <2>1. /\ IsBest(handoffs, Shown(handoffs, m), rows[m].summary)
        /\ \A k \in Shown(handoffs, m) : Eligible(handoffs[k])
        /\ Shown(handoffs, m) \in SUBSET DOMAIN handoffs
    BY DEF IInv, Projected, RowsShowBest, Shown
  <2>2. \A k \in Shown(handoffs, m) : hs[k] = handoffs[k]
    BY <1>4, <2>1
  <2>3. QED
    BY <1>6, <1>7, <2>1, <2>2
<1>9. n \in 0 .. Len(rows) /\ i \in 0 .. Len(hs)
  <2>1. n \in 0 .. Len(rows)
    BY <1>2, LatestOpenFacts
  <2>2. QED
    BY <1>2, <1>4, <2>1 DEF i
<1> HIDE DEF n
<1>10. Attached(rows, hs, n, i, rows', handoffs')
  BY <1>1, <1>2, <1>5, <1>8, <1>9, AttachFacts
<1>11. OpenShowsBest(rows', handoffs')
  <2> SUFFICES ASSUME NEW m \in DOMAIN rows', rows'[m].asked, rows'[m].status \in OpenRow
               PROVE  IsBest(handoffs', Pool(handoffs', m), rows'[m].summary)
    BY DEF OpenShowsBest
  <2>1. m \in DOMAIN rows /\ rows[m].asked /\ rows[m].status \in OpenRow
    BY <1>10 DEF Attached
  <2>2. n = Len(rows)
    BY <2>1, LatestOpenFacts DEF n
  <2>3. m = n
    <3>1. m < Len(rows) => rows[m].status = "COMPLETED"
      BY <2>1 DEF IInv, OnlyLastOpen
    <3>2. QED
      BY <1>2, <2>1, <2>2, <3>1 DEF OpenRow
  <2>4. IsBest(handoffs, Pool(handoffs, m), rows[m].summary)
    BY <2>1 DEF IInv, Projected, OpenShowsBest
  <2>5. Pool(hs, m) \ {i} = Pool(handoffs, m) /\ Pool(handoffs, m) \in SUBSET DOMAIN handoffs
    BY <1>4 DEF Pool
  <2>6. IsBest(hs, Pool(hs, n) \ {i}, rows[n].summary)
    BY <1>6, <2>3, <2>4, <2>5
  <2>7. n \in DOMAIN rows /\ i \in DOMAIN hs /\ hs[i].row = 0
    BY <1>2, <1>3, <1>4, <2>1, <2>3
  <2>8. IsBest(handoffs', Pool(handoffs', n), rows'[n].summary)
    BY <1>2, <1>5, <1>8, <1>10, <2>6, <2>7, AttachJoins
  <2>9. QED
    BY <2>3, <2>8
<1>12. Projected'
  BY <1>1, <1>10, <1>11, SameRuns DEF Attached
<1>13. /\ DOMAIN handoffs' = DOMAIN hs
       /\ \A k \in DOMAIN hs : handoffs'[k].request = hs[k].request
  BY <1>10 DEF Attached, SameHandoffs
<1>14. Ledger'
  <2>1. DoneBehindClock'
    BY <1>1 DEF IInv, Ledger, DoneBehindClock
  <2>2. StoredAreReady'
    <3>1. \A k \in DOMAIN hs : Ready(hs[k].request)
      BY <1>1, <1>3, <1>4 DEF IInv, Ledger, StoredAreReady
    <3>2. QED
      BY <1>1, <1>13, <3>1 DEF StoredAreReady, Ready
  <2>3. RequestsDiffer'
    <3>1. \A k \in DOMAIN handoffs : handoffs[k].request # q
      BY <1>1 DEF Existing
    <3>2. \A k, l \in DOMAIN hs : hs[k].request = hs[l].request => k = l
      BY <1>3, <1>4, <3>1 DEF IInv, Ledger, RequestsDiffer
    <3>3. QED
      BY <1>13, <3>2 DEF RequestsDiffer
  <2>4. DeliveredIsStored'
    <3> SUFFICES ASSUME NEW p \in Requests, post'[p] = "DELIVERED"
                 PROVE  \E k \in DOMAIN hs : hs[k].request = p
      BY <1>13 DEF DeliveredIsStored
    <3>1. CASE p = q
      BY <1>2, <1>3, <1>4, <3>1
    <3>2. CASE p # q
      <4>1. post[p] = "DELIVERED"
        BY <1>1, <3>2 DEF Accepted, Retry, IInv, Scalars
      <4>2. QED
        BY <1>4, <4>1 DEF IInv, Ledger, DeliveredIsStored
    <3>3. QED
      BY <3>1, <3>2
  <2>5. QED
    BY <2>1, <2>2, <2>3, <2>4 DEF Ledger
<1>15. OnlyLastOpen'
  BY <1>1, <1>10 DEF IInv, OnlyLastOpen, Attached
<1>16. Scalars'
  <2>1. post' \in [Requests -> Posts]
    BY <1>1 DEF Accepted, Retry, IInv, Scalars, Posts
  <2>2. Len(rows') <= MaxRows
    BY <1>10 DEF Attached, IInv, Scalars
  <2>3. QED
    BY <1>1, <2>1, <2>2 DEF IInv, Scalars
<1>17. Upgraded
  <2> SUFFICES ASSUME NEW m \in DOMAIN rows, rows[m].summary # 0
               PROVE  /\ rows'[m].summary # 0
                      /\ run[handoffs'[rows'[m].summary].request].version
                           >= run[handoffs[rows[m].summary].request].version
    BY DEF Upgraded
  <2>1. hs[rows[m].summary] = handoffs[rows[m].summary]
    BY <1>4, SummaryTyped
  <2>2. /\ rows'[m].summary # 0
        /\ run[handoffs'[rows'[m].summary].request].version
             >= run[hs[rows[m].summary].request].version
    BY <1>2, <1>5, <1>8, <1>9, <1>10, AttachUpgrades
  <2>3. QED
    BY <2>1, <2>2
<1>18. QED
  BY <1>12, <1>14, <1>15, <1>16, <1>17 DEF IInv, GoodStep

-----------------------------------------------------------------------------
(* The invariant. *)

(* An inquiry without consultations and handoffs satisfies it.              *)
LEMMA InitIInv == Init => IInv
<1> SUFFICES ASSUME Init
             PROVE  IInv
  OBVIOUS
<1>1. /\ rows = << >> /\ DOMAIN rows = {} /\ Len(rows) = 0 /\ rows \in Seq(Row)
      /\ handoffs = << >> /\ DOMAIN handoffs = {} /\ Len(handoffs) = 0
      /\ handoffs \in Seq(Entry)
  BY DEF Init
<1>2. Projected /\ OnlyLastOpen
  BY <1>1 DEF Projected, Linked, RowsShowBest, OpenShowsBest, OnlyLastOpen
<1>3. Ledger
  <2>1. \A q \in Requests : run[q].done = 0 /\ post[q] = NONE
    BY DEF Init
  <2>2. DoneBehindClock /\ DeliveredIsStored
    BY <2>1 DEF Init, DoneBehindClock, DeliveredIsStored, NONE
  <2>3. StoredAreReady /\ RequestsDiffer
    BY <1>1 DEF StoredAreReady, RequestsDiffer
  <2>4. QED
    BY <2>2, <2>3 DEF Ledger
<1>4. Scalars
  <2>1. status \in InquiryStates
    BY DEF Init, QIP, InquiryStates
  <2>2. run \in [Requests -> Runs]
    BY HandoffAssumption DEF Init, Runs
  <2>3. note \in [Requests -> Notes]
    <3> DEFINE safe == [result |-> "safe", note |-> NONE]
    <3>1. safe \in Answers /\ safe.note = NONE
      BY DEF Answers
    <3> HIDE DEF safe
    <3>2. NONE \in Notes
      BY <3>1 DEF Notes
    <3>3. QED
      BY <3>2 DEF Init
  <2>4. /\ version \in 1 .. MaxVersion
        /\ Len(rows) <= MaxRows
        /\ clock \in Nat
    BY <1>1, HandoffAssumption DEF Init
  <2>5. /\ applied \in [Requests -> EventCodes \cup {NONE}]
        /\ review \in [Requests -> {NONE, "PENDING", "REJECTED"}]
        /\ post \in [Requests -> Posts]
    BY DEF Init, Posts
  <2>6. QED
    BY <2>1, <2>2, <2>3, <2>4, <2>5 DEF Scalars
<1>5. QED
  BY <1>2, <1>3, <1>4 DEF IInv

(* Every step keeps the invariant and every summary.                        *)
LEMMA NextIsGood ==
  ASSUME IInv, Next
  PROVE  GoodStep
<1>1. CASE RequestConsultation
  BY <1>1, RequestStep
<1>2. CASE StartConsultation
  BY <1>2, StartStep
<1>3. CASE CompleteConsultation
  BY <1>3, CompleteStep
<1>4. CASE ReportUnresolved
  <2>1. "CUSTOMER_REPORTED_UNRESOLVED" \in OutsideEvents
    BY DEF OutsideEvents
  <2>2. QED
    BY <1>4, <2>1, InquiryStep DEF ReportUnresolved
<1>5. CASE ResumeConsultation
  BY <1>5, ResumeStep
<1>6. CASE SubmitAnswers
  <2>1. "SUBMIT_ANSWERS" \in OutsideEvents
    BY DEF OutsideEvents
  <2>2. QED
    BY <1>6, <2>1, InquiryStep DEF SubmitAnswers
<1>7. ASSUME NEW q \in Requests,
             \/ StartRun(q) \/ MarkSucceeded(q) \/ MarkFailed(q)
             \/ \E a \in Answers : AIAnswers(q, a)
      PROVE  GoodStep
  BY <1>7, RunStep
<1>8. ASSUME NEW q \in Requests, ApplyFailure(q)
      PROVE  GoodStep
  BY <1>8, ApplyFailureStep
<1>9. ASSUME NEW q \in Requests, Persist(q)
      PROVE  GoodStep
  BY <1>9, PersistStep
<1>10. ASSUME NEW q \in Requests, RejectReview(q)
       PROVE  GoodStep
  BY <1>10, RejectStep
<1>11. ASSUME NEW q \in Requests,
              \/ ResumeReview(q) \/ PostLost(q) \/ Replay(q) \/ NotReady(q)
              \/ Stale(q)
       PROVE  GoodStep
  BY <1>11, PostStep
<1>12. ASSUME NEW q \in Requests, Store(q)
       PROVE  GoodStep
  BY <1>12, StoreStep
<1>13. QED
  BY <1>1, <1>2, <1>3, <1>4, <1>5, <1>6, <1>7, <1>8, <1>9, <1>10, <1>11, <1>12
     DEF Next

(* A step that changes nothing keeps it.                                    *)
LEMMA StutterIInv ==
  ASSUME IInv, UNCHANGED vars
  PROVE  IInv'
<1>1. UNCHANGED <<status, version, rows, run, clock, applied, review, note,
                  post, handoffs>>
  BY DEF vars, inquiry
<1>2. Scalars' /\ OnlyLastOpen'
  BY <1>1 DEF IInv, Scalars, OnlyLastOpen
<1>3. Ledger'
  BY <1>1 DEF IInv, Ledger, DoneBehindClock, StoredAreReady, Ready,
              RequestsDiffer, DeliveredIsStored
<1>4. Projected'
  <2>1. /\ Linked(rows', handoffs') /\ RowsShowBest(rows', handoffs')
        /\ OpenShowsBest(rows', handoffs')
    BY <1>1 DEF IInv, Projected
  <2>2. QED
    BY <1>1, <2>1, SameRuns
<1>5. QED
  BY <1>2, <1>3, <1>4 DEF IInv

(* The inductive invariant holds in every state of the handoff protocol.    *)
THEOREM Invariance == Spec => []IInv
<1>1. IInv /\ [Next]_vars => IInv'
  BY NextIsGood, StutterIInv DEF GoodStep
<1>2. QED
  BY <1>1, InitIInv, PTL DEF Spec

-----------------------------------------------------------------------------
(* What the runs check. *)

(* Versions, runs, posts and rows keep their types, and the references      *)
(* between summaries and handoffs are never dangling.                       *)
THEOREM TypeCorrect == Spec => []TypeOK
<1>1. IInv => TypeOK
  <2> SUFFICES ASSUME IInv
               PROVE  TypeOK
    OBVIOUS
  <2>1. /\ rows \in Seq(Row) /\ handoffs \in Seq(Entry)
        /\ DOMAIN rows = 1 .. Len(rows) /\ Len(rows) \in Nat
        /\ DOMAIN handoffs = 1 .. Len(handoffs) /\ Len(handoffs) \in Nat
        /\ \A n \in DOMAIN rows : rows[n] \in Row /\ rows[n].summary <= Len(handoffs)
        /\ \A i \in DOMAIN handoffs :
             handoffs[i] \in Entry /\ handoffs[i].row <= Len(rows)
    BY LenProperties, ElementOfSeq DEF IInv, Projected, Linked
  <2> DEFINE R == [status : OpenRow \cup {"COMPLETED"}, asked : BOOLEAN,
                   summary : 0 .. Len(handoffs)]
             H == [request : Requests, note : Notes, row : 0 .. Len(rows)]
  <2>2. rows \in [DOMAIN rows -> R]
    <3>1. \A n \in DOMAIN rows : rows[n] \in R
      BY <2>1 DEF Row
    <3> HIDE DEF R
    <3>2. rows = [n \in DOMAIN rows |-> rows[n]]
      BY <2>1
    <3>3. QED
      BY <3>1, <3>2
  <2>3. handoffs \in [DOMAIN handoffs -> H]
    <3>1. \A i \in DOMAIN handoffs : handoffs[i] \in H
      BY <2>1 DEF Entry
    <3> HIDE DEF H
    <3>2. handoffs = [i \in DOMAIN handoffs |-> handoffs[i]]
      BY <2>1
    <3>3. QED
      BY <3>1, <3>2
  <2> HIDE DEF R, H
  <2>4. rows \in Seq(R) /\ handoffs \in Seq(H)
    BY <2>1, <2>2, <2>3, SameLength
  <2>5. QED
    BY <2>4 DEF IInv, Scalars, TypeOK, R, H
<1>2. QED
  BY <1>1, Invariance, PTL

(* The invariant types what the rank reads.                                 *)
LEMMA InvRanked ==
  ASSUME IInv
  PROVE  Ranked(handoffs) /\ clock \in Nat /\ DoneBehindClock
BY DEF Ranked, IInv, Scalars, Projected, Linked, Ledger

(* A consultation shows the best of the handoffs attached to it, in         *)
(* whatever order they were stored.                                         *)
THEOREM AlwaysShowsBest == Spec => []ShowsBestAttached
<1>1. IInv => ShowsBestAttached
  <2> SUFFICES ASSUME IInv, NEW n \in DOMAIN rows
               PROVE  /\ rows[n].summary = Best(handoffs, Shown(handoffs, n))
                      /\ \A i \in Shown(handoffs, n) : Eligible(handoffs[i])
    BY DEF ShowsBestAttached
  <2>1. /\ IsBest(handoffs, Shown(handoffs, n), rows[n].summary)
        /\ \A i \in Shown(handoffs, n) : Eligible(handoffs[i])
    BY DEF IInv, Projected, RowsShowBest
  <2>2. Shown(handoffs, n) \subseteq DOMAIN handoffs
    BY DEF Shown
  <2>3. QED
    BY <2>1, <2>2, InvRanked, BestIsBest
<1>2. QED
  BY <1>1, Invariance, PTL

(* The only consultation of an inquiry, once asked for, shows the newest of *)
(* all stored handoffs, in whatever order it and they came.                 *)
THEOREM FirstAlwaysShowsNewest == Spec => []FirstShowsNewest
<1>1. IInv => FirstShowsNewest
  <2> SUFFICES ASSUME IInv, LatestOpen(rows) = 1, rows[1].asked
               PROVE  IF rows[1].summary # 0 THEN Newest(1)
                      ELSE \A i \in DOMAIN handoffs : ~Eligible(handoffs[i])
    BY DEF FirstShowsNewest
  <2>1. Len(rows) = 1 /\ 1 \in DOMAIN rows /\ rows[1].status \in OpenRow
    <3> DEFINE l == LatestOpen(rows)
    <3>1. \/ l = 0
          \/ l = Len(rows) /\ l \in DOMAIN rows /\ rows[l].status \in OpenRow
      BY LatestOpenFacts, Zenon
    <3>2. l = 1
      OBVIOUS
    <3> HIDE DEF l
    <3>3. QED
      BY <3>1, <3>2
  <2>2. \A i \in DOMAIN handoffs : handoffs[i] \in Entry
    BY DEF IInv, Projected, Linked
  <2>3. \A i \in DOMAIN handoffs : handoffs[i].row \in {0, 1}
    <3>1. \A i \in DOMAIN handoffs : handoffs[i].row <= 1
      BY <2>1 DEF IInv, Projected, Linked
    <3>2. QED
      BY <2>2, <3>1 DEF Entry
  <2>4. Pool(handoffs, 1) = {i \in DOMAIN handoffs : Eligible(handoffs[i])}
    BY <2>3 DEF Pool
  <2>5. IsBest(handoffs, Pool(handoffs, 1), rows[1].summary)
    BY <2>1 DEF IInv, Projected, OpenShowsBest
  <2>6. 0 \notin DOMAIN handoffs
    BY LenProperties DEF IInv, Projected, Linked
  <2>7. QED
    BY <2>4, <2>5, <2>6 DEF IsBest, Newest
<1>2. QED
  BY <1>1, Invariance, PTL

(* Lost answers, retries and replays store at most one handoff per AI       *)
(* request, and a reported delivery is a stored one.                        *)
THEOREM AlwaysStoredOnce == Spec => []StoredOnce
<1>1. IInv => StoredOnce
  <2> SUFFICES ASSUME IInv, NEW q \in Requests
               PROVE  /\ Cardinality(Existing(q)) <= 1
                      /\ post[q] = "DELIVERED" => Existing(q) # {}
    BY DEF StoredOnce
  <2>1. post[q] = "DELIVERED" => Existing(q) # {}
    BY DEF IInv, Ledger, DeliveredIsStored, Existing
  <2>2. CASE Existing(q) = {}
    BY <2>1, <2>2, FS_EmptySet
  <2>3. ASSUME NEW i \in Existing(q)
        PROVE  Cardinality(Existing(q)) <= 1
    <3>1. Existing(q) = {i}
      <4>1. i \in DOMAIN handoffs /\ handoffs[i].request = q
        BY <2>3 DEF Existing
      <4>2. \A j \in DOMAIN handoffs : handoffs[j].request = q => j = i
        BY <4>1 DEF IInv, Ledger, RequestsDiffer
      <4>3. QED
        BY <4>1, <4>2 DEF Existing
    <3>2. Cardinality({i}) = 1
      BY FS_Singleton
    <3>3. QED
      BY <3>1, <3>2
  <2>4. QED
    BY <2>1, <2>2, <2>3
<1>2. QED
  BY <1>1, Invariance, PTL

(* The summary a consultant reads is only ever replaced by one made from    *)
(* the same or later answers.                                               *)
THEOREM AlwaysUpgraded == Spec => NeverDowngraded
<1>1. IInv /\ [Next]_vars => [Upgraded]_vars
  BY NextIsGood DEF GoodStep
<1>2. QED
  BY <1>1, Invariance, PTL DEF Spec, NeverDowngraded, Upgraded
===============================================================================
