-------------------------- MODULE LeadHistory_proofs --------------------------
(***************************************************************************)
(* Proofs, for every set of answers and every window and limit, of what     *)
(* LeadDossier says about the origin of its rows: types, where the values   *)
(* of the profile come from, and what the events have told.                 *)
(*                                                                          *)
(* They rest on the order in which the reconciler puts the mentions of a    *)
(* field: the value it chooses exists, is one of the payload, and so has    *)
(* its message in the context and a confidence between 0 and 100.           *)
(***************************************************************************)
EXTENDS LeadDossier_proofs

(***************************************************************************)
(* Greatest and least elements by two keys.                                 *)
(***************************************************************************)
LEMMA GreatestByKey ==
  ASSUME NEW n \in Nat, NEW S, S # {}, NEW F \in [S -> 0..n]
  PROVE  \E i \in S : \A j \in S : F[j] <= F[i]
<1> DEFINE values == {F[i] : i \in S}
<1>1. values \in SUBSET (0..n) /\ values # {} OBVIOUS
<1>2. Max(values) \in values /\ \A v \in values : Max(values) >= v
  <2> HIDE DEF values
  <2> QED BY <1>1, MaxExists
<1>3. PICK i \in S : F[i] = Max(values) BY <1>2
<1>4. \A j \in S : F[j] <= F[i]
  <2>1. TAKE j \in S
  <2>2. F[j] \in values /\ F[i] \in 0..n /\ F[j] \in 0..n OBVIOUS
  <2> HIDE DEF values
  <2> QED BY <1>2, <1>3, <2>2
<1> QED BY <1>4

Greatest(S, F, G, i) == \A j \in S : F[j] < F[i] \/ (F[j] = F[i] /\ G[j] <= G[i])

Least(S, F, G, i) == \A j \in S : F[i] < F[j] \/ (F[j] = F[i] /\ G[i] <= G[j])

LEMMA GreatestByTwoKeys ==
  ASSUME NEW n \in Nat, NEW S, S # {}, NEW F \in [S -> 0..n], NEW G \in [S -> 0..n]
  PROVE  \E i \in S : Greatest(S, F, G, i)
<1>1. PICK i \in S : \A j \in S : F[j] <= F[i] BY GreatestByKey
<1> DEFINE T == {j \in S : F[j] = F[i]}
           H == [j \in T |-> G[j]]
<1>2. T # {} /\ H \in [T -> 0..n] OBVIOUS
<1>3. PICK k \in T : \A j \in T : H[j] <= H[k]
  <2> HIDE DEF T, H
  <2> QED BY <1>2, GreatestByKey
<1>4. k \in S /\ F[k] = F[i] /\ \A j \in T : G[j] <= G[k] BY <1>3
<1>5. \A j \in S : F[j] \in 0..n OBVIOUS
<1>6. Greatest(S, F, G, k)
  <2> SUFFICES ASSUME NEW j \in S
               PROVE  F[j] < F[k] \/ (F[j] = F[k] /\ G[j] <= G[k])
    BY DEF Greatest
  <2>2. F[j] <= F[i] BY <1>1
  <2>3. CASE F[j] = F[i] BY <1>4, <2>3
  <2>4. CASE F[j] # F[i] BY <1>4, <1>5, <2>2, <2>4
  <2> QED BY <2>3, <2>4
<1> QED BY <1>4, <1>6

LEMMA LeastByTwoKeys ==
  ASSUME NEW n \in Nat, NEW S, S # {}, NEW F \in [S -> 0..n], NEW G \in [S -> 0..n]
  PROVE  \E i \in S : Least(S, F, G, i)
<1> DEFINE U == [i \in S |-> n - F[i]]
           V == [i \in S |-> n - G[i]]
<1>1. \A i \in S : F[i] \in 0..n /\ G[i] \in 0..n OBVIOUS
<1>2. U \in [S -> 0..n] /\ V \in [S -> 0..n] BY <1>1
<1>3. PICK i \in S : Greatest(S, U, V, i)
  <2> HIDE DEF U, V
  <2> QED BY <1>2, GreatestByTwoKeys
<1>4. \A j \in S : n - F[j] < n - F[i] \/ (n - F[j] = n - F[i] /\ n - G[j] <= n - G[i])
  BY <1>3 DEF Greatest
<1> HIDE DEF U, V
<1>5. \A j \in S : F[i] < F[j] \/ (F[j] = F[i] /\ G[i] <= G[j]) BY <1>1, <1>4
<1> QED BY <1>5 DEF Least

(***************************************************************************)
(* The mentions of a payload whose messages are in a bounded context.       *)
(***************************************************************************)
Placed(p, n) ==
  /\ WellTyped(p)
  /\ n \in Nat /\ Len(p.fields) <= n
  /\ \A i \in DOMAIN p.fields : p.fields[i].message \in 0..n

LEMMA FieldConfidenceBounds ==
  ASSUME NEW p, WellTyped(p), NEW i \in DOMAIN p.fields
  PROVE  FieldConfidence(p, i) \in 0..100
<1>1. \A m \in Int : Bounded(m) \in 0..100
  <2>1. TAKE m \in Int
  <2>2. PICK top \in Int : top = Min({100, m}) /\ top <= 100 BY DEF Min
  <2>3. Max({0, top}) \in 0..100 BY <2>2 DEF Max
  <2> QED BY <2>2, <2>3 DEF Bounded
<1>2. \A m \in Int : Min({39, m}) \in Int BY DEF Min
<1> DEFINE item == p.fields[i]
           verified == item.confidence - (IF item.verbatim THEN 0 ELSE 20)
           stated == CASE item.state = "inferred" -> verified - 15
                       [] item.state = "unknown"  -> Min({39, verified})
                       [] OTHER                   -> verified
           repeated == IF Cardinality(SameValue(p, i)) > 1 THEN 5 ELSE 0
<1>3. verified \in Int
  <2>1. item.confidence \in 0..100 BY DEF WellTyped
  <2>2. item.confidence - 20 \in Int /\ item.confidence - 0 \in Int
    <3> HIDE DEF item
    <3> QED BY <2>1
  <2> HIDE DEF item
  <2> QED BY <2>2
<1>4. stated \in Int
  <2> HIDE DEF verified
  <2> QED BY <1>2, <1>3
<1>5. repeated \in Int OBVIOUS
<1>6. FieldConfidence(p, i) = Bounded(stated + repeated) BY DEF FieldConfidence
<1> HIDE DEF stated, repeated
<1> QED BY <1>1, <1>4, <1>5, <1>6

LEMMA MentionsArePlaced ==
  ASSUME NEW p, NEW n, Placed(p, n), NEW i \in Mentions(p)
  PROVE  i \in 0..n /\ i \in DOMAIN p.fields /\ p.fields[i].message \in 0..n
  BY DEF Placed, Mentions, WellTyped

LEMMA SameValueIsShared ==
  ASSUME NEW p, NEW i \in Mentions(p), NEW j \in SameValue(p, i)
  PROVE  /\ j \in Mentions(p) /\ i \in SameValue(p, i) /\ i \in SameValue(p, j)
         /\ SameValue(p, j) = SameValue(p, i)
         /\ p.fields[j].field = p.fields[i].field
  BY DEF SameValue

(* Some mention of a field speaks for its value.                             *)
LEMMA SpeakerExists ==
  ASSUME NEW p, NEW n, Placed(p, n), NEW f \in FieldsOf(p)
  PROVE  Speakers(p, f) # {}
<1>1. PICK first \in Mentions(p) : p.fields[first].field = f BY DEF FieldsOf
<1> DEFINE S == SameValue(p, first)
           F == [i \in S |-> FieldConfidence(p, i)]
<1>2. first \in S BY <1>1 DEF SameValue
<1>3. \A i \in S : i \in Mentions(p) /\ i \in DOMAIN p.fields BY DEF SameValue, Mentions
<1>4. F \in [S -> 0..100]
  <2>1. \A i \in S : FieldConfidence(p, i) \in 0..100
    BY <1>3, FieldConfidenceBounds DEF Placed
  <2> QED BY <2>1
<1>5. PICK best \in S : \A j \in S : F[j] <= F[best]
  <2> DEFINE limit == 100
  <2>1. limit \in Nat /\ F \in [S -> 0..limit] BY <1>4
  <2> HIDE DEF limit, S, F
  <2> QED BY <1>2, <2>1, GreatestByKey
<1> DEFINE T == {j \in S : F[j] = F[best]}
           M == [j \in T |-> p.fields[j].message]
           I == [j \in T |-> j]
<1>6. T # {} /\ M \in [T -> 0..n] /\ I \in [T -> 0..n] /\ n \in Nat
  <2>1. \A j \in T : p.fields[j].message \in 0..n /\ j \in 0..n
    BY <1>3, MentionsArePlaced
  <2> QED BY <2>1 DEF Placed
<1>7. PICK i \in T : Greatest(T, M, I, i)
  <2> HIDE DEF T, M, I
  <2> QED BY <1>6, GreatestByTwoKeys
<1>8. i \in S /\ SameValue(p, i) = S /\ p.fields[i].field = f
  BY <1>1, <1>7, SameValueIsShared
<1>9. Speaks(p, i)
  <2> SUFFICES ASSUME NEW j \in S, j # i
               PROVE  \/ FieldConfidence(p, j) < FieldConfidence(p, i)
                      \/ /\ FieldConfidence(p, j) = FieldConfidence(p, i)
                         /\ Earlier(p, j, i)
    BY <1>8 DEF Speaks
  <2>1. F[j] = FieldConfidence(p, j) /\ F[i] = FieldConfidence(p, i) BY <1>8
  <2>2. F[i] = F[best] /\ F[j] <= F[best] BY <1>5, <1>7
  <2>3. F[i] \in 0..100 /\ F[j] \in 0..100 BY <1>4, <1>8
  <2>4. CASE F[j] = F[best]
    <3>1. j \in T /\ M[j] = p.fields[j].message /\ M[i] = p.fields[i].message
          /\ I[j] = j /\ I[i] = i
      BY <1>7, <2>4
    <3>2. j \in 0..n /\ i \in 0..n BY <1>3, <1>8, MentionsArePlaced
    <3>3. Earlier(p, j, i) BY <1>7, <2>4, <3>1, <3>2 DEF Earlier, Greatest
    <3> QED BY <2>1, <2>2, <2>4, <3>3
  <2>5. CASE F[j] # F[best]
    <3> HIDE DEF F
    <3> QED BY <2>1, <2>2, <2>3, <2>5
  <2> QED BY <2>4, <2>5
<1>10. i \in Speakers(p, f) BY <1>3, <1>8, <1>9 DEF Speakers
<1> QED BY <1>10

LEMMA FirstExists ==
  ASSUME NEW p, NEW n, Placed(p, n), NEW i \in Mentions(p)
  PROVE  FirstOf(p, i) \in SameValue(p, i)
<1> DEFINE S == SameValue(p, i)
           M == [j \in S |-> p.fields[j].message]
           I == [j \in S |-> j]
<1>1. i \in S BY DEF SameValue
<1>2. \A j \in S : p.fields[j].message \in 0..n /\ j \in 0..n
  BY MentionsArePlaced DEF SameValue
<1>3. M \in [S -> 0..n] /\ I \in [S -> 0..n] /\ n \in Nat BY <1>2 DEF Placed
<1>4. PICK k \in S : Least(S, M, I, k)
  <2> HIDE DEF S, M, I
  <2> QED BY <1>1, <1>3, LeastByTwoKeys
<1>5. \A j \in S \ {k} : Earlier(p, k, j)
  <2>1. TAKE j \in S \ {k}
  <2>2. M[k] < M[j] \/ (M[j] = M[k] /\ I[k] <= I[j]) BY <1>4 DEF Least
  <2> QED BY <1>2, <2>2 DEF Earlier
<1> QED BY <1>5 DEF FirstOf

(* One mention speaks for each value.                                        *)
LEMMA SpeakersDiffer ==
  ASSUME NEW p, NEW n, Placed(p, n), NEW f,
         NEW i \in Speakers(p, f), NEW j \in Speakers(p, f), j \in SameValue(p, i)
  PROVE  i = j
<1> SUFFICES ASSUME i # j PROVE FALSE OBVIOUS
<1>1. i \in Mentions(p) /\ j \in Mentions(p) /\ Speaks(p, i) /\ Speaks(p, j)
  BY DEF Speakers
<1>2. i \in SameValue(p, j) \ {j} /\ j \in SameValue(p, i) \ {i}
  BY <1>1, SameValueIsShared
<1>3. /\ FieldConfidence(p, i) \in 0..100 /\ FieldConfidence(p, j) \in 0..100
      /\ i \in 0..n /\ j \in 0..n
      /\ p.fields[i].message \in 0..n /\ p.fields[j].message \in 0..n
  BY <1>1, MentionsArePlaced, FieldConfidenceBounds DEF Placed
<1>4. /\ \/ FieldConfidence(p, j) < FieldConfidence(p, i)
         \/ FieldConfidence(p, j) = FieldConfidence(p, i) /\ Earlier(p, j, i)
      /\ \/ FieldConfidence(p, i) < FieldConfidence(p, j)
         \/ FieldConfidence(p, i) = FieldConfidence(p, j) /\ Earlier(p, i, j)
  BY <1>1, <1>2 DEF Speaks
<1>5. ~(Earlier(p, i, j) /\ Earlier(p, j, i)) BY <1>3 DEF Earlier
<1> QED BY <1>3, <1>4, <1>5

(* Of the values of a field one is the latest.                               *)
LEMMA LatestExists ==
  ASSUME NEW p, NEW n, Placed(p, n), NEW f, NEW S \in SUBSET Speakers(p, f), S # {}
  PROVE  LatestOf(p, S) \in S
<1> DEFINE F == [i \in S |-> p.fields[i].message]
           First == [i \in S |-> FirstOf(p, i)]
<1>1. \A i \in S : i \in Mentions(p) BY DEF Speakers
<1>2. \A i \in S : /\ p.fields[i].message \in 0..n
                   /\ First[i] \in SameValue(p, i) /\ First[i] \in Mentions(p)
                   /\ First[i] \in 0..n /\ p.fields[First[i]].message \in 0..n
  <2>1. TAKE i \in S
  <2>2. First[i] \in SameValue(p, i) /\ i \in Mentions(p) BY <1>1, FirstExists
  <2>3. First[i] \in Mentions(p) BY <2>2 DEF SameValue
  <2> HIDE DEF First
  <2> QED BY <2>2, <2>3, MentionsArePlaced
<1>3. n \in Nat /\ F \in [S -> 0..n] BY <1>2 DEF Placed
<1>4. PICK m \in S : \A j \in S : F[j] <= F[m]
  <2> HIDE DEF F
  <2> QED BY <1>3, GreatestByKey
<1> DEFINE T == {j \in S : F[j] = F[m]}
           M == [j \in T |-> p.fields[First[j]].message]
           I == [j \in T |-> First[j]]
<1>5. T # {} /\ M \in [T -> 0..n] /\ I \in [T -> 0..n]
  <2> HIDE DEF F, First
  <2> QED BY <1>2
<1>6. PICK i \in T : Greatest(T, M, I, i)
  <2> HIDE DEF T, M, I
  <2> QED BY <1>3, <1>5, GreatestByTwoKeys
<1>7. \A j \in S \ {i} :
        \/ p.fields[j].message < p.fields[i].message
        \/ /\ p.fields[j].message = p.fields[i].message
           /\ Earlier(p, FirstOf(p, j), FirstOf(p, i))
  <2>1. TAKE j \in S \ {i}
  <2>2. F[j] = p.fields[j].message /\ F[i] = p.fields[i].message /\ F[i] = F[m]
        /\ F[j] <= F[m] /\ i \in S
    BY <1>4, <1>6
  <2>3. p.fields[i].message \in 0..n /\ p.fields[j].message \in 0..n BY <1>2, <2>2
  <2>4. CASE j \in T
    <3>1. First[j] # First[i]
      <4> SUFFICES ASSUME First[j] = First[i] PROVE FALSE OBVIOUS
      <4>1. First[i] \in SameValue(p, i) /\ First[i] \in SameValue(p, j) BY <1>2, <2>2
      <4>2. j \in SameValue(p, i)
        <5> HIDE DEF First
        <5>1. j \in Mentions(p) /\ i \in Mentions(p) BY <1>1, <2>2
        <5>2. SameValue(p, First[i]) = SameValue(p, i)
              /\ SameValue(p, First[i]) = SameValue(p, j) /\ j \in SameValue(p, j)
          BY <4>1, <5>1, SameValueIsShared
        <5> QED BY <5>2
      <4> QED BY <2>1, <2>2, <4>2, SpeakersDiffer
    <3>2. /\ M[j] = p.fields[First[j]].message /\ M[i] = p.fields[First[i]].message
          /\ I[j] = First[j] /\ I[i] = First[i]
      BY <1>6, <2>4
    <3>3. First[j] \in 0..n /\ First[i] \in 0..n BY <1>2, <2>2
    <3>4. M[j] < M[i] \/ (M[j] = M[i] /\ I[j] <= I[i]) BY <1>6, <2>4 DEF Greatest
    <3>5. Earlier(p, First[j], First[i])
      <4> HIDE DEF First, M, I, F, T
      <4> QED BY <3>1, <3>2, <3>3, <3>4 DEF Earlier
    <3>6. First[j] = FirstOf(p, j) /\ First[i] = FirstOf(p, i) BY <2>2
    <3>7. p.fields[j].message = p.fields[i].message BY <2>2, <2>4
    <3> QED BY <3>5, <3>6, <3>7
  <2>5. CASE j \notin T
    <3>1. F[j] # F[m] BY <2>5
    <3> HIDE DEF F
    <3> QED BY <2>2, <2>3, <3>1
  <2> QED BY <2>4, <2>5
<1>8. i \in S BY <1>6
<1> QED BY <1>7, <1>8 DEF LatestOf
(***************************************************************************)
(* What an extraction is made of.                                           *)
(***************************************************************************)
FieldOK(item, context) ==
  /\ item.message \in context
  /\ item.confidence \in 0..100
  /\ item.treatment \in {"auto_accept", "provisional"} => item.confidence >= Provisional

SignalsBounded(proposed) ==
  /\ \A q \in proposed : q.confidence \in 0..100
  /\ \E n \in Nat : \A q \in proposed : q.place \in 0..n

SourcesOK(x, context, heard) ==
  /\ \A f \in DOMAIN x.fields : FieldOK(x.fields[f], context)
  /\ SignalsBounded(x.signals)
  /\ heard \subseteq x.controls

LEMMA ReconciledIsOK ==
  ASSUME NEW p, NEW n, Placed(p, n), NEW profile, NEW context, NEW f \in FieldsOf(p),
         \A i \in DOMAIN p.fields : p.fields[i].message \in context
  PROVE  /\ FieldOK(Reconciled(p, profile, f), context)
         /\ Reconciled(p, profile, f).doubt \in 0..100
<1> DEFINE latest == LatestOf(p, Speakers(p, f))
           others == Speakers(p, f) \ {latest}
           sure == FieldConfidence(p, latest)
           item == p.fields[latest]
           contradicted == others # {} \/ (f \in DOMAIN profile /\ profile[f].value # item.value)
           previous == IF others = {} THEN latest ELSE LatestOf(p, others)
           r == Reconciled(p, profile, f)
<1>1. latest \in Speakers(p, f) BY SpeakerExists, LatestExists
<1>2. previous \in Speakers(p, f)
  <2>1. others # {} => LatestOf(p, others) \in others
    <3>1. others \in SUBSET Speakers(p, f) OBVIOUS
    <3> HIDE DEF others
    <3> QED BY <3>1, LatestExists
  <2> QED BY <1>1, <2>1
<1>3. \A i \in Speakers(p, f) : i \in DOMAIN p.fields BY DEF Speakers, Mentions
<1>4. sure \in 0..100 /\ FieldConfidence(p, previous) \in 0..100
  <2> HIDE DEF latest, previous
  <2> QED BY <1>1, <1>2, <1>3, FieldConfidenceBounds DEF Placed
<1>5. /\ r.message = item.message
      /\ r.confidence = IF contradicted THEN Max({0, sure - 25}) ELSE sure
      /\ r.treatment = IF contradicted THEN "contradicted" ELSE Treatment(sure, item.state)
      /\ r.doubt = Min({sure, FieldConfidence(p, previous)})
  BY DEF Reconciled
<1>6. item.message \in context
  <2> HIDE DEF latest
  <2> QED BY <1>1, <1>3
<1> HIDE DEF sure, previous, contradicted, item, r
<1>7. r.confidence \in 0..100
  <2>1. sure - 25 \in Int BY <1>4
  <2>2. Max({0, sure - 25}) \in {0, sure - 25} /\ Max({0, sure - 25}) >= 0
    <3>1. \A a \in Int : Max({0, a}) \in {0, a} /\ Max({0, a}) >= 0 BY DEF Max
    <3> QED BY <2>1, <3>1
  <2> QED BY <1>4, <1>5, <2>2
<1>8. r.doubt \in 0..100 BY <1>4, <1>5 DEF Min
<1>9. r.treatment \in {"auto_accept", "provisional"} => r.confidence >= Provisional
  BY <1>4, <1>5 DEF Treatment, AutoAccept, Provisional
<1> QED BY <1>5, <1>6, <1>7, <1>8, <1>9 DEF FieldOK, r

LEMMA SignalsAreBounded ==
  ASSUME NEW p, WellTyped(p), NEW heard, NEW fields,
         \A f \in DOMAIN fields : fields[f].doubt \in 0..100
  PROVE  SignalsBounded(Signals(p, heard, fields))
<1> DEFINE n == Len(p.signals)
           stop == ControlProposal(p, heard, n + 1, "do_not_contact", "do_not_contact")
           person == ControlProposal(p, heard, n + 2, "human_requested", "requests_human")
           doubt == ContradictionProposal(n + 3, fields)
           intent == FindingProposal(p, n + 4, p.intent, IntentSignal)
           urgency == FindingProposal(p, n + 5, p.urgency, UrgencySignal)
           offer == OpportunityProposal(p, n + 6)
<1>1. n \in Nat /\ DOMAIN p.signals = 1..n BY DEF WellTyped
<1>2. Signals(p, heard, fields) =
        Provided(p) \cup stop \cup person \cup doubt \cup intent \cup urgency \cup offer
  BY DEF Signals
<1>3. EvidenceConfidence(p.opportunity) \in 0..100 BY EvidenceBounds DEF WellTyped
<1>4. \A c \in AcceptedControls(p, heard) : ControlConfidence(p, heard, c) \in 0..100
  BY ControlIsSure DEF AutoAccept
<1>5. /\ \A q \in stop : q.confidence \in 0..100 /\ q.place = n + 1
      /\ \A q \in person : q.confidence \in 0..100 /\ q.place = n + 2
  <2> DEFINE sure(c) == ControlConfidence(p, heard, c)
             Controlling(place, c, code) ==
               When(c \in AcceptedControls(p, heard), Propose(place, code, sure(c), TRUE))
  <2>1. \A c : c \in AcceptedControls(p, heard) => sure(c) \in 0..100 BY <1>4
  <2> HIDE DEF sure
  <2>2. \A place, c, code : \A q \in Controlling(place, c, code) :
          q.confidence \in 0..100 /\ q.place = place
    BY <2>1 DEF When, Propose
  <2>3. /\ stop = Controlling(n + 1, "do_not_contact", "do_not_contact")
        /\ person = Controlling(n + 2, "human_requested", "requests_human")
    BY DEF ControlProposal, sure
  <2> HIDE DEF Controlling, stop, person
  <2> QED BY <2>2, <2>3
<1>6. /\ \A q \in intent : q.confidence \in 0..100 /\ q.place = n + 4
      /\ \A q \in urgency : q.confidence \in 0..100 /\ q.place = n + 5
  BY <1>3 DEF FindingProposal, When, Propose
<1>7. \A q \in offer : q.confidence \in 0..100 /\ q.place = n + 6
  BY <1>3 DEF OpportunityProposal, When, Propose
<1>8. \A q \in doubt : q.confidence \in 0..100 /\ q.place = n + 3
  <2> DEFINE doubts == {fields[f].doubt : f \in Contradictions(fields)}
  <2>1. Contradictions(fields) # {} => Min(doubts) \in 0..100
    <3>1. doubts \in SUBSET (0..100) BY DEF Contradictions
    <3>2. doubts \in SUBSET Nat BY <3>1
    <3>3. Contradictions(fields) # {} => doubts # {} OBVIOUS
    <3> HIDE DEF doubts
    <3> QED BY <3>1, <3>2, <3>3, MinExists
  <2>2. doubt = When(Contradictions(fields) # {},
                     Propose(n + 3, "contradictory_information", Min(doubts), TRUE))
    BY DEF ContradictionProposal
  <2> HIDE DEF doubts, doubt
  <2> QED BY <2>1, <2>2 DEF When, Propose
<1>9. \A q \in Provided(p) : q.confidence \in 0..100 /\ q.place \in 1..n
  <2>1. \A i \in DOMAIN p.signals : EvidenceConfidence(p.signals[i]) \in 0..100
    BY EvidenceBounds DEF WellTyped
  <2> QED BY <1>1, <2>1 DEF Provided, Propose, AcceptedSignals
<1> HIDE DEF n, stop, person, doubt, intent, urgency, offer
<1>10. \A q \in Signals(p, heard, fields) : q.confidence \in 0..100 /\ q.place \in 0..(n + 6)
  BY <1>1, <1>2, <1>5, <1>6, <1>7, <1>8, <1>9
<1>11. n + 6 \in Nat BY <1>1
<1> QED BY <1>10, <1>11 DEF SignalsBounded

LEMMA AcceptedHasSources ==
  ASSUME NEW p, NEW n, Placed(p, n), NEW heard, NEW profile, NEW recent, NEW context,
         \A i \in DOMAIN p.fields : p.fields[i].message \in context
  PROVE  SourcesOK(Accept(p, heard, profile, recent), context, heard)
<1> DEFINE x == Accept(p, heard, profile, recent)
           fields == Resolve(p, profile)
<1>1. /\ x.fields = fields
      /\ x.controls = AcceptedControls(p, heard)
      /\ x.signals = Signals(p, heard, fields)
  BY DEF Accept
<1>2. \A f \in DOMAIN fields : FieldOK(fields[f], context) /\ fields[f].doubt \in 0..100
  <2>1. TAKE f \in DOMAIN fields
  <2>2. f \in FieldsOf(p) /\ fields[f] = Reconciled(p, profile, f) BY DEF Resolve
  <2> HIDE DEF fields
  <2> QED BY <2>2, ReconciledIsOK
<1> HIDE DEF x, fields
<1>3. SignalsBounded(x.signals) BY <1>1, <1>2, SignalsAreBounded DEF Placed
<1>4. heard \subseteq x.controls BY <1>1 DEF AcceptedControls
<1> QED BY <1>1, <1>2, <1>3, <1>4 DEF SourcesOK, x

LEMMA DegradedHasSources ==
  ASSUME NEW o \in Opportunities, NEW newest, NEW heard, NEW profile, NEW context
  PROVE  SourcesOK(Degraded(o, newest, heard, profile), context, heard)
<1> DEFINE p == Fallback(o, newest)
           full == Accept(p, heard, profile, {})
           x == Degraded(o, newest, heard, profile)
<1>1. /\ p.fields = <<>> /\ p.signals = <<>> /\ p.controls = {}
      /\ p.opportunity.primary = o /\ p.opportunity.confidence \in 0..100
      /\ p.handoff.value = None
  BY DEF Fallback, Nothing
<1> HIDE DEF p
<1>2. Placed(p, 0) BY <1>1 DEF WellTyped, Placed
<1>3. DOMAIN p.fields = {} BY <1>1
<1>4. SourcesOK(full, context, heard) BY <1>2, <1>3, AcceptedHasSources
<1>5. x.fields = full.fields /\ x.controls = full.controls /\ x.signals = full.signals
  BY DEF Degraded, Accept, p
<1> HIDE DEF x, full
<1> QED BY <1>4, <1>5 DEF SourcesOK, x

(* What the signals of the lead become is in their range.                    *)
LEMMA SignalsStayBounded ==
  ASSUME NEW proposed, SignalsBounded(proposed),
         \A s \in DOMAIN signals : signals[s] \in 0..100
  PROVE  \A s \in DOMAIN SignalsAfter(proposed) : SignalsAfter(proposed)[s] \in 0..100
<1> SUFFICES ASSUME NEW s \in DOMAIN SignalsAfter(proposed)
             PROVE  SignalsAfter(proposed)[s] \in 0..100
  OBVIOUS
<1> DEFINE old == IF s \in Remaining(proposed) THEN {signals[s]} ELSE {}
           new == IF s \in Entering(proposed) THEN {Inserted(proposed, s).confidence} ELSE {}
           all == old \cup new
<1>1. s \in Remaining(proposed) \cup Entering(proposed)
      /\ SignalsAfter(proposed)[s] = Max(all)
  BY DEF SignalsAfter
<1>2. s \in Entering(proposed) => Inserted(proposed, s).confidence \in 0..100
  <2> SUFFICES ASSUME s \in Entering(proposed)
               PROVE  Inserted(proposed, s) \in proposed
    BY DEF SignalsBounded
  <2> DEFINE firm == {q \in Of(proposed, s) : q.firm}
             places == {q.place : q \in firm}
  <2>1. CASE firm # {}
    <3>1. PICK n \in Nat : \A q \in proposed : q.place \in 0..n BY DEF SignalsBounded
    <3>2. places \in SUBSET (0..n) /\ places # {} BY <2>1, <3>1 DEF Of
    <3>3. Max(places) \in places /\ \A i \in places : Max(places) >= i
      <4> HIDE DEF places
      <4> QED BY <3>2, MaxExists
    <3>4. \E q \in firm : \A r \in firm : r.place <= q.place
      <4>1. PICK q \in firm : q.place = Max(places) BY <3>3
      <4>2. \A r \in firm : r.place \in places OBVIOUS
      <4>3. \A i \in places : i \in 0..n BY <3>2
      <4> HIDE DEF places, firm
      <4> QED BY <3>3, <4>1, <4>2, <4>3
    <3>5. Inserted(proposed, s) \in firm BY <2>1, <3>4 DEF Inserted
    <3> QED BY <3>5 DEF Of
  <2>2. CASE firm = {}
    <3>1. \E q \in Of(proposed, s) : q.place = Place(proposed, s)
      <4>1. \A q \in proposed : q.place \in Nat BY DEF SignalsBounded
      <4>2. s \in Codes(proposed) BY DEF Entering
      <4> QED BY <4>1, <4>2, PlaceExists
    <3>2. Inserted(proposed, s) \in Of(proposed, s) BY <2>2, <3>1 DEF Inserted
    <3> QED BY <3>2 DEF Of
  <2> QED BY <2>1, <2>2
<1>3. s \in Remaining(proposed) => signals[s] \in 0..100 BY DEF Remaining
<1>4. all \in SUBSET (0..100) /\ all # {} BY <1>1, <1>2, <1>3
<1>5. Max(all) \in all
  <2> HIDE DEF all
  <2> QED BY <1>4, MaxExists
<1> QED BY <1>1, <1>4, <1>5
(***************************************************************************)
(* The invariant.                                                           *)
(***************************************************************************)
JobTyped ==
  job # Idle => /\ job.pc \in {"calling", "extracted"}
                /\ job.message \in Messages \ handled
                /\ job.context \subseteq Messages

(* While a handoff is requested only a message that asks for no more contact *)
(* is processed, and what it asks for is among the controls of its result.   *)
JobHistory ==
  /\ job # Idle /\ handoff.status = "requested" =>
       "do_not_contact" \in inbox[job.message].says
  /\ job.pc = "extracted" =>
       SourcesOK(job.extraction, job.context, Heard(inbox, job.context))

WaitingIsRequested == conversation = "waiting_human" => handoff.status = "requested"

HistoryInv ==
  /\ TypeOK
  /\ FactsFromContext
  /\ SubscribersKnow
  /\ JobHistory
  /\ WaitingIsRequested

LEMMA InitHistory == Init => HistoryInv
<1> SUFFICES ASSUME Init PROVE HistoryInv OBVIOUS
<1>1. Len(inbox) = 0 /\ DOMAIN inbox = {} BY DEF Init
<1>2. TypeOK
  BY <1>1, DossierAssumption
     DEF Init, TypeOK, DossierAssumption, Opportunities, Required, LeadState, NotEvaluated,
         ConversationState, NoHandoff, None
<1>3. FactsFromContext BY DEF Init, FactsFromContext
<1>4. SubscribersKnow
  <2>1. /\ told.fields = {} /\ told.score = 0 /\ told.classification = None
        /\ told.optedOut = FALSE /\ told.handedOff = FALSE /\ told.paused = FALSE
    BY DEF Init, NothingTold
  <2>2. /\ DOMAIN facts = {} /\ evaluation.score = 0 /\ evaluation.classification = None
        /\ optedOut = FALSE /\ handoff.status = "none" /\ conversation = "open"
    BY DEF Init, NotEvaluated, NoHandoff
  <2>3. told.handedOff = (handoff.status # "none") BY <2>1, <2>2
  <2>4. told.paused = (conversation \in {"waiting_human", "do_not_contact"})
    <3>1. (conversation \in {"waiting_human", "do_not_contact"}) = FALSE BY <2>2
    <3> QED BY <2>1, <3>1
  <2> QED BY <2>1, <2>2, <2>3, <2>4 DEF SubscribersKnow
<1>5. JobHistory /\ WaitingIsRequested BY DEF Init, JobHistory, WaitingIsRequested, Idle
<1> QED BY <1>2, <1>3, <1>4, <1>5 DEF HistoryInv

(* Messages arrive, age and are settled, and the records stay as they are.   *)
LEMMA QuietHistory ==
  ASSUME HistoryInv, UNCHANGED <<records, executions>>,
         inbox' \in Seq(Texts), Len(inbox') <= MaxMessages, Messages \subseteq Messages',
         aged' \in 0..Len(inbox'),
         handled \subseteq handled', handled' \subseteq Messages',
         JobTyped', JobHistory'
  PROVE  HistoryInv'
<1>1. /\ facts' = facts /\ conflicts' = conflicts /\ signals' = signals /\ lead' = lead
      /\ evaluation' = evaluation /\ asked' = asked /\ pending' = pending
      /\ conversation' = conversation /\ handoff' = handoff /\ optedOut' = optedOut
      /\ told' = told /\ executions' = executions
  BY DEF records
<1>2. executions' \subseteq [message : handled', context : SUBSET Messages']
  BY <1>1 DEF HistoryInv, TypeOK
<1>3. TypeOK' BY <1>1, <1>2 DEF HistoryInv, TypeOK, JobTyped
<1>4. FactsFromContext' BY <1>1 DEF HistoryInv, FactsFromContext
<1>5. SubscribersKnow' BY <1>1 DEF HistoryInv, SubscribersKnow
<1>6. WaitingIsRequested' BY <1>1 DEF HistoryInv, WaitingIsRequested
<1> QED BY <1>3, <1>4, <1>5, <1>6 DEF HistoryInv

LEMMA HeardStays ==
  ASSUME NEW inbox1, NEW inbox2, NEW context,
         \A m \in context : inbox2[m] = inbox1[m]
  PROVE  Heard(inbox2, context) = Heard(inbox1, context)
  BY DEF Heard

LEMMA ReceiveHistory ==
  ASSUME HistoryInv, NEW text \in Texts, Receive(text)
  PROVE  HistoryInv'
<1>1. /\ inbox \in Seq(Texts) /\ inbox' = Append(inbox, text) /\ Len(inbox) < MaxMessages
      /\ UNCHANGED <<records, executions>> /\ aged' = aged /\ handled' = handled
      /\ job' = job /\ handoff' = handoff
  BY DEF Receive, records, HistoryInv, TypeOK
<1>2. /\ inbox' \in Seq(Texts) /\ Len(inbox') = Len(inbox) + 1
      /\ Messages \subseteq Messages' /\ \A m \in Messages : inbox'[m] = inbox[m]
  BY <1>1 DEF Messages
<1>3. Len(inbox') <= MaxMessages
  BY <1>1, <1>2, DossierAssumption DEF DossierAssumption
<1>4. aged' \in 0..Len(inbox') BY <1>1, <1>2 DEF HistoryInv, TypeOK
<1>5. handled' \subseteq Messages' BY <1>1, <1>2 DEF HistoryInv, TypeOK
<1>6. JobTyped' BY <1>1, <1>2 DEF JobTyped, HistoryInv, TypeOK
<1>7. JobHistory'
  <2>1. CASE job = Idle
    BY <1>1, <2>1 DEF JobHistory, Idle
  <2>2. CASE job # Idle
    <3>1. job.message \in Messages /\ job.context \subseteq Messages
      BY <2>2 DEF HistoryInv, TypeOK
    <3>2. Heard(inbox', job.context) = Heard(inbox, job.context)
      BY <1>2, <3>1, HeardStays
    <3> QED BY <1>1, <1>2, <3>1, <3>2 DEF JobHistory, HistoryInv
  <2> QED BY <2>1, <2>2
<1> QED BY <1>1, <1>2, <1>3, <1>4, <1>5, <1>6, <1>7, QuietHistory

(* Steps of the worker that apply nothing.                                   *)
LEMMA WorkerHistory ==
  ASSUME HistoryInv, UNCHANGED <<inbox, aged, executions, records>>,
         handled \subseteq handled', handled' \subseteq Messages, JobTyped', JobHistory'
  PROVE  HistoryInv'
<1>1. /\ inbox' = inbox /\ aged' = aged /\ Messages' = Messages BY DEF Messages
<1>2. /\ inbox \in Seq(Texts) /\ Len(inbox) <= MaxMessages /\ aged \in 0..Len(inbox)
  BY DEF HistoryInv, TypeOK
<1> QED BY <1>1, <1>2, QuietHistory

LEMMA OldestExists ==
  ASSUME HistoryInv, Unhandled # {}
  PROVE  Oldest \in Unhandled
<1>1. Unhandled \in SUBSET Nat BY DEF Unhandled, Messages, HistoryInv, TypeOK
<1>2. Min(Unhandled) \in Unhandled /\ \A n \in Unhandled : Min(Unhandled) <= n
  BY <1>1, MinExists
<1> QED BY <1>2 DEF Oldest

LEMMA BlockHistory ==
  ASSUME HistoryInv, Block
  PROVE  HistoryInv'
<1>1. Oldest \in Unhandled BY OldestExists DEF Block
<1>2. handled' = handled \cup {Oldest} /\ job = Idle /\ job' = job
      /\ UNCHANGED <<inbox, aged, executions, records>>
  BY DEF Block
<1>3. handled' \subseteq Messages BY <1>1, <1>2 DEF Unhandled, HistoryInv, TypeOK
<1>4. JobTyped' /\ JobHistory' BY <1>2 DEF JobTyped, JobHistory, Idle
<1> QED BY <1>2, <1>3, <1>4, WorkerHistory

LEMMA PrepareHistory ==
  ASSUME HistoryInv, Prepare
  PROVE  HistoryInv'
<1>1. Oldest \in Unhandled BY OldestExists DEF Prepare
<1>2. PICK selected \in Selections(inbox, aged) :
        job' = [pc |-> "calling", message |-> Oldest, context |-> selected, attempt |-> 0]
  BY DEF Prepare
<1>3. UNCHANGED <<inbox, aged, handled, executions, records>> /\ ~Blocked(Oldest)
  BY DEF Prepare
<1>4. selected \subseteq Messages
  <2>1. Len(inbox) \in Messages
    BY <1>1 DEF Unhandled, Messages, HistoryInv, TypeOK
  <2>2. Eligible(inbox, aged) \subseteq Messages BY <2>1 DEF Eligible, Messages
  <2> QED BY <2>2 DEF Selections
<1>5. JobTyped' BY <1>1, <1>2, <1>3, <1>4 DEF JobTyped, Unhandled, Messages
<1>6. JobHistory'
  <2>1. inbox' = inbox /\ handoff' = handoff /\ job'.message = Oldest /\ job'.pc = "calling"
    BY <1>2, <1>3 DEF records
  <2>2. handoff.status = "requested" => "do_not_contact" \in inbox[Oldest].says
    BY <1>3 DEF Blocked
  <2> QED BY <2>1, <2>2 DEF JobHistory
<1>7. handled' = handled /\ handled \subseteq Messages BY <1>3 DEF HistoryInv, TypeOK
<1> QED BY <1>3, <1>5, <1>6, <1>7, WorkerHistory

(* An extraction from the job of a worker.                                   *)
LEMMA ExtractedHistory ==
  ASSUME HistoryInv, job # Idle, NEW x, Extracted(x),
         SourcesOK(x, job.context, Heard(inbox, job.context)),
         UNCHANGED <<inbox, aged, handled, executions, records>>
  PROVE  HistoryInv'
<1>1. /\ job'.pc = "extracted" /\ job'.message = job.message /\ job'.context = job.context
      /\ job'.extraction = x /\ inbox' = inbox /\ handled' = handled /\ handoff' = handoff
  BY DEF Extracted, records
<1>2. job.message \in Messages \ handled /\ job.context \subseteq Messages
      /\ handled \subseteq Messages
  BY DEF HistoryInv, TypeOK
<1>3. JobTyped' BY <1>1, <1>2 DEF JobTyped, Messages
<1>4. JobHistory' BY <1>1 DEF JobHistory, HistoryInv
<1> QED BY <1>1, <1>2, <1>3, <1>4, WorkerHistory

LEMMA FailedHistory ==
  ASSUME DossierInv, HistoryInv, job.pc = "calling", NEW failure, Failed(failure),
         UNCHANGED <<inbox, aged, handled, executions, records>>
  PROVE  HistoryInv'
<1>1. job # Idle BY DEF Idle
<1>2. CASE Retryable[failure] /\ job.attempt < MaxRetries
  <2>1. job' = [job EXCEPT !.attempt = job.attempt + 1] BY <1>2 DEF Failed
  <2>2. /\ job'.pc = job.pc /\ job'.message = job.message /\ job'.context = job.context
        /\ inbox' = inbox /\ handled' = handled /\ handoff' = handoff
    BY <2>1 DEF records
  <2>3. job.message \in Messages \ handled /\ job.context \subseteq Messages
        /\ handled \subseteq Messages
    BY <1>1 DEF HistoryInv, TypeOK
  <2>4. JobTyped' BY <2>2, <2>3 DEF JobTyped, Messages
  <2>5. JobHistory' BY <1>1, <2>2 DEF JobHistory, HistoryInv
  <2> QED BY <2>2, <2>3, <2>4, <2>5, WorkerHistory
<1>3. CASE ~(Retryable[failure] /\ job.attempt < MaxRetries)
  <2> DEFINE x == Degraded(lead.opportunity, Max(job.context), Heard(inbox, job.context), facts)
  <2>1. Extracted(x) BY <1>3 DEF Failed
  <2>2. SourcesOK(x, job.context, Heard(inbox, job.context))
    BY DegradedHasSources DEF DossierInv, RowsInv
  <2> HIDE DEF x
  <2> QED BY <1>1, <2>1, <2>2, ExtractedHistory
<1> QED BY <1>2, <1>3

LEMMA AnswerHistory ==
  ASSUME DossierInv, HistoryInv, NEW p \in Payloads, ProviderAnswers(p)
  PROVE  HistoryInv'
<1>1. job.pc = "calling" /\ job # Idle
      /\ UNCHANGED <<inbox, aged, handled, executions, records>>
  BY DEF ProviderAnswers, Idle
<1>2. CASE Normalizable(p, job.context)
  <2> DEFINE x == Accept(p, Heard(inbox, job.context), facts, Recent)
             n == Len(p.fields) + Len(inbox)
  <2>1. Extracted(x) BY <1>2 DEF ProviderAnswers
  <2>2. WellTyped(p) BY <1>2, PayloadsAssumption DEF Normalizable
  <2>3. \A i \in DOMAIN p.fields : p.fields[i].message \in job.context
    <3>1. TAKE i \in DOMAIN p.fields
    <3>2. p.fields[i].message \in Nat \ {0} BY <2>2 DEF WellTyped
    <3>3. p.fields[i].message \in References(p) BY <3>2 DEF References
    <3> QED BY <1>2, <3>3 DEF Normalizable
  <2>4. job.context \subseteq 1..Len(inbox) /\ Len(inbox) \in Nat
    BY <1>1 DEF HistoryInv, TypeOK, Messages
  <2>5. Placed(p, n)
    <3>1. Len(p.fields) \in Nat BY <2>2 DEF WellTyped
    <3>2. \A i \in DOMAIN p.fields : p.fields[i].message \in 0..n BY <2>3, <2>4, <3>1
    <3> QED BY <2>2, <2>4, <3>1, <3>2 DEF Placed
  <2>6. SourcesOK(x, job.context, Heard(inbox, job.context))
    <3> HIDE DEF n
    <3> QED BY <2>3, <2>5, AcceptedHasSources
  <2> HIDE DEF x
  <2> QED BY <1>1, <2>1, <2>6, ExtractedHistory
<1>3. CASE ~Normalizable(p, job.context)
  <2>1. Failed("invalid_response") BY <1>3 DEF ProviderAnswers
  <2> QED BY <1>1, <2>1, FailedHistory
<1> QED BY <1>2, <1>3

LEMMA RefuseHistory ==
  ASSUME HistoryInv, Refuse
  PROVE  HistoryInv'
<1>1. job # Idle /\ UNCHANGED <<inbox, aged, executions, records>>
      /\ handled' = handled \cup {job.message} /\ job' = Idle
  BY DEF Refuse, Complete, Idle
<1>2. handled' \subseteq Messages BY <1>1 DEF HistoryInv, TypeOK
<1>3. JobTyped' /\ JobHistory' BY <1>1 DEF JobTyped, JobHistory, Idle
<1> QED BY <1>1, <1>2, <1>3, WorkerHistory
(***************************************************************************)
(* An application.                                                          *)
(***************************************************************************)

(* The view of a subscriber that took every event before, after the events   *)
(* of an application.                                                        *)
Follows(after, view, changed, result, optOut, handedOff) ==
  /\ after.fields = view.fields \cup changed
  /\ after.score = result.score
  /\ after.classification = result.classification
  /\ after.optedOut = (view.optedOut \/ optOut)
  /\ after.handedOff = (view.handedOff \/ handedOff)
  /\ after.paused = (view.paused \/ optOut \/ handedOff)

LEMMA EventsTell ==
  ASSUME NEW view, NEW changed, NEW disputed \in BOOLEAN, NEW result,
         NEW optOut \in BOOLEAN, NEW handedOff \in BOOLEAN,
         view.classification = evaluation.classification
  PROVE  Follows(AfterEvents(view, Announced(changed, disputed, result, optOut, handedOff)),
                 view, changed, result, optOut, handedOff)
<1> DEFINE evaluated == [event |-> "QualificationEvaluationCreated", score |-> result.score]
           updated == [event |-> "LeadProfileUpdated", fields |-> changed]
           classified == [event |-> "LeadClassificationChanged",
                          current |-> result.classification]
           stopped == [event |-> "DoNotContactRegistered"]
           requested == [event |-> "HandoffRequested"]
           suspended == [event |-> "ConversationAutomationPaused"]
           events == Announced(changed, disputed, result, optOut, handedOff)
           E(name) == {e \in events : e.event = name}
           The(name) == CHOOSE e \in E(name) : TRUE
           after == AfterEvents(view, events)
<1>1. events = {evaluated}
               \cup When(changed # {} \/ disputed, {updated})
               \cup When(result.classification # evaluation.classification, {classified})
               \cup When(optOut, {stopped})
               \cup When(handedOff, {requested})
               \cup When(optOut \/ handedOff, {suspended})
  BY DEF Announced
<1>2. /\ evaluated.event = "QualificationEvaluationCreated"
      /\ evaluated.score = result.score
      /\ updated.event = "LeadProfileUpdated" /\ updated.fields = changed
      /\ classified.event = "LeadClassificationChanged"
      /\ classified.current = result.classification
      /\ stopped.event = "DoNotContactRegistered"
      /\ requested.event = "HandoffRequested"
      /\ suspended.event = "ConversationAutomationPaused"
  OBVIOUS
<1>3. /\ after.fields = view.fields \cup UNION {e.fields : e \in E("LeadProfileUpdated")}
      /\ after.score = IF E("QualificationEvaluationCreated") # {}
                         THEN The("QualificationEvaluationCreated").score ELSE view.score
      /\ after.classification = IF E("LeadClassificationChanged") # {}
                                  THEN The("LeadClassificationChanged").current
                                  ELSE view.classification
      /\ after.optedOut = (view.optedOut \/ E("DoNotContactRegistered") # {})
      /\ after.handedOff = (view.handedOff \/ E("HandoffRequested") # {})
      /\ after.paused = (view.paused \/ E("ConversationAutomationPaused") # {})
  BY DEF AfterEvents
<1> HIDE DEF evaluated, updated, classified, stopped, requested, suspended, events, after
<1>4. E("QualificationEvaluationCreated") = {evaluated} BY <1>1, <1>2 DEF When
<1>5. E("LeadProfileUpdated") = IF changed # {} \/ disputed THEN {updated} ELSE {}
  BY <1>1, <1>2 DEF When
<1>6. E("LeadClassificationChanged") =
        IF result.classification # evaluation.classification THEN {classified} ELSE {}
  BY <1>1, <1>2 DEF When
<1>7. E("DoNotContactRegistered") = IF optOut THEN {stopped} ELSE {} BY <1>1, <1>2 DEF When
<1>8. E("HandoffRequested") = IF handedOff THEN {requested} ELSE {} BY <1>1, <1>2 DEF When
<1>9. E("ConversationAutomationPaused") = IF optOut \/ handedOff THEN {suspended} ELSE {}
  BY <1>1, <1>2 DEF When
<1>10. (UNION {e.fields : e \in E("LeadProfileUpdated")}) = changed
  BY <1>2, <1>5
<1>11. after.score = result.score BY <1>2, <1>3, <1>4
<1>12. after.classification = result.classification
  BY <1>2, <1>3, <1>6
<1>13. after.optedOut = (view.optedOut \/ optOut) BY <1>3, <1>7
<1>14. after.handedOff = (view.handedOff \/ handedOff) BY <1>3, <1>8
<1>15. after.paused = (view.paused \/ optOut \/ handedOff) BY <1>3, <1>9
<1> QED BY <1>3, <1>10, <1>11, <1>12, <1>13, <1>14, <1>15 DEF Follows, after, events
LEMMA ApplyHistory ==
  ASSUME DossierInv, HistoryInv, Apply
  PROVE  HistoryInv'
<1> DEFINE x == job.extraction
           m == job.message
           correction == "correction" \in inbox[m].says
           changed == Written(x, correction)
           optOut == "do_not_contact" \in x.controls
           active == SignalsAfter(x.signals)
           result == EvaluationAfter(active)
           handedOff == ~optOut /\ (x.handoff # None \/ result.handoff)
           specialized == x.handoff = "specialized" \/ result.specialized
           question == IF optOut \/ handedOff THEN None ELSE x.question
           stands == QuestionStands(changed, optOut, handedOff)
           target == ConversationTarget(optOut, handedOff, question)
           events == Announced(changed, Contested(x) # {}, result, optOut, handedOff)
<1>1. /\ executions' = executions \cup {[message |-> m, context |-> job.context]}
      /\ facts' = FactsAfter(x, m, correction)
      /\ conflicts' = conflicts \cup Disputed(x, correction)
      /\ signals' = active
      /\ evaluation' = result
      /\ lead' = [opportunity |-> OpportunityAfter(x), state |-> LeadTarget(optOut, result)]
      /\ asked' = IF question # None /\ ~stands THEN Append(asked, question) ELSE asked
      /\ pending' = (stands \/ question # None)
      /\ conversation' = target
      /\ handoff' = HandoffAfter(optOut, handedOff, specialized)
      /\ optedOut' = (optedOut \/ optOut)
      /\ told' = AfterEvents(told, events)
      /\ inbox' = inbox /\ aged' = aged /\ handled' = handled \cup {m} /\ job' = Idle
      /\ job # Idle /\ m \in job.context
  BY DEF Apply, Complete, Idle
<1>2. /\ m \in Messages \ handled /\ job.context \subseteq Messages
      /\ SourcesOK(x, job.context, Heard(inbox, job.context))
      /\ ExtractionOK(x, facts, Recent)
      /\ ~optedOut
  BY <1>1 DEF Apply, HistoryInv, TypeOK, JobHistory, DossierInv, JobInv
<1>3. handoff.status = "requested" => optOut
  <2> SUFFICES ASSUME handoff.status = "requested" PROVE optOut
    OBVIOUS
  <2>1. "do_not_contact" \in inbox[m].says BY <1>1 DEF HistoryInv, JobHistory
  <2>2. "do_not_contact" \in Heard(inbox, job.context)
    BY <1>1, <2>1 DEF Heard, Controls
  <2> QED BY <1>2, <2>2 DEF SourcesOK
<1> HIDE DEF x, m, correction, changed, optOut, active, result, specialized, events
<1>4. DOMAIN facts' = DOMAIN facts \cup changed /\ changed \subseteq DOMAIN x.fields
  BY <1>1 DEF FactsAfter, changed, Written, Candidates
<1>5. \A f \in DOMAIN facts' :
        \/ f \in changed /\ facts'[f].message = x.fields[f].message
           /\ facts'[f].confidence = x.fields[f].confidence
           /\ facts'[f].status \in {"accepted", "hypothesis", "rejected"}
           /\ facts'[f].writer = m
        \/ f \in DOMAIN facts /\ facts'[f] = facts[f]
  BY <1>1 DEF FactsAfter, changed, StatusOf
<1>6. TypeOK'
  <2>1. /\ inbox' \in Seq(Texts) /\ Len(inbox') <= MaxMessages /\ aged' \in 0..Len(inbox')
        /\ handled' \subseteq Messages' /\ Messages' = Messages
    BY <1>1, <1>2 DEF HistoryInv, TypeOK, Messages
  <2>2. executions' \subseteq [message : handled', context : SUBSET Messages']
    BY <1>1, <1>2, <2>1 DEF HistoryInv, TypeOK
  <2>3. \A f \in DOMAIN facts' :
          /\ facts'[f].confidence \in 0..100
          /\ facts'[f].status \in {"accepted", "hypothesis", "rejected"}
          /\ facts'[f].writer \in handled'
    BY <1>1, <1>2, <1>4, <1>5 DEF HistoryInv, TypeOK, SourcesOK, FieldOK
  <2>4. conflicts' \subseteq DOMAIN facts'
    BY <1>1, <1>4 DEF Disputed, Contested, HistoryInv, TypeOK
  <2>5. \A s \in DOMAIN signals' : signals'[s] \in 0..100
    BY <1>1, <1>2, SignalsStayBounded DEF SourcesOK, active, HistoryInv, TypeOK
  <2>6. lead'.opportunity \in Opportunities /\ lead'.state \in LeadState
    BY <1>1, <1>2
       DEF OpportunityAfter, LeadTarget, LeadState, ExtractionOK, DossierInv, RowsInv
  <2>7. evaluation'.score \in 0..100
    <3>1. result.score = Score(lead.opportunity, Usable(active))
      BY DEF result, EvaluationAfter, Evaluate
    <3> QED BY <1>1, <3>1, ScoreBounds
  <2>8. pending' => asked' # <<>>
    <3>1. stands => asked # <<>> BY DEF QuestionStands, HistoryInv, TypeOK
    <3>2. asked \in Seq(Askable) BY DEF DossierInv, RowsInv
    <3>3. question # None => Append(asked, question) # <<>>
      <4> SUFFICES ASSUME question # None PROVE Append(asked, question) # <<>> OBVIOUS
      <4>1. question \in Askable BY <1>2 DEF ExtractionOK
      <4> HIDE DEF question
      <4>2. Len(Append(asked, question)) = Len(asked) + 1 /\ Len(asked) \in Nat
        BY <3>2, <4>1
      <4> QED BY <4>2
    <3> HIDE DEF stands, question
    <3> QED BY <1>1, <3>1, <3>3
  <2>9. conversation' \in ConversationState
    BY <1>1 DEF ConversationTarget, ConversationState
  <2>10. handoff' \in [status : {"none", "requested", "cancelled"},
                       kind : {None, "general", "specialized"}]
    <3>1. handoff \in [status : {"none", "requested", "cancelled"},
                       kind : {None, "general", "specialized"}]
      BY DEF HistoryInv, TypeOK
    <3> HIDE DEF handedOff
    <3> QED BY <1>1, <3>1 DEF HandoffAfter
  <2>11. JobTyped' BY <1>1 DEF JobTyped
  <2> HIDE DEF stands, target, question, handedOff
  <2> QED BY <2>1, <2>2, <2>3, <2>4, <2>5, <2>6, <2>7, <2>8, <2>9, <2>10, <2>11
          DEF TypeOK, JobTyped
<1>7. FactsFromContext'
  <2> SUFFICES ASSUME NEW f \in DOMAIN facts'
               PROVE  \E e \in executions' : /\ e.message = facts'[f].writer
                                            /\ facts'[f].message \in e.context
    BY DEF FactsFromContext
  <2>1. CASE f \in changed /\ facts'[f].message = x.fields[f].message /\ facts'[f].writer = m
    <3> DEFINE e == [message |-> m, context |-> job.context]
    <3>1. e \in executions' /\ e.message = m /\ e.context = job.context BY <1>1
    <3>2. x.fields[f].message \in job.context
      BY <1>2, <1>4, <2>1 DEF SourcesOK, FieldOK
    <3> HIDE DEF e
    <3> QED BY <2>1, <3>1, <3>2
  <2>2. CASE f \in DOMAIN facts /\ facts'[f] = facts[f]
    BY <1>1, <2>2 DEF HistoryInv, FactsFromContext
  <2> QED BY <1>5, <2>1, <2>2
<1>8. WaitingIsRequested'
  <2> SUFFICES ASSUME conversation' = "waiting_human" PROVE handoff'.status = "requested"
    BY DEF WaitingIsRequested
  <2>1. handedOff BY <1>1 DEF ConversationTarget
  <2>2. ~optOut BY <2>1
  <2> HIDE DEF handedOff
  <2> QED BY <1>1, <2>1, <2>2 DEF HandoffAfter
<1>9. SubscribersKnow'
  <2>1. /\ told.fields = DOMAIN facts /\ told.classification = evaluation.classification
        /\ told.optedOut = optedOut /\ told.handedOff = (handoff.status # "none")
        /\ told.paused = (conversation \in {"waiting_human", "do_not_contact"})
    BY DEF HistoryInv, SubscribersKnow
  <2>2. optOut \in BOOLEAN /\ handedOff \in BOOLEAN /\ (Contested(x) # {}) \in BOOLEAN
    BY DEF optOut
  <2>3. /\ told'.fields = told.fields \cup changed
        /\ told'.score = result.score
        /\ told'.classification = result.classification
        /\ told'.optedOut = (told.optedOut \/ optOut)
        /\ told'.handedOff = (told.handedOff \/ handedOff)
        /\ told'.paused = (told.paused \/ optOut \/ handedOff)
    <3> DEFINE disputed == Contested(x) # {}
    <3>1. told' = AfterEvents(told, Announced(changed, disputed, result, optOut, handedOff))
      BY <1>1 DEF events
    <3>2. PICK d \in BOOLEAN : d = disputed OBVIOUS
    <3>3. PICK o \in BOOLEAN : o = optOut BY <2>2
    <3>4. PICK h \in BOOLEAN : h = handedOff BY <2>2
    <3>5. told' = AfterEvents(told, Announced(changed, d, result, o, h))
      BY <3>1, <3>2, <3>3, <3>4
    <3> HIDE DEF handedOff, disputed
    <3>6. Follows(AfterEvents(told, Announced(changed, d, result, o, h)),
                  told, changed, result, o, h)
      BY <2>1, EventsTell
    <3>7. Follows(told', told, changed, result, o, h) BY <3>5, <3>6
    <3> QED BY <3>3, <3>4, <3>7 DEF Follows
  <2>4. told'.handedOff = (handoff'.status # "none")
    <3>1. "status" \in DOMAIN handoff BY DEF DossierInv, RowsInv
    <3> HIDE DEF handedOff
    <3> QED BY <1>1, <2>1, <2>3, <3>1 DEF HandoffAfter
  <2>5. conversation \in {"waiting_human", "do_not_contact"} => optOut
    BY <1>2, <1>3 DEF HistoryInv, WaitingIsRequested, DossierInv, OptOutDominates
  <2>6. conversation' \in {"waiting_human", "do_not_contact"} <=> optOut \/ handedOff
    BY <1>1 DEF ConversationTarget
  <2>7. told'.paused = (conversation' \in {"waiting_human", "do_not_contact"})
    <3> DEFINE blocked == conversation \in {"waiting_human", "do_not_contact"}
               blockedAfter == conversation' \in {"waiting_human", "do_not_contact"}
    <3>1. /\ told.paused = blocked /\ (blocked => optOut)
          /\ (blockedAfter <=> optOut \/ handedOff)
          /\ blocked \in BOOLEAN /\ blockedAfter \in BOOLEAN
      BY <2>1, <2>5, <2>6
    <3> HIDE DEF blocked, blockedAfter, handedOff
    <3>2. told'.paused = blockedAfter BY <2>2, <2>3, <3>1
    <3> QED BY <3>2 DEF blockedAfter
  <2>8. told'.optedOut = optedOut' BY <1>1, <2>1, <2>3
  <2> QED BY <1>1, <1>4, <2>1, <2>3, <2>4, <2>7, <2>8 DEF SubscribersKnow
<1>10. JobHistory' BY <1>1 DEF JobHistory, Idle
<1> QED BY <1>6, <1>7, <1>8, <1>9, <1>10 DEF HistoryInv

LEMMA NextHistory == DossierInv /\ HistoryInv /\ [Next]_vars => HistoryInv'
<1> SUFFICES ASSUME DossierInv, HistoryInv, [Next]_vars PROVE HistoryInv' OBVIOUS
<1>1. handled \subseteq Messages /\ JobTyped /\ JobHistory
  BY DEF HistoryInv, TypeOK, JobTyped
<1>2. ASSUME NEW text \in Texts, Receive(text) PROVE HistoryInv' BY <1>2, ReceiveHistory
<1>3. CASE Age
  <2>1. /\ inbox' = inbox /\ job' = job /\ handled' = handled /\ handoff' = handoff
        /\ UNCHANGED <<records, executions>> /\ Messages' = Messages
    BY <1>3 DEF Age, records, Messages
  <2>2. inbox \in Seq(Texts) /\ Len(inbox) <= MaxMessages /\ aged' \in 0..Len(inbox)
    BY <1>3 DEF Age, HistoryInv, TypeOK
  <2>3. JobTyped' /\ JobHistory' BY <1>1, <2>1 DEF JobTyped, JobHistory
  <2> QED BY <1>1, <2>1, <2>2, <2>3, QuietHistory
<1>4. CASE Block BY <1>4, BlockHistory
<1>5. CASE Prepare BY <1>5, PrepareHistory
<1>6. ASSUME NEW failure \in DOMAIN Retryable, ProviderFails(failure) PROVE HistoryInv'
  BY <1>6, FailedHistory DEF ProviderFails
<1>7. ASSUME NEW p \in Payloads, ProviderAnswers(p) PROVE HistoryInv'
  BY <1>7, AnswerHistory
<1>8. CASE GiveUp
  <2>1. UNCHANGED <<inbox, aged, handled, executions, records>> /\ job' = Idle
    BY <1>8 DEF GiveUp
  <2>2. JobTyped' /\ JobHistory' BY <2>1 DEF JobTyped, JobHistory, Idle
  <2> QED BY <1>1, <2>1, <2>2, WorkerHistory
<1>9. CASE Refuse BY <1>9, RefuseHistory
<1>10. CASE Apply BY <1>10, ApplyHistory
<1>11. CASE UNCHANGED vars
  <2>1. UNCHANGED <<inbox, aged, handled, executions, records, job>>
    BY <1>11 DEF vars
  <2>2. JobTyped' /\ JobHistory'
    BY <1>1, <2>1 DEF JobTyped, JobHistory, Messages, records
  <2> QED BY <1>1, <2>1, <2>2, WorkerHistory
<1> QED BY <1>2, <1>3, <1>4, <1>5, <1>6, <1>7, <1>8, <1>9, <1>10, <1>11 DEF Next

(* The invariant holds for all answers, texts, windows and limits.           *)
THEOREM HistoryInvariance == Spec => []HistoryInv
<1>1. DossierInv /\ HistoryInv /\ [Next]_vars => HistoryInv' BY NextHistory
<1> QED BY InitHistory, <1>1, DossierInvariance, PTL DEF Spec

(* Rows and memory have their types, every number its range.                 *)
THEOREM DossierTypeCorrect == Spec => []TypeOK
<1>1. HistoryInv => TypeOK BY DEF HistoryInv
<1> QED BY <1>1, HistoryInvariance, PTL

(* The value the reconciler chooses is one of the payload's, and a payload   *)
(* that names a message outside the context is refused.                      *)
THEOREM FactsHaveSources == Spec => []FactsFromContext
<1>1. HistoryInv => FactsFromContext BY DEF HistoryInv
<1> QED BY <1>1, HistoryInvariance, PTL

(* No event is missing: whoever has taken all of them knows the lead as the  *)
(* database has it.                                                          *)
THEOREM EventsSuffice == Spec => []SubscribersKnow
<1>1. HistoryInv => SubscribersKnow BY DEF HistoryInv
<1> QED BY <1>1, HistoryInvariance, PTL

(* Only what the confidence policy lets pass, or a correction, brings a      *)
(* value into the profile.                                                   *)
THEOREM OnlyTrustedValuesEnter == Spec => ValuesEnterTrusted
<1>1. ASSUME DossierInv, HistoryInv, [Next]_vars, NEW f \in DOMAIN facts'
      PROVE  \/ f \in DOMAIN facts /\ facts'[f].value = facts[f].value
             \/ /\ facts'[f].status \in {"accepted", "hypothesis"}
                /\ \/ facts'[f].confidence >= Provisional
                   \/ "correction" \in inbox[facts'[f].writer].says
  <2>1. CASE Apply
    <3> DEFINE x == job.extraction
               m == job.message
               correction == "correction" \in inbox[m].says
               item == x.fields[f]
    <3>1. facts' = FactsAfter(x, m, correction) /\ job # Idle BY <2>1 DEF Apply, Idle
    <3>2. /\ ExtractionOK(x, facts, Recent)
          /\ SourcesOK(x, job.context, Heard(inbox, job.context))
      BY <1>1, <2>1 DEF Apply, DossierInv, JobInv, HistoryInv, JobHistory
    <3> HIDE DEF x, m, correction
    <3>3. CASE f \notin Written(x, correction)
      BY <1>1, <3>1, <3>3 DEF FactsAfter
    <3>4. CASE f \in Written(x, correction)
      <4>1. /\ facts'[f].value = item.value /\ facts'[f].confidence = item.confidence
            /\ facts'[f].writer = m
            /\ facts'[f].status = IF f \in DOMAIN facts /\ Corrects(item, f, correction)
                                    THEN "accepted" ELSE StatusOf(item)
        BY <1>1, <3>1, <3>4 DEF FactsAfter
      <4>2. f \in DOMAIN x.fields /\ BecomesCurrent(item, f, correction)
        BY <3>4 DEF Written, Candidates
      <4>3. FieldOK(item, job.context) BY <3>2, <4>2 DEF SourcesOK
      <4>4. CASE f \notin DOMAIN facts
        <5>1. StatusOf(item) # "rejected" BY <4>2, <4>4 DEF BecomesCurrent
        <5>2. /\ item.treatment \in {"auto_accept", "provisional"}
              /\ StatusOf(item) \in {"accepted", "hypothesis"}
          BY <5>1 DEF StatusOf
        <5> QED BY <4>1, <4>3, <4>4, <5>2 DEF FieldOK
      <4>5. CASE f \in DOMAIN facts /\ facts[f].value # item.value
        <5>1. item.treatment = "contradicted"
          BY <3>2, <4>2, <4>5 DEF ExtractionOK, DifferencesKnown
        <5>2. StatusOf(item) = "rejected" BY <5>1 DEF StatusOf
        <5>3. Corrects(item, f, correction)
          BY <4>2, <4>5, <5>2 DEF BecomesCurrent, Differs
        <5>4. correction BY <5>3 DEF Corrects
        <5> QED BY <4>1, <4>5, <5>3, <5>4 DEF correction
      <4>6. CASE f \in DOMAIN facts /\ facts[f].value = item.value BY <4>1, <4>6
      <4> QED BY <4>4, <4>5, <4>6
    <3> QED BY <3>3, <3>4
  <2>2. CASE ~Apply
    <3>1. facts' = facts
      BY <1>1, <2>2 DEF Next, Receive, Age, Block, Prepare, ProviderFails, ProviderAnswers,
                        GiveUp, Refuse, vars, records
    <3> QED BY <1>1, <3>1
  <2> QED BY <2>1, <2>2
<1>2. DossierInv /\ HistoryInv /\ [Next]_vars =>
        [\A f \in DOMAIN facts' :
           \/ f \in DOMAIN facts /\ facts'[f].value = facts[f].value
           \/ /\ facts'[f].status \in {"accepted", "hypothesis"}
              /\ \/ facts'[f].confidence >= Provisional
                 \/ "correction" \in inbox[facts'[f].writer].says]_vars
  BY <1>1
<1> QED BY <1>2, DossierInvariance, HistoryInvariance, PTL DEF Spec, ValuesEnterTrusted
=============================================================================
