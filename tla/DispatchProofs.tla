--------------------------- MODULE DispatchProofs ---------------------------
(***************************************************************************)
(* Proofs about what a dispatch is admitted with, onto which host, and     *)
(* what of its outputs is published.                                       *)
(*                                                                         *)
(* VerificationContract, for any lanes, admissions, limits and edits: a    *)
(* contract survives its round trip, and what a reader accepts carries the *)
(* policy that was pinned.  The lists a contract holds are sorted by the   *)
(* code, so the first lemmas are about sorted().  HostAdmission, for any   *)
(* attempts, families, budgets and weather: a family passes its target     *)
(* only through a race of two decisions, and no decision counts an attempt *)
(* whose outcome is unknown.  Admission, for any dispatchers, drafts and   *)
(* edits of packet, brief and dossiers: what is launched carries what was  *)
(* admitted, and a started attempt keeps its row.  OutputPromotion, for    *)
(* any launches, tasks and declared files: publication overwrites nothing  *)
(* but a task's own stub, and an envelope lies over all that it commits.   *)
(***************************************************************************)
EXTENDS VerificationContract, HostAdmission, Admission, OutputPromotion,
        FiniteSetTheorems, FunctionTheorems, WellFoundedInduction, TLAPS

-----------------------------------------------------------------------------
(* sorted() and next().                                                    *)

\* The least-number principle, for the sets that sorted() and next() search.
LEMMA LeastNumber ==
  ASSUME NEW S \in SUBSET Nat, S # {}
  PROVE  \E m \in S : \A k \in S : m <= k
<1> DEFINE R == OpToRel(<, Nat)
<1>1. IsWellFoundedOn(R, Nat)
  BY NatLessThanWellFounded, Zenon
<1>2. \A k, m \in Nat : <<k, m>> \in R <=> k < m
  <2>1. R = {ss \in Nat \X Nat : ss[1] < ss[2]}
    BY Zenon DEF OpToRel
  <2> QED BY <2>1
<1> HIDE DEF R
<1>3. PICK m \in S : \A k \in S : ~ (<<k, m>> \in R)
  BY <1>1, WFMin
<1>4. \A k \in S : m <= k
  <2>1. ASSUME NEW k \in S PROVE m <= k
    <3>1. k \in Nat /\ m \in Nat /\ ~(k < m)
      BY <1>2, <1>3
    <3> QED BY <3>1
  <2> QED BY <2>1
<1> QED BY <1>4

\* s lists S in strictly increasing order.
Lists(s, S) ==
  /\ s \in [1 .. Cardinality(S) -> S]
  /\ \A i, j \in DOMAIN s : i < j => s[i] < s[j]
  /\ \A x \in S : \E i \in DOMAIN s : s[i] = x

\* The smallest element goes in front of a list of the others.
LEMMA ListsGrow ==
  ASSUME NEW S \in SUBSET Nat, IsFiniteSet(S), S # {},
         \A T \in SUBSET Nat :
           IsFiniteSet(T) /\ Cardinality(T) = Cardinality(S) - 1 => \E t : Lists(t, T)
  PROVE  \E s : Lists(s, S)
<1>1. PICK m \in S : \A k \in S : m <= k
  BY LeastNumber
<1> DEFINE T == S \ {m}
           n == Cardinality(S)
<1>2. /\ IsFiniteSet(T) /\ Cardinality(T) = n - 1
      /\ n \in Nat \ {0} /\ T \in SUBSET Nat
  BY FS_RemoveElement, FS_CardinalityType, FS_EmptySet
<1>3. PICK t : Lists(t, T)
  BY <1>2
<1>4. /\ t \in [1 .. n - 1 -> T]
      /\ \A i, j \in 1 .. n - 1 : i < j => t[i] < t[j]
      /\ \A x \in T : \E i \in 1 .. n - 1 : t[i] = x
  BY <1>2, <1>3 DEF Lists
<1> DEFINE s == [i \in 1 .. n |-> IF i = 1 THEN m ELSE t[i - 1]]
<1>5. s \in [1 .. n -> S] /\ DOMAIN s = 1 .. n
  <2>1. ASSUME NEW i \in 1 .. n, i # 1
        PROVE  t[i - 1] \in T
    BY <1>2, <1>4, <2>1
  <2> QED BY <1>1, <2>1
<1>6. ASSUME NEW i \in 1 .. n, NEW j \in 1 .. n, i < j
      PROVE  s[i] < s[j]
  <2>1. j # 1 /\ j - 1 \in 1 .. n - 1 /\ s[j] = t[j - 1] /\ t[j - 1] \in T
    BY <1>2, <1>4, <1>6
  <2>2. CASE i = 1
    <3>1. s[i] = m /\ m \in Nat /\ t[j - 1] \in Nat /\ m <= t[j - 1] /\ m # t[j - 1]
      BY <1>1, <2>1, <2>2
    <3> HIDE DEF s
    <3> QED BY <2>1, <3>1
  <2>3. CASE i # 1
    BY <1>2, <1>4, <1>6, <2>1, <2>3
  <2> QED BY <2>2, <2>3
<1>7. ASSUME NEW x \in S
      PROVE  \E i \in 1 .. n : s[i] = x
  <2>1. CASE x = m
    BY <1>2, <2>1
  <2>2. CASE x # m
    <3>1. PICK i \in 1 .. n - 1 : t[i] = x
      BY <1>4, <2>2
    <3>2. i + 1 \in 1 .. n /\ s[i + 1] = x
      BY <1>2, <3>1
    <3> QED BY <3>2
  <2> QED BY <2>1, <2>2
<1>8. Lists(s, S)
  BY <1>5, <1>6, <1>7 DEF Lists
<1> QED BY <1>8

\* Every finite set of ranks has a list: otherwise there were a smallest set
\* without one.
LEMMA ListsExist ==
  ASSUME NEW S \in SUBSET Nat, IsFiniteSet(S)
  PROVE  \E s : Lists(s, S)
<1> DEFINE Listed(T) == \E s : Lists(s, T)
           Unlisted == {n \in Nat : \E T \in SUBSET Nat :
                     IsFiniteSet(T) /\ Cardinality(T) = n /\ ~Listed(T)}
<1>1. SUFFICES Unlisted = {}
  BY <1>1, FS_CardinalityType
<1>2. SUFFICES ASSUME Unlisted # {} PROVE FALSE
  OBVIOUS
<1>3. PICK n \in Unlisted : \A k \in Unlisted : n <= k
  BY <1>2, LeastNumber
<1>4. PICK T \in SUBSET Nat : IsFiniteSet(T) /\ Cardinality(T) = n /\ ~Listed(T)
  BY <1>3
<1>5. CASE T = {}
  <2>1. Cardinality(T) = 0
    BY <1>5, FS_EmptySet
  <2>2. Lists(<<>>, T)
    BY <1>5, <2>1 DEF Lists
  <2> QED BY <1>4, <2>2
<1>6. CASE T # {}
  <2>1. n \in Nat \ {0} /\ n - 1 \notin Unlisted
    BY <1>3, <1>4, <1>6, FS_CardinalityType, FS_EmptySet
  <2>2. \A U \in SUBSET Nat :
          IsFiniteSet(U) /\ Cardinality(U) = n - 1 => Listed(U)
    BY <2>1
  <2>3. Listed(T)
    BY <1>4, <1>6, <2>2, ListsGrow
  <2> QED BY <1>4, <2>3
<1> QED BY <1>5, <1>6

\* What sorted() returns: the set itself, in strictly increasing order.
LEMMA SortedLists ==
  ASSUME NEW S \in SUBSET Nat, IsFiniteSet(S)
  PROVE  /\ Sorted(S) \in Seq(Nat)
         /\ Len(Sorted(S)) = Cardinality(S)
         /\ ToSet(Sorted(S)) = S
         /\ \A i, j \in DOMAIN Sorted(S) : i < j => Sorted(S)[i] < Sorted(S)[j]
<1> DEFINE n == Cardinality(S)
           s == Sorted(S)
<1>1. n \in Nat
  BY FS_CardinalityType
<1>2. \E t \in [1 .. n -> S] : \A i, j \in DOMAIN t : i < j => t[i] < t[j]
  BY ListsExist DEF Lists
<1>3. s \in [1 .. n -> S] /\ \A i, j \in DOMAIN s : i < j => s[i] < s[j]
  BY <1>2 DEF Sorted
<1> HIDE DEF n, s
<1>4. s \in Seq(Nat) /\ Len(s) = n /\ DOMAIN s = 1 .. n
  <2>1. s \in [1 .. n -> Nat]
    BY <1>3
  <2> QED BY <1>1, <2>1
<1>5. s \in Injection(1 .. n, S)
  <2>1. ASSUME NEW i \in 1 .. n, NEW j \in 1 .. n, s[i] = s[j]
        PROVE  i = j
    <3>1. s[i] \in Nat /\ s[j] \in Nat
      BY <1>3
    <3>2. ~(i < j) /\ ~(j < i)
      BY <1>3, <1>4, <2>1, <3>1
    <3> QED BY <1>1, <3>2
  <2> QED BY <1>3, <2>1 DEF Injection, IsInjective
<1>6. s \in Surjection(1 .. n, S)
  <2>1. IsFiniteSet(1 .. n) /\ Cardinality(1 .. n) = n
    BY <1>1, FS_Interval
  <2> QED BY <1>5, <2>1, FS_Injection DEF n
<1>7. ToSet(s) = S
  BY <1>4, <1>6 DEF ToSet, Surjection
<1> QED BY <1>3, <1>4, <1>7 DEF n, s

-----------------------------------------------------------------------------
(* The contract.                                                           *)

\* A list of ranks holds finitely many, no more than it is long.
LEMMA ListIsFinite ==
  ASSUME NEW s \in Seq(Nat)
  PROVE  /\ ToSet(s) \in SUBSET Nat /\ IsFiniteSet(ToSet(s))
         /\ Cardinality(ToSet(s)) <= Len(s)
<1>1. s \in Surjection(1 .. Len(s), ToSet(s))
  BY DEF ToSet, Surjection
<1>2. IsFiniteSet(1 .. Len(s)) /\ Cardinality(1 .. Len(s)) = Len(s)
  <2> DEFINE n == Len(s)
  <2>1. n \in Nat
    OBVIOUS
  <2> HIDE DEF n
  <2>2. IsFiniteSet(1 .. n) /\ Cardinality(1 .. n) = n
    BY <2>1, FS_Interval
  <2> QED BY <2>2 DEF n
<1>3. ToSet(s) \in SUBSET Nat
  BY DEF ToSet
<1> QED BY <1>1, <1>2, <1>3, FS_Surjection

\* next(lane for lane, family in LANE_TO_AUTHOR_FAMILY.items() if ...): the lane
\* that stands for a family is of that family.
LEMMA LaneOfFamily ==
  ASSUME ContractAssumption, NEW fam \in Families
  PROVE  LaneOf(fam) \in DOMAIN Family /\ Family[LaneOf(fam)] = fam
<1> DEFINE I == {i \in DOMAIN Lanes : Family[Lanes[i]] = fam}
<1>1. /\ Lanes \in Seq(DOMAIN Family)
      /\ \A l \in DOMAIN Family : \E i \in DOMAIN Lanes : Lanes[i] = l
  BY DEF ContractAssumption, ToSet
<1>2. DOMAIN Lanes = 1 .. Len(Lanes) /\ Len(Lanes) \in Nat
  BY <1>1
<1>3. I # {} /\ I \in SUBSET Nat
  BY <1>1, <1>2 DEF Families
<1>4. PICK m \in I : \A k \in I : m <= k
  BY <1>3, LeastNumber
<1>5. \E i \in DOMAIN Lanes : /\ Family[Lanes[i]] = fam
                              /\ \A j \in 1 .. i - 1 : Family[Lanes[j]] # fam
  <2>1. ASSUME NEW j \in 1 .. m - 1 PROVE Family[Lanes[j]] # fam
    BY <1>2, <1>4
  <2> QED BY <1>4, <2>1
<1>6. PICK i \in DOMAIN Lanes : Family[Lanes[i]] = fam /\ LaneOf(fam) = Lanes[i]
  BY <1>5 DEF LaneOf
<1> QED BY <1>1, <1>6

\* The authority an admitted list confers is spelled in one way: sorted, literal
\* and, for deletions, within the limit; sorting it again changes nothing.
LEMMA GatesAreCanonical ==
  ASSUME NEW a, a.gates \in Seq(Nat), a.capability.gates \in Seq(Nat),
         0 \notin ToSet(a.gates) \cup ToSet(a.capability.gates)
  PROVE  /\ GateValues(a) \in Seq(Nat)
         /\ 0 \notin ToSet(GateValues(a))
         /\ Sorted(ToSet(GateValues(a)) \cup {}) = GateValues(a)
         /\ \A i, j \in DOMAIN GateValues(a) :
              i < j => GateValues(a)[i] < GateValues(a)[j]
<1> DEFINE S == ToSet(a.gates) \cup ToSet(a.capability.gates)
<1>1. S \in SUBSET Nat /\ IsFiniteSet(S)
  BY ListIsFinite, FS_Union
<1>2. ToSet(Sorted(S)) \cup {} = S
  BY <1>1, SortedLists
<1> QED BY <1>1, <1>2, SortedLists DEF GateValues

LEMMA DeletesAreCanonical ==
  ASSUME ContractAssumption, NEW a, a.deletes \in Seq(Nat) \cup {Nothing}, DeletesOK(a),
         NEW d, d = AuthorizedDeletes(a), d # Nothing
  PROVE  /\ d \in Seq(Nat) /\ d # <<>>
         /\ Len(d) <= MaxDeletes /\ 0 \notin ToSet(d) /\ IsInjective(d)
         /\ Sorted(ToSet(d)) = d
         /\ \A i, j \in DOMAIN d : i < j => d[i] < d[j]
<1> DEFINE S == ToSet(a.deletes)
<1>1. a.deletes \in Seq(Nat) /\ a.deletes # <<>> /\ a.deletes # Nothing
  BY DEF AuthorizedDeletes
<1>2. /\ S \in SUBSET Nat /\ IsFiniteSet(S) /\ Cardinality(S) <= Len(a.deletes)
      /\ Len(a.deletes) <= MaxDeletes /\ 0 \notin S
  BY <1>1, ListIsFinite DEF DeletesOK
<1>3. d = Sorted(S)
  BY <1>1 DEF AuthorizedDeletes
<1>4. /\ d \in Seq(Nat) /\ Len(d) = Cardinality(S) /\ ToSet(d) = S
      /\ \A i, j \in DOMAIN d : i < j => d[i] < d[j]
  BY <1>2, <1>3, SortedLists
<1>5. d # <<>>
  <2>1. a.deletes[1] \in S
    BY <1>1 DEF ToSet
  <2>2. PICK i \in DOMAIN d : d[i] = a.deletes[1]
    BY <1>4, <2>1 DEF ToSet
  <2>3. DOMAIN << >> = {}
    OBVIOUS
  <2> QED BY <2>2, <2>3
<1>6. Len(d) <= MaxDeletes
  BY <1>1, <1>2, <1>4 DEF ContractAssumption
<1>7. IsInjective(d)
  <2>1. ASSUME NEW i \in DOMAIN d, NEW j \in DOMAIN d, d[i] = d[j]
        PROVE  i = j
    <3>1. i \in Nat /\ j \in Nat /\ d[i] \in Nat /\ d[j] \in Nat
      BY <1>4
    <3>2. ~(i < j) /\ ~(j < i)
      BY <1>4, <2>1, <3>1
    <3> QED BY <3>1, <3>2
  <2> QED BY <2>1 DEF IsInjective
<1> QED BY <1>2, <1>3, <1>4, <1>5, <1>6, <1>7

\* What an admitted request derives is a contract.
LEMMA UncheckedType ==
  ASSUME ContractAssumption, NEW a \in AdmissionTypes, Admissible(a),
         NEW legacy \in BOOLEAN
  PROVE  Unchecked(a, legacy) \in Contracts /\ Unchecked(a, legacy) # Nothing
<1> DEFINE c == Unchecked(a, legacy)
<1>1. /\ a.ids \in BOOLEAN /\ a.mode \in Text /\ a.result \in Text
      /\ a.kind \in Text /\ a.review_required \in Text
      /\ a.evidence \in [EvidenceFields -> Text]
      /\ a.capability \in [id : Text, state : Text, gates : Seq(Nat)]
      /\ a.gates \in Seq(Nat) /\ a.deletes \in Seq(Nat) \cup {Nothing}
  BY DEF AdmissionTypes, ContractTypes
<1>2. Family[a.lane] \in Text
  BY DEF ContractAssumption, Admissible
<1> DEFINE k == [a.capability EXCEPT !.gates = <<>>]
<1>3. k \in [id : Text, state : Text, gates : Seq(Nat)]
  <2>1. <<>> \in Seq(Nat)
    OBVIOUS
  <2> QED BY <1>1, <2>1
<1>w. Words \subseteq Text
  BY DEF ContractAssumption
<1>4. ResultType(a) \in Text /\ ReviewRequired(a) \in Text /\ DispatchKind(a) \in Text
  BY <1>1, <1>w DEF ResultType, ReviewRequired, DispatchKind, Words
<1>5. Kinds(a) \in Seq(Text)
  BY <1>w DEF Kinds, Words
<1>6. GateValues(a) \in Seq(Nat)
  BY <1>1, GatesAreCanonical DEF Admissible
<1>7. AuthorizedDeletes(a) \in Seq(Nat) \cup {Nothing}
  BY <1>1, DeletesAreCanonical DEF Admissible
<1> DEFINE recall == IF a.mode = "bounty" THEN "optional" ELSE "required"
           plan == IF legacy THEN "legacy" ELSE "settled"
           bounty == IF a.mode = "bounty" THEN "v1" ELSE "absent"
<1>8. /\ recall \in Text /\ plan \in Text /\ bounty \in Text
      /\ "v1" \in Text /\ "forbidden" \in Text
  BY <1>w DEF Words
<1>9. c = [version |-> "v1", ids |-> a.ids, mode |-> a.mode, result |-> ResultType(a),
           kind |-> DispatchKind(a), family |-> Family[a.lane], capability |-> k,
           kinds |-> Kinds(a), recall |-> recall, plan |-> plan,
           deliverable |-> ReviewRequired(a), fixed |-> "v1", gates |-> GateValues(a),
           delivery |-> "forbidden", bounty |-> bounty, evidence |-> a.evidence,
           deletes |-> AuthorizedDeletes(a)]
  BY DEF Unchecked
<1>10. Contracts = [version : Text, ids : BOOLEAN, mode : Text, result : Text,
          kind : Text, family : Text,
          capability : [id : Text, state : Text, gates : Seq(Nat)],
          kinds : Seq(Text), recall : Text, plan : Text, deliverable : Text,
          fixed : Text, gates : Seq(Nat), delivery : Text, bounty : Text,
          evidence : [EvidenceFields -> Text], deletes : Seq(Nat) \cup {Nothing}]
  BY DEF Contracts, ContractTypes
<1> HIDE DEF c, k, recall, plan, bounty
<1>11. c \in Contracts
  BY <1>1, <1>2, <1>3, <1>4, <1>5, <1>6, <1>7, <1>8, <1>9, <1>10
<1> QED BY <1>11 DEF ContractAssumption, c

\* A reader recovers from a derived contract an admission that is admitted and
\* derives it again, although it knows neither the lane nor where gates came
\* from, and perhaps not whether a review is owed.
LEMMA Rederives ==
  ASSUME ContractAssumption, NEW a \in AdmissionTypes, Admissible(a),
         NEW legacy \in BOOLEAN, legacy => ResultType(a) \notin Typed,
         NEW expect \in {"absent", ReviewRequired(a)}
  PROVE  Validate(Unchecked(a, legacy), expect)
<1> DEFINE c == Unchecked(a, legacy)
           r == Recovered(c, expect)
<1> HIDE DEF c
<1>1. /\ a.gates \in Seq(Nat) /\ a.capability.gates \in Seq(Nat)
      /\ a.deletes \in Seq(Nat) \cup {Nothing}
  BY DEF AdmissionTypes, ContractTypes
<1>2. /\ c.version = "v1" /\ c.ids = a.ids /\ c.mode = a.mode
      /\ c.result = ResultType(a) /\ c.kind = "single"
      /\ c.family = Family[a.lane]
      /\ c.capability = [a.capability EXCEPT !.gates = <<>>]
      /\ c.plan = (IF legacy THEN "legacy" ELSE "settled")
      /\ c.deliverable = ReviewRequired(a)
      /\ c.gates = GateValues(a) /\ c.evidence = a.evidence
      /\ c.deletes = AuthorizedDeletes(a)
  BY DEF c, Unchecked, Admissible
<1>3. Family[a.lane] \in Families
  BY DEF Admissible, Families
<1>4. /\ r.ids = a.ids /\ r.mode = a.mode /\ r.result = ResultType(a)
      /\ r.kind = "single" /\ r.lane = LaneOf(Family[a.lane])
      /\ r.capability = [a.capability EXCEPT !.gates = <<>>]
      /\ r.gates = GateValues(a) /\ r.deletes = AuthorizedDeletes(a)
      /\ r.evidence = a.evidence /\ r.review_required = ReviewRequired(a)
  BY <1>2 DEF Recovered
<1>5. r.lane \in DOMAIN Family /\ Family[r.lane] = Family[a.lane]
  BY <1>3, <1>4, LaneOfFamily
<1>6. /\ r.capability.id = a.capability.id /\ r.capability.state = a.capability.state
      /\ r.capability.gates = <<>>
      /\ [r.capability EXCEPT !.gates = <<>>] = [a.capability EXCEPT !.gates = <<>>]
  BY <1>4 DEF AdmissionTypes, ContractTypes
<1>7. ResultType(r) = ResultType(a)
  BY <1>4 DEF ResultType
<1> HIDE DEF r
<1>8. EvidenceOK(r) /\ ReviewRequired(r) = ReviewRequired(a)
  BY <1>4, <1>5, <1>7 DEF EvidenceOK, ReviewRequired, IsTerminal, Admissible
<1>9. ReviewRequiredOK(r)
  BY <1>4, <1>7 DEF ReviewRequiredOK, ReviewRequired, Admissible
<1>10. ToSet(<<>>) = {}
  BY DEF ToSet
<1>11. /\ 0 \notin ToSet(r.gates) \cup ToSet(r.capability.gates)
       /\ GateValues(r) = GateValues(a)
  <2>1. /\ 0 \notin ToSet(GateValues(a))
        /\ Sorted(ToSet(GateValues(a)) \cup {}) = GateValues(a)
    BY <1>1, GatesAreCanonical DEF Admissible
  <2>2. GateValues(r) = Sorted(ToSet(GateValues(a)) \cup {})
    BY <1>4, <1>6, <1>10 DEF GateValues
  <2> QED BY <1>4, <1>6, <1>10, <2>1, <2>2
<1>12. DeletesOK(r) /\ AuthorizedDeletes(r) = AuthorizedDeletes(a)
  <2>1. CASE AuthorizedDeletes(a) = Nothing
    BY <1>4, <2>1 DEF DeletesOK, AuthorizedDeletes
  <2>2. CASE AuthorizedDeletes(a) # Nothing
    <3> DEFINE d == AuthorizedDeletes(a)
    <3>1. /\ d # <<>> /\ Len(d) <= MaxDeletes /\ 0 \notin ToSet(d)
          /\ IsInjective(d) /\ Sorted(ToSet(d)) = d
      BY <1>1, <2>2, DeletesAreCanonical DEF Admissible
    <3>2. AuthorizedDeletes(r) = Sorted(ToSet(d))
      BY <1>4, <2>2, <3>1 DEF AuthorizedDeletes
    <3> QED BY <1>4, <3>1, <3>2 DEF DeletesOK
  <2> QED BY <2>1, <2>2
<1>13. Admissible(r)
  BY <1>4, <1>5, <1>6, <1>7, <1>8, <1>9, <1>11, <1>12 DEF Admissible, DispatchKind
<1>14. Kinds(r) = Kinds(a)
  BY <1>4, <1>7 DEF Kinds
<1>15. Unchecked(r, legacy) = c
  BY <1>2, <1>4, <1>5, <1>6, <1>7, <1>8, <1>11, <1>12, <1>13, <1>14
     DEF Unchecked, DispatchKind, c
<1>16. KeysOK(c)
  <2>1. CASE ResultType(a) \in Typed
    <3>1. /\ a.evidence.subject # "absent" /\ a.evidence.author # "absent"
          /\ a.evidence.reviewer # "absent" /\ a.evidence.state # "absent"
          /\ a.evidence.mutated # "absent"
      BY <2>1 DEF Admissible, EvidenceOK, Families, ContractAssumption
    <3> QED BY <1>2, <2>1, <3>1 DEF KeysOK, EvidenceFields
  <2>2. CASE ResultType(a) \notin Typed
    BY <1>2, <2>2 DEF KeysOK, Admissible, EvidenceOK, NoEvidence
  <2> QED BY <2>1, <2>2
<1>17. (c.result \notin Typed /\ c.plan = "legacy") = legacy
  BY <1>2
<1> QED BY <1>2, <1>3, <1>15, <1>16, <1>17 DEF Validate, r, c

\* derive_verification_contract refuses an admitted request for nothing but the
\* dispatcher-owned fields it names: the object it derives always validates.
LEMMA DeriveIsUnchecked ==
  ASSUME ContractAssumption, NEW a \in AdmissionTypes
  PROVE  /\ Derive(a) # Nothing <=> ~a.reserved /\ Admissible(a)
         /\ Derive(a) # Nothing => Derive(a) = Unchecked(a, LegacyPlan(a))
<1> DEFINE c == Unchecked(a, LegacyPlan(a))
<1>1. CASE Admissible(a)
  <2>1. LegacyPlan(a) \in BOOLEAN /\ (LegacyPlan(a) => ResultType(a) \notin Typed)
    BY DEF LegacyPlan
  <2>2. c # Nothing
    BY <1>1, <2>1, UncheckedType
  <2>3. Validate(c, ReviewRequired(a))
    BY <1>1, <2>1, Rederives
  <2> QED BY <1>1, <2>2, <2>3 DEF Derive
<1>2. CASE ~Admissible(a)
  <2>1. c = Nothing
    BY <1>2 DEF Unchecked
  <2> QED BY <1>2, <2>1 DEF Derive
<1> QED BY <1>1, <1>2

\* What a contract that a reader accepts looks like, whoever wrote it: the
\* admission recovered from it is admitted and derives it.
LEMMA AcceptedIsDerived ==
  ASSUME ContractAssumption, NEW c \in Contracts, NEW expect, Validate(c, expect),
         NEW r, r = Recovered(c, expect)
  PROVE  /\ Admissible(r)
         /\ \E legacy \in BOOLEAN : c = Unchecked(r, legacy)
         /\ c.gates \in Seq(Nat) /\ c.capability.gates \in Seq(Nat)
         /\ c.deletes \in Seq(Nat) \cup {Nothing}
         /\ c.family \in Families /\ Family[LaneOf(c.family)] = c.family
<1> DEFINE legacy == c.result \notin Typed /\ c.plan = "legacy"
<1>1. c = Unchecked(r, legacy) /\ c # Nothing /\ c.family \in Families
  BY DEF Validate, ContractAssumption
<1>2. Admissible(r)
  BY <1>1 DEF Unchecked
<1>3. /\ c.gates \in Seq(Nat) /\ c.capability.gates \in Seq(Nat)
      /\ c.deletes \in Seq(Nat) \cup {Nothing}
  BY DEF Contracts, ContractTypes
<1> QED BY <1>1, <1>2, <1>3, LaneOfFamily

\* Rewriting one field with a value of its type leaves a contract.
LEMMA EditKeepsType ==
  ASSUME NEW c \in Contracts, NEW f \in DOMAIN ContractTypes,
         NEW x \in ContractTypes[f]
  PROVE  [c EXCEPT ![f] = x] \in Contracts
<1>1. f \in {"version", "ids", "mode", "result", "kind", "family", "capability",
             "kinds", "recall", "plan", "deliverable", "fixed", "gates",
             "delivery", "bounty", "evidence", "deletes"}
  BY DEF ContractTypes
<1>2. CASE f = "version"
  BY <1>2 DEF Contracts
<1>3. CASE f = "ids"
  BY <1>3 DEF Contracts
<1>4. CASE f = "mode"
  BY <1>4 DEF Contracts
<1>5. CASE f = "result"
  BY <1>5 DEF Contracts
<1>6. CASE f = "kind"
  BY <1>6 DEF Contracts
<1>7. CASE f = "family"
  BY <1>7 DEF Contracts
<1>8. CASE f = "capability"
  BY <1>8 DEF Contracts
<1>9. CASE f = "kinds"
  BY <1>9 DEF Contracts
<1>10. CASE f = "recall"
  BY <1>10 DEF Contracts
<1>11. CASE f = "plan"
  BY <1>11 DEF Contracts
<1>12. CASE f = "deliverable"
  BY <1>12 DEF Contracts
<1>13. CASE f = "fixed"
  BY <1>13 DEF Contracts
<1>14. CASE f = "gates"
  BY <1>14 DEF Contracts
<1>15. CASE f = "delivery"
  BY <1>15 DEF Contracts
<1>16. CASE f = "bounty"
  BY <1>16 DEF Contracts
<1>17. CASE f = "evidence"
  BY <1>17 DEF Contracts
<1>18. CASE f = "deletes"
  BY <1>18 DEF Contracts
<1> QED BY <1>1, <1>2, <1>3, <1>4, <1>5, <1>6, <1>7, <1>8, <1>9, <1>10, <1>11, <1>12, <1>13, <1>14, <1>15, <1>16, <1>17, <1>18

\* What is pinned was derived from the admission handed in, and what a later
\* reader holds is at least a contract.
ContractInv ==
  /\ adm \in Admissions \cup {Nothing}
  /\ pin = IF adm = Nothing THEN Nothing ELSE Derive(adm)
  /\ IF pin = Nothing THEN held = Nothing ELSE held \in Contracts

\* Whoever admits or edits keeps it.
LEMMA ContractInvariant ==
  ASSUME ContractAssumption
  PROVE  ContractSpec => []ContractInv
<1>1. ContractInit => ContractInv
  BY DEF ContractInit, ContractInv
<1>2. ContractInv /\ [ContractNext]_contractVars => ContractInv'
  <2> SUFFICES ASSUME ContractInv, [ContractNext]_contractVars PROVE ContractInv'
    OBVIOUS
  <2>1. ASSUME NEW a \in Admissions, Admit(a) PROVE ContractInv'
    <3>1. a \in AdmissionTypes /\ a # Nothing
      BY DEF ContractAssumption
    <3>2. Derive(a) = Nothing \/ Derive(a) \in Contracts
      BY <3>1, DeriveIsUnchecked, UncheckedType DEF LegacyPlan
    <3> QED BY <2>1, <3>1, <3>2 DEF Admit, ContractInv
  <2>2. ASSUME NEW f \in DOMAIN Values, NEW x \in Values[f], Edit(f, x)
        PROVE  ContractInv'
    <3>1. f \in DOMAIN ContractTypes /\ x \in ContractTypes[f]
      BY DEF ContractAssumption
    <3>2. held \in Contracts /\ held' = [held EXCEPT ![f] = x] /\ pin # Nothing
      BY <2>2 DEF Edit, ContractInv
    <3>3. held' \in Contracts
      BY <3>1, <3>2, EditKeepsType
    <3> QED BY <2>2, <3>2, <3>3 DEF Edit, ContractInv
  <2>3. CASE UNCHANGED contractVars
    BY <2>3 DEF contractVars, ContractInv
  <2> QED BY <2>1, <2>2, <2>3 DEF ContractNext
<1> QED BY <1>1, <1>2, PTL DEF ContractSpec

\* The facts every property starts from: a pinned contract came from an
\* admitted request.
LEMMA PinnedWasAdmitted ==
  ASSUME ContractAssumption, ContractInv, pin # Nothing
  PROVE  /\ adm \in AdmissionTypes /\ Admissible(adm)
         /\ pin = Unchecked(adm, LegacyPlan(adm)) /\ pin \in Contracts
         /\ LegacyPlan(adm) \in BOOLEAN
         /\ LegacyPlan(adm) => ResultType(adm) \notin Typed
         /\ held \in Contracts
<1>1. adm \in AdmissionTypes /\ pin = Derive(adm) /\ held \in Contracts
  BY DEF ContractInv, ContractAssumption
<1>2. Admissible(adm) /\ pin = Unchecked(adm, LegacyPlan(adm))
  BY <1>1, DeriveIsUnchecked
<1>3. LegacyPlan(adm) \in BOOLEAN /\ (LegacyPlan(adm) => ResultType(adm) \notin Typed)
  BY DEF LegacyPlan
<1> QED BY <1>1, <1>2, <1>3, UncheckedType

\* validate_verification_contract accepts every object that
\* derive_verification_contract pins, with and without the expected review
\* decision, for every admission, lane table and limit.
THEOREM RoundTripInvariant ==
  ASSUME ContractAssumption
  PROVE  ContractSpec => []RoundTrip
<1>1. ContractInv => RoundTrip
  <2> SUFFICES ASSUME ContractInv PROVE RoundTrip
    OBVIOUS
  <2>1. adm # Nothing => (pin # Nothing <=> ~adm.reserved /\ Admissible(adm))
    BY DeriveIsUnchecked DEF ContractInv, ContractAssumption
  <2>2. ASSUME pin # Nothing
        PROVE  Validate(pin, "absent") /\ Validate(pin, ReviewRequired(adm))
    BY <2>2, PinnedWasAdmitted, Rederives
  <2> QED BY <2>1, <2>2 DEF RoundTrip
<1> QED BY <1>1, ContractInvariant, PTL

\* A reader that knows whether a review is owed accepts, among the objects that
\* agree with the pinned one on what an admission chooses, only that one (and
\* its legacy plan review): no rewritten policy field survives.
THEOREM PolicyIsPinnedInvariant ==
  ASSUME ContractAssumption
  PROVE  ContractSpec => []PolicyIsPinned
<1>1. ASSUME ContractInv, pin # Nothing,
             Validate(held, ReviewRequired(adm)),
             \A f \in {"ids", "mode", "result", "family", "capability", "gates",
                       "deletes", "evidence"} : held[f] = pin[f]
      PROVE  held = [pin EXCEPT !.plan = held.plan]
  <2>1. /\ adm \in AdmissionTypes /\ Admissible(adm)
        /\ pin = Unchecked(adm, LegacyPlan(adm)) /\ pin \in Contracts
        /\ held \in Contracts /\ LegacyPlan(adm) \in BOOLEAN
    BY <1>1, PinnedWasAdmitted
  <2>2. ReviewRequired(adm) # "absent"
    BY <2>1 DEF Admissible, ReviewRequired, ReviewRequiredOK
  <2> DEFINE r == Recovered(held, ReviewRequired(adm))
  <2>3. /\ r.mode = held.mode /\ r.result = held.result
        /\ r.lane = LaneOf(held.family) /\ r.evidence = held.evidence
        /\ r.review_required = ReviewRequired(adm)
    BY <2>2 DEF Recovered
  <2> HIDE DEF r
  <2>4. /\ Admissible(r) /\ Family[r.lane] = held.family
        /\ \E legacy \in BOOLEAN : held = Unchecked(r, legacy)
    BY <1>1, <2>1, <2>3, AcceptedIsDerived DEF r
  <2>5. PICK legacy \in BOOLEAN : held = Unchecked(r, legacy)
    BY <2>4
  <2>6. /\ held.ids = pin.ids /\ held.mode = pin.mode /\ held.result = pin.result
        /\ held.family = pin.family /\ held.capability = pin.capability
        /\ held.gates = pin.gates /\ held.deletes = pin.deletes
        /\ held.evidence = pin.evidence
    BY <1>1
  <2>7. /\ held.version = "v1" /\ held.kind = "single" /\ held.kinds = Kinds(r)
        /\ held.recall = (IF r.mode = "bounty" THEN "optional" ELSE "required")
        /\ held.deliverable = ReviewRequired(r) /\ held.fixed = "v1"
        /\ held.delivery = "forbidden" /\ held.result = ResultType(r)
        /\ held.bounty = (IF r.mode = "bounty" THEN "v1" ELSE "absent")
    BY <2>4, <2>5 DEF Unchecked, Admissible
  <2>8. /\ pin.version = "v1" /\ pin.kind = "single" /\ pin.kinds = Kinds(adm)
        /\ pin.recall = (IF adm.mode = "bounty" THEN "optional" ELSE "required")
        /\ pin.deliverable = ReviewRequired(adm) /\ pin.fixed = "v1"
        /\ pin.delivery = "forbidden" /\ pin.mode = adm.mode
        /\ pin.result = ResultType(adm) /\ pin.evidence = adm.evidence
        /\ pin.family = Family[adm.lane]
        /\ pin.bounty = (IF adm.mode = "bounty" THEN "v1" ELSE "absent")
    BY <2>1 DEF Unchecked, Admissible
  <2>9. held.kinds = pin.kinds
    <3>1. r.mode = adm.mode /\ ResultType(r) = ResultType(adm)
      BY <2>3, <2>6, <2>7, <2>8
    <3>2. Kinds(r) = Kinds(adm)
      BY <3>1 DEF Kinds
    <3> QED BY <2>7, <2>8, <3>2
  <2>10. held.deliverable = pin.deliverable
    <3>1. ResultType(r) = ResultType(adm) /\ r.review_required = ReviewRequired(adm)
      BY <2>3, <2>6, <2>7, <2>8
    <3>2. IsTerminal(r) <=> IsTerminal(adm)
      <4>1. r.evidence = adm.evidence /\ Family[r.lane] = Family[adm.lane]
        BY <2>3, <2>4, <2>6, <2>8
      <4> QED BY <4>1 DEF IsTerminal
    <3>3. ReviewRequired(adm) # "absent"
      BY <2>2
    <3>4. ReviewRequired(r) = ReviewRequired(adm)
      BY <3>1, <3>2, <3>3 DEF ReviewRequired
    <3> QED BY <2>7, <2>8, <3>4
  <2>11. held.recall = pin.recall /\ held.bounty = pin.bounty
    BY <2>3, <2>6, <2>7, <2>8
  <2>12. /\ held.version = pin.version /\ held.kind = pin.kind
         /\ held.fixed = pin.fixed /\ held.delivery = pin.delivery
    BY <2>7, <2>8
  <2> QED BY <2>1, <2>6, <2>9, <2>10, <2>11, <2>12 DEF Contracts
<1>2. ContractInv => PolicyIsPinned
  BY <1>1 DEF PolicyIsPinned
<1> QED BY <1>2, ContractInvariant, PTL

\* A typed result that an accepted contract lets settle without a further review
\* was judged by the lane's own family, of another family's unchanged work.
THEOREM TerminalReviewInvariant ==
  ASSUME ContractAssumption
  PROVE  ContractSpec => []TerminalReviewIsIndependent
<1>1. ASSUME ContractInv, pin # Nothing, Validate(held, "absent"),
             held.result \in Typed, held.deliverable = "false"
      PROVE  /\ held.evidence.reviewer = held.family
             /\ held.evidence.author # held.family
             /\ held.evidence.mutated = "false"
  <2> DEFINE r == Recovered(held, "absent")
  <2>1. held \in Contracts
    BY <1>1, PinnedWasAdmitted
  <2>2. r.lane = LaneOf(held.family) /\ r.evidence = held.evidence
    BY DEF Recovered
  <2> HIDE DEF r
  <2>3. /\ Admissible(r) /\ Family[r.lane] = held.family
        /\ \E legacy \in BOOLEAN : held = Unchecked(r, legacy)
    BY <1>1, <2>1, <2>2, AcceptedIsDerived DEF r
  <2>4. held.deliverable = ReviewRequired(r) /\ held.result = ResultType(r)
    BY <2>3 DEF Unchecked
  <2>5. IsTerminal(r)
    BY <1>1, <2>4 DEF ReviewRequired
  <2> QED BY <2>2, <2>3, <2>5 DEF IsTerminal
<1>2. ContractInv => TerminalReviewIsIndependent
  BY <1>1 DEF TerminalReviewIsIndependent
<1> QED BY <1>2, ContractInvariant, PTL

\* Whatever an accepted modeless contract claims, an admission of either typed
\* mode would be granted as well.
THEOREM ModelessIsNarrowInvariant ==
  ASSUME ContractAssumption
  PROVE  ContractSpec => []ModelessIsNarrow
<1>1. ASSUME ContractInv, pin # Nothing, held.mode = "modeless",
             Validate(held, "absent"), NEW m \in {"project", "bounty"}
      PROVE  Admissible([Recovered(held, "absent") EXCEPT !.mode = m])
  <2> DEFINE r == Recovered(held, "absent")
             q == [r EXCEPT !.mode = m]
  <2>1. held \in Contracts
    BY <1>1, PinnedWasAdmitted
  <2>2. r.mode = "modeless"
    BY <1>1 DEF Recovered
  <2>3. /\ q.ids = r.ids /\ q.mode = m /\ q.result = r.result /\ q.kind = r.kind
        /\ q.lane = r.lane /\ q.capability = r.capability /\ q.gates = r.gates
        /\ q.deletes = r.deletes /\ q.evidence = r.evidence
        /\ q.review_required = r.review_required
    BY DEF Recovered
  <2> HIDE DEF r, q
  <2>4. Admissible(r)
    BY <1>1, <2>1, AcceptedIsDerived DEF r
  <2>5. ResultType(q) = ResultType(r)
    BY <2>3 DEF ResultType
  <2>6. ResultType(q) \in ResultTypes(m)
    BY <2>2, <2>4, <2>5 DEF Admissible, ResultTypes
  <2>7. EvidenceOK(q) /\ ReviewRequiredOK(q) /\ DeletesOK(q)
    BY <2>3, <2>4, <2>5 DEF Admissible, EvidenceOK, ReviewRequiredOK, DeletesOK
  <2>8. Admissible(q)
    BY <2>3, <2>4, <2>6, <2>7 DEF Admissible, DispatchKind
  <2> QED BY <2>8 DEF r, q
<1>2. ContractInv => ModelessIsNarrow
  BY <1>1 DEF ModelessIsNarrow
<1> QED BY <1>2, ContractInvariant, PTL

\* The gates and deletions of an accepted contract are strictly sorted and
\* literal: one authority has one digest.
THEOREM AuthorityIsCanonicalInvariant ==
  ASSUME ContractAssumption
  PROVE  ContractSpec => []AuthorityIsCanonical
<1> DEFINE Strict(s) == \A i \in DOMAIN s : s[i] # 0 /\ (i > 1 => s[i - 1] < s[i])
<1>1. ASSUME NEW s \in Seq(Nat), 0 \notin ToSet(s),
             \A i, j \in DOMAIN s : i < j => s[i] < s[j]
      PROVE  Strict(s)
  <2> TAKE i \in DOMAIN s
  <2>1. s[i] # 0
    BY <1>1 DEF ToSet
  <2>2. i > 1 => i - 1 \in DOMAIN s /\ i - 1 < i
    BY <1>1
  <2> QED BY <1>1, <2>1, <2>2
<1>2. ASSUME ContractInv, pin # Nothing, Validate(held, "absent")
      PROVE  /\ Strict(held.gates)
             /\ held.deletes # Nothing => held.deletes # <<>> /\ Strict(held.deletes)
  <2> DEFINE r == Recovered(held, "absent")
  <2>1. held \in Contracts
    BY <1>2, PinnedWasAdmitted
  <2>2. /\ r.gates = held.gates /\ r.capability = held.capability
        /\ r.deletes = held.deletes
    BY DEF Recovered
  <2> HIDE DEF r
  <2>3. /\ Admissible(r)
        /\ \E legacy \in BOOLEAN : held = Unchecked(r, legacy)
        /\ r.gates \in Seq(Nat) /\ r.capability.gates \in Seq(Nat)
        /\ r.deletes \in Seq(Nat) \cup {Nothing}
    BY <1>2, <2>1, <2>2, AcceptedIsDerived DEF r
  <2>4. held.gates = GateValues(r) /\ held.deletes = AuthorizedDeletes(r)
    BY <2>3 DEF Unchecked
  <2>5. Strict(held.gates)
    <3>1. /\ held.gates \in Seq(Nat) /\ 0 \notin ToSet(held.gates)
          /\ \A i, j \in DOMAIN held.gates : i < j => held.gates[i] < held.gates[j]
      BY <2>3, <2>4, GatesAreCanonical DEF Admissible
    <3> HIDE DEF Strict
    <3> QED BY <1>1, <3>1
  <2>6. ASSUME held.deletes # Nothing
        PROVE  held.deletes # <<>> /\ Strict(held.deletes)
    <3>1. /\ held.deletes \in Seq(Nat) /\ held.deletes # <<>>
          /\ 0 \notin ToSet(held.deletes)
          /\ \A i, j \in DOMAIN held.deletes :
               i < j => held.deletes[i] < held.deletes[j]
      BY <1>2, <2>3, <2>4, <2>6, DeletesAreCanonical DEF Admissible
    <3> HIDE DEF Strict
    <3> QED BY <1>1, <3>1
  <2> HIDE DEF Strict
  <2> QED BY <2>5, <2>6
<1>3. ContractInv => AuthorityIsCanonical
  BY <1>2 DEF AuthorityIsCanonical
<1> QED BY <1>3, ContractInvariant, PTL

-----------------------------------------------------------------------------
(* HostAdmission.  Nothing reserves room between a decision and the          *)
(* descriptor the next one counts, so the target is no invariant.  What      *)
(* holds is about any set of open attempts each two of which saw one         *)
(* another: one of them, the last to be launched, saw all the others         *)
(* (LastSawAll).  Its scan counted them.                                     *)

\* The attempts of family f among S.
InFamily(S, f) == {b \in S : FamilyOf[b] = f}

\* An attempt whose scan let it through counted no family past the target.
ScanHeld ==
    \A a \in Attempts : phase[a] \in {"sampling", "admitted", "running", "over"} =>
        /\ live[a] \subseteq desc
        /\ \A f \in {FamilyOf[b] : b \in live[a] \cup {a}} :
              Cardinality(InFamily(live[a] \cup {a}, f)) <= FamilyTarget

\* Attempts get their descriptor when they are launched.
HostLaunched == IsFiniteSet(desc) /\ \A a \in Attempts : a \in desc <=> phase[a] \in {"running", "over"}

\* Of the attempts with a descriptor, one of two saw the other.
Saw(a, b) == a \in live[b] \/ b \in live[a]

LastSawAll ==
    \A R \in SUBSET desc :
        R # {} /\ (\A a, b \in R : a # b => Saw(a, b)) => \E a \in R : R \ {a} \subseteq live[a]

HostInv == HostTypeOK /\ live \in [Attempts -> SUBSET Attempts] /\ ScanHeld /\ HostLaunched /\ LastSawAll

-----------------------------------------------------------------------------
\* The invariant holds initially.
LEMMA HostInvInit ==
    ASSUME HostAssumption, HostInit
    PROVE  HostInv
<1> USE DEF HostInit
<1>1. HostTypeOK /\ live \in [Attempts -> SUBSET Attempts]
  BY DEF HostTypeOK, Steps, HostAssumption
<1>2. ScanHeld
  BY DEF ScanHeld
<1>3. HostLaunched
  BY FS_EmptySet DEF HostLaunched
<1>4. LastSawAll
  BY DEF LastSawAll
<1> QED BY <1>1, <1>2, <1>3, <1>4 DEF HostInv

\* A step that launches nothing and scans nothing keeps what the scans saw.
LEMMA SameScans ==
    ASSUME HostInv, UNCHANGED <<live, desc>>, NEW a \in Attempts,
           phase' \in [Attempts -> Steps],
           \A b \in Attempts \ {a} : phase'[b] = phase[b],
           phase'[a] \in {"sampling", "admitted", "running", "over"} =>
              phase[a] \in {"sampling", "admitted", "running", "over"},
           phase'[a] \in {"running", "over"} <=> phase[a] \in {"running", "over"}
    PROVE  ScanHeld' /\ HostLaunched' /\ LastSawAll'
<1>1. \A b \in Attempts : /\ phase'[b] \in {"sampling", "admitted", "running", "over"} =>
                                phase[b] \in {"sampling", "admitted", "running", "over"}
                          /\ phase'[b] \in {"running", "over"} <=> phase[b] \in {"running", "over"}
  OBVIOUS
<1>2. ScanHeld'
  BY <1>1 DEF HostInv, ScanHeld, InFamily
<1>3. HostLaunched'
  BY <1>1 DEF HostInv, HostLaunched
<1>4. LastSawAll'
  BY DEF HostInv, LastSawAll, Saw
<1> QED BY <1>2, <1>3, <1>4

-----------------------------------------------------------------------------
(* The decision. *)

\* A backoff is counted within the budget.
LEMMA WaitsWithin ==
    ASSUME HostAssumption, HostInv, NEW a \in Attempts, Waits(a),
           phase'[a] = "backoff" => waited[a] < Budget
    PROVE  waited' \in [Attempts -> 0..Budget]
<1>1. waited \in [Attempts -> 0..Budget] /\ Budget \in Nat
  BY DEF HostInv, HostTypeOK, HostAssumption
<1>2. waited' = [waited EXCEPT ![a] = IF phase'[a] = "backoff" THEN waited[a] + 1 ELSE waited[a]]
  BY DEF Waits
<1> QED BY <1>1, <1>2

\* A scan that goes on has counted the open attempts, none of a full family.
LEMMA ScanKeeps ==
    ASSUME HostAssumption, HostInv, NEW a \in Attempts, Scan(a)
    PROVE  HostInv'
<1>0. /\ phase \in [Attempts -> Steps] /\ live \in [Attempts -> SUBSET Attempts]
      /\ receipt \subseteq desc /\ desc \subseteq Attempts /\ IsFiniteSet(desc)
      /\ FamilyTarget \in Nat
  BY DEF HostInv, HostTypeOK, HostLaunched, HostAssumption
<1>1. /\ phase[a] = "asking"
      /\ phase' = [phase EXCEPT ![a] = IF BindingChanged(a) \/ ~Resolved THEN "refused"
                                 ELSE IF OverTarget(a, Open) THEN Retry(a) ELSE "sampling"]
      /\ Waits(a)
      /\ \/ phase'[a] # "sampling" /\ UNCHANGED live
         \/ phase'[a] = "sampling" /\ live' = [live EXCEPT ![a] = Open]
      /\ UNCHANGED <<host, desc, receipt, proc>>
  BY Zenon DEF Scan
<1>2. a \notin desc
  BY <1>1 DEF HostInv, HostLaunched
<1>3. Open \subseteq desc /\ a \notin Open
  BY <1>2 DEF Open
<1>4. /\ phase'[a] \in {"refused", "backoff", "sampling"} /\ phase' \in [Attempts -> Steps]
      /\ phase'[a] = "backoff" => waited[a] < Budget
      /\ phase'[a] = "sampling" => ~OverTarget(a, Open)
      /\ \A b \in Attempts \ {a} : phase'[b] = phase[b]
  BY <1>0, <1>1 DEF Retry, Steps
<1>5. /\ live' \in [Attempts -> SUBSET Attempts]
      /\ \A b \in Attempts \ {a} : live'[b] = live[b]
      /\ live'[a] = live[a] \/ live'[a] = Open
  BY <1>0, <1>1, <1>3
<1>6. HostTypeOK'
  BY <1>0, <1>1, <1>3, <1>4, <1>5, WaitsWithin DEF HostInv, HostTypeOK
<1>7. ScanHeld'
  <2> SUFFICES ASSUME NEW b \in Attempts, phase'[b] \in {"sampling", "admitted", "running", "over"}
               PROVE  /\ live'[b] \subseteq desc'
                      /\ \A f \in {FamilyOf[x] : x \in live'[b] \cup {b}} :
                            Cardinality(InFamily(live'[b] \cup {b}, f)) <= FamilyTarget
    BY DEF ScanHeld, InFamily
  <2>1. CASE b # a
    BY <1>1, <1>4, <1>5, <2>1 DEF HostInv, ScanHeld
  <2>2. CASE b = a
    <3>1. phase'[a] = "sampling" /\ live'[a] = Open /\ ~OverTarget(a, Open)
      BY <1>0, <1>1, <1>4, <2>2
    <3>2. ASSUME NEW f \in {FamilyOf[x] : x \in Open \cup {a}}
          PROVE  Cardinality(InFamily(Open \cup {a}, f)) <= FamilyTarget
      <4>1. ~(Cardinality(InFamily(Open \cup {a}, f)) > FamilyTarget)
        BY <3>1 DEF OverTarget, InFamily
      <4>2. IsFiniteSet(Open \cup {a})
        BY <1>0, <1>3, FS_Subset, FS_AddElement
      <4>3. InFamily(Open \cup {a}, f) \subseteq Open \cup {a}
        BY DEF InFamily
      <4>4. Cardinality(InFamily(Open \cup {a}, f)) \in Nat
        BY <4>2, <4>3, FS_Subset, FS_CardinalityType
      <4> QED BY <1>0, <4>1, <4>4
    <3> QED BY <1>1, <1>3, <2>2, <3>1, <3>2
  <2> QED BY <2>1, <2>2
<1>8. HostLaunched'
  BY <1>0, <1>1, <1>4 DEF HostInv, HostLaunched
<1>9. LastSawAll'
  <2> SUFFICES ASSUME NEW R \in SUBSET desc, R # {},
                      \A x, y \in R : x # y => Saw(x, y)'
               PROVE  \E x \in R : R \ {x} \subseteq live'[x]
    BY <1>1 DEF LastSawAll
  <2>1. \A x \in R : live'[x] = live[x]
    BY <1>0, <1>2, <1>5
  <2>2. \A x, y \in R : x # y => Saw(x, y)
    BY <2>1 DEF Saw
  <2>3. PICK x \in R : R \ {x} \subseteq live[x]
    BY <2>2 DEF HostInv, LastSawAll
  <2> QED BY <2>1, <2>3
<1> QED BY <1>5, <1>6, <1>7, <1>8, <1>9 DEF HostInv

\* The launch of an admitted attempt.  No open attempt saw it, so of a set in
\* which each two saw one another it saw the others.
LEMMA LaunchKeeps ==
    ASSUME HostAssumption, HostInv, NEW a \in Attempts, Launch(a)
    PROVE  HostInv'
<1>0. /\ phase \in [Attempts -> Steps] /\ desc \subseteq Attempts /\ receipt \subseteq desc
      /\ proc \subseteq Attempts /\ IsFiniteSet(desc)
  BY DEF HostInv, HostTypeOK, HostLaunched
<1>1. /\ phase[a] = "admitted"
      /\ \/ phase' = [phase EXCEPT ![a] = "refused"] /\ UNCHANGED <<desc, proc>>
         \/ /\ phase' = [phase EXCEPT ![a] = "running"]
            /\ desc' = desc \cup {a} /\ proc' = proc \cup {a}
      /\ UNCHANGED <<waited, live, host, receipt>>
  BY DEF Launch
<1>2. HostTypeOK' /\ live' \in [Attempts -> SUBSET Attempts]
  BY <1>0, <1>1 DEF HostInv, HostTypeOK, Steps
<1>3. CASE phase' = [phase EXCEPT ![a] = "refused"] /\ UNCHANGED <<desc, proc>>
  BY <1>0, <1>1, <1>2, <1>3, SameScans DEF HostInv, HostTypeOK
<1>4. CASE phase' = [phase EXCEPT ![a] = "running"] /\ desc' = desc \cup {a}
  <2>1. a \notin desc
    BY <1>1 DEF HostInv, HostLaunched
  <2>2. ScanHeld'
    BY <1>0, <1>1, <1>4 DEF HostInv, ScanHeld, InFamily
  <2>3. HostLaunched'
    <3>1. IsFiniteSet(desc \cup {a})
      BY <1>0, FS_AddElement
    <3> QED BY <1>0, <1>4, <3>1 DEF HostInv, HostLaunched
  <2>4. LastSawAll'
    <3> SUFFICES ASSUME NEW R \in SUBSET (desc \cup {a}), R # {},
                        \A x, y \in R : x # y => Saw(x, y)
                 PROVE  \E x \in R : R \ {x} \subseteq live[x]
      BY <1>1, <1>4 DEF LastSawAll, Saw
    <3>1. CASE a \notin R
      BY <3>1 DEF HostInv, LastSawAll
    <3>2. CASE a \in R
      <4>1. ASSUME NEW b \in R \ {a}
            PROVE  b \in live[a]
        <5>1. b \in desc /\ live[b] \subseteq desc
          BY <1>0 DEF HostInv, HostLaunched, ScanHeld
        <5> QED BY <2>1, <3>2, <5>1 DEF Saw
      <4> QED BY <3>2, <4>1
    <3> QED BY <3>1, <3>2
  <2> QED BY <1>2, <2>2, <2>3, <2>4 DEF HostInv
<1> QED BY <1>1, <1>3, <1>4

\* The other steps of an attempt keep the invariant.
LEMMA AttemptKeeps ==
    ASSUME HostAssumption, HostInv, NEW a \in Attempts,
           Ask(a) \/ Decide(a) \/ Again(a) \/ Finish(a) \/ Kill(a) \/ Reap(a) \/ EditPacket(a)
    PROVE  HostInv'
<1>0. /\ phase \in [Attempts -> Steps] /\ desc \subseteq Attempts /\ receipt \subseteq desc
      /\ proc \subseteq Attempts
      /\ phase[a] \in {"running", "over"} => a \in desc
  BY DEF HostInv, HostTypeOK, HostLaunched
<1>1. UNCHANGED <<live, desc, host>>
  BY DEF Ask, Decide, Again, Finish, Kill, Reap, EditPacket
<1>2. /\ phase' \in [Attempts -> Steps]
      /\ \A b \in Attempts \ {a} : phase'[b] = phase[b]
      /\ phase'[a] \in {"sampling", "admitted", "running", "over"} =>
            phase[a] \in {"sampling", "admitted", "running", "over"}
      /\ phase'[a] \in {"running", "over"} <=> phase[a] \in {"running", "over"}
      /\ phase[a] = "sampling" /\ phase'[a] = "backoff" => waited[a] < Budget
  BY <1>0 DEF Ask, Decide, Again, Finish, Kill, Reap, EditPacket, Moves, Retry, Steps
<1>3. receipt' \subseteq desc /\ proc' \subseteq Attempts
  BY <1>0 DEF Ask, Decide, Again, Finish, Kill, Reap, EditPacket, Moves
<1>4. waited' \in [Attempts -> 0..Budget]
  <2>1. CASE Decide(a)
    <3>1. Waits(a) /\ phase[a] = "sampling"
      BY <2>1 DEF Decide
    <3> QED BY <1>2, <3>1, WaitsWithin
  <2>2. CASE ~Decide(a)
    <3>1. waited' = waited
      BY <2>2 DEF Ask, Again, Finish, Kill, Reap, EditPacket
    <3> QED BY <3>1 DEF HostInv, HostTypeOK
  <2> QED BY <2>1, <2>2
<1>5. HostTypeOK' /\ live' \in [Attempts -> SUBSET Attempts]
  BY <1>1, <1>2, <1>3, <1>4 DEF HostInv, HostTypeOK
<1>6. ScanHeld' /\ HostLaunched' /\ LastSawAll'
  BY <1>1, <1>2, SameScans
<1> QED BY <1>5, <1>6 DEF HostInv

\* A change of the weather, or of nothing, keeps it.
LEMMA SameAttempts ==
    ASSUME HostInv, host' \in Weather, UNCHANGED <<phase, waited, live, desc, receipt, proc>>
    PROVE  HostInv'
<1>1. HostTypeOK' /\ live' \in [Attempts -> SUBSET Attempts]
  BY DEF HostInv, HostTypeOK
<1>2. ScanHeld'
  BY DEF HostInv, ScanHeld, InFamily
<1>3. HostLaunched'
  BY DEF HostInv, HostLaunched
<1>4. LastSawAll'
  BY DEF HostInv, LastSawAll, Saw
<1> QED BY <1>1, <1>2, <1>3, <1>4 DEF HostInv

-----------------------------------------------------------------------------
(* The invariant, and what follows from it. *)

\* The invariant holds throughout.
LEMMA HostInvariant ==
    ASSUME HostAssumption
    PROVE  HostSpec => []HostInv
<1>1. HostInit => HostInv
  BY HostInvInit
<1>2. ASSUME HostInv, HostNext
      PROVE  HostInv'
  <2>1. CASE \E a \in Attempts : Ask(a) \/ Dispatching(a) \/ Launch(a) \/ Finish(a) \/ Kill(a)
                                 \/ Reap(a) \/ EditPacket(a)
    BY <1>2, <2>1, ScanKeeps, LaunchKeeps, AttemptKeeps DEF Dispatching
  <2>2. CASE ChangeWeather
    <3>1. host' \in Weather /\ UNCHANGED <<phase, waited, live, desc, receipt, proc>>
      BY <2>2 DEF ChangeWeather
    <3> QED BY <1>2, <3>1, SameAttempts
  <2> QED BY <1>2, <2>1, <2>2 DEF HostNext
<1>3. ASSUME HostInv, UNCHANGED hostVars
      PROVE  HostInv'
  <2>1. host' \in Weather /\ UNCHANGED <<phase, waited, live, desc, receipt, proc>>
    BY <1>3 DEF HostInv, HostTypeOK, hostVars
  <2> QED BY <1>3, <2>1, SameAttempts
<1> QED BY <1>1, <1>2, <1>3, PTL DEF HostSpec

\* The steps, scans, descriptors and receipts keep their types.
THEOREM HostTypeCorrect ==
    ASSUME HostAssumption
    PROVE  HostSpec => []HostTypeOK
<1>1. HostInv => HostTypeOK
  BY DEF HostInv
<1> QED BY <1>1, HostInvariant, PTL

\* For any attempts and families, a family runs past its target only when two
\* of its attempts were admitted around each other, neither's scan having seen
\* the other (discover_live_attempts, _under_admission).
THEOREM OverTargetIsARaceInvariant ==
    ASSUME HostAssumption
    PROVE  HostSpec => []OverTargetIsARace
<1>1. ASSUME HostInv
      PROVE  OverTargetIsARace
  <2> SUFFICES ASSUME NEW f,
                      Cardinality(InFamily(Open, f)) > FamilyTarget,
                      \A a, b \in InFamily(Open, f) : a # b => Saw(a, b)
               PROVE  FALSE
    BY DEF OverTargetIsARace, InFamily, Saw
  <2> DEFINE R == InFamily(Open, f)
  <2>1. R \in SUBSET desc /\ desc \subseteq Attempts /\ IsFiniteSet(desc) /\ FamilyTarget \in Nat
    BY <1>1 DEF HostInv, HostTypeOK, HostLaunched, InFamily, Open, HostAssumption
  <2>2. R # {}
    BY <2>1, FS_EmptySet
  <2>3. PICK a \in R : R \ {a} \subseteq live[a]
    BY <1>1, <2>1, <2>2 DEF HostInv, LastSawAll
  <2>4. /\ a \in Attempts /\ FamilyOf[a] = f /\ live[a] \subseteq desc
        /\ Cardinality(InFamily(live[a] \cup {a}, f)) <= FamilyTarget
    <3>1. a \in Attempts /\ FamilyOf[a] = f /\ phase[a] \in {"running", "over"}
      BY <1>1, <2>1, <2>3 DEF HostInv, HostLaunched, InFamily
    <3>2. /\ live[a] \subseteq desc
          /\ \A g \in {FamilyOf[b] : b \in live[a] \cup {a}} :
                Cardinality(InFamily(live[a] \cup {a}, g)) <= FamilyTarget
      BY <1>1, <3>1 DEF HostInv, ScanHeld
    <3>3. f \in {FamilyOf[b] : b \in live[a] \cup {a}}
      BY <3>1
    <3> QED BY <3>1, <3>2, <3>3
  <2>5. R \subseteq InFamily(live[a] \cup {a}, f) /\ InFamily(live[a] \cup {a}, f) \subseteq desc
    BY <2>1, <2>3, <2>4 DEF InFamily
  <2> HIDE DEF R
  <2>6. IsFiniteSet(InFamily(live[a] \cup {a}, f))
    BY <2>1, <2>5, FS_Subset
  <2>7. /\ Cardinality(R) <= Cardinality(InFamily(live[a] \cup {a}, f))
        /\ Cardinality(R) \in Nat /\ Cardinality(InFamily(live[a] \cup {a}, f)) \in Nat
    BY <2>5, <2>6, FS_Subset, FS_CardinalityType
  <2> QED BY <2>1, <2>4, <2>7 DEF R
<1> QED BY <1>1, HostInvariant, PTL

\* No decision goes on over an attempt whose process is gone and whose outcome
\* is unknown: the scan counts what runs then or fails closed
\* (discover_live_attempts).
THEOREM OnlyTheLivingAreCounted ==
    ASSUME HostAssumption
    PROVE  HostSpec => [][CountsOnlyTheLiving]_hostVars
<1>1. ASSUME HostInv, [HostNext]_hostVars
      PROVE  [CountsOnlyTheLiving]_hostVars
  <2> SUFFICES ASSUME HostNext, NEW a \in Attempts, phase[a] = "asking", phase'[a] = "sampling"
               PROVE  live'[a] \subseteq proc
    BY <1>1 DEF CountsOnlyTheLiving
  <2>1. phase \in [Attempts -> Steps] /\ live \in [Attempts -> SUBSET Attempts]
    BY <1>1 DEF HostInv, HostTypeOK
  <2>2. Scan(a)
    BY <2>1 DEF HostNext, Ask, Dispatching, Scan, Decide, Again, Launch, Finish, Kill, Reap, EditPacket,
                ChangeWeather, Moves
  <2>3. Resolved /\ live' = [live EXCEPT ![a] = Open]
    BY <2>1, <2>2 DEF Scan, Retry
  <2> QED BY <2>1, <2>3 DEF Resolved
<1> QED BY <1>1, HostInvariant, PTL DEF HostSpec

-----------------------------------------------------------------------------
(* Admission.                                                              *)

Early == {"draft", "scoped", "allowed", "admitted"}
Authorised == {"agreed", "quoted", "built", "started", "launched"}
OptPackets == Packets \cup {NoPacket}

PacketTypes ==
  /\ pc \in [Dispatchers -> DispatchSteps]
  /\ draft \in [Dispatchers -> Packets] /\ entry \in [Dispatchers -> Packets]
  /\ \A d \in Dispatchers : draft[d] \in Drafts[d]
  /\ pre \in [Dispatchers -> OptPackets] /\ placed \in [Dispatchers -> OptPackets]
  /\ fields \in [Dispatchers -> OptPackets] /\ told \in [Dispatchers -> OptPackets]
  /\ sha \in [Dispatchers -> OptPackets]
  /\ inbox \in [Tasks -> OptPackets] /\ archive \in [Tasks -> OptPackets]
  /\ reg \in [Tasks -> Rows \cup {NoPacket}]
  /\ pinned \in [Dispatchers -> {p.contract : p \in Packets} \cup {NoPacket}]
  /\ ap \in [Dispatchers -> Apertures \cup {NoPacket}]
  /\ role \in [Dispatchers -> Briefs \cup {NoPacket}]
  /\ saw \in [Dispatchers -> [brief : Briefs, blind : SUBSET Targets] \cup {NoPacket}]
  /\ open \subseteq Dispatchers /\ readable \in BOOLEAN
  /\ brief \in Briefs /\ blind \subseteq Targets

\* The aperture of an authority is the packet's, floored under what the build saw.
Floored(d) ==
  ap[d] = IF /\ fields[d].ap \in ReadPermitting /\ saw[d].brief # "open"
             /\ fields[d].names \cap saw[d].blind # {}
          THEN "cold" ELSE fields[d].ap

\* What a dispatcher has published, was allowed.
PublishedOK(d) ==
  /\ pc[d] \in Early => placed[d] = NoPacket
  /\ pc[d] \in {"allowed", "admitted"} => pre[d] # NoPacket /\ PreflightAllows(pre[d])
  /\ pc[d] \notin Early \cup {"dead"} => placed[d] # NoPacket
  /\ placed[d] # NoPacket => placed[d] = pre[d] /\ PreflightAllows(placed[d])

\* What an authority holds at each point of its build.
AuthorityOK(d) ==
  /\ pc[d] \in {"read"} \cup Authorised => fields[d] # NoPacket
  /\ pc[d] \in Authorised => Floored(d)
  /\ pc[d] \in Authorised \ {"agreed"} => told[d] # NoPacket
  /\ pc[d] \in {"built", "started", "launched"} => sha[d] # NoPacket
  /\ pc[d] = "launched" => sha[d].contract = fields[d].contract

\* The contract of an authority is the registered one as soon as the row is its
\* own, and the row of a started attempt is its own and not settled.
ContractOK(d) ==
  /\ pc[d] \in Authorised /\ d \notin open /\ Owner(placed[d].id, d)
        => fields[d].contract = pinned[d]
  /\ pc[d] \in {"started", "launched"}
        => Owner(placed[d].id, d) /\ reg[placed[d].id].st # "complete"

\* A row is what its dispatcher registered, under the task it assembled.
RowOK(t) ==
  reg[t] # NoPacket =>
    LET e == entry[reg[t].att] IN
    /\ pc[reg[t].att] \notin Early \cup {"published"} /\ t = e.id
    /\ pinned[reg[t].att] = e.contract
    /\ reg[t].pin = e.contract /\ reg[t].scope = e.scope /\ reg[t].owed = e.owed

DispatchOK(d) == PublishedOK(d) /\ AuthorityOK(d) /\ ContractOK(d)

AdmitInv ==
  /\ PacketTypes
  /\ \A d \in Dispatchers : DispatchOK(d)
  /\ \A t \in Tasks : RowOK(t)

\* What dispatcher e knows is left alone.
Same(e) ==
  /\ pc'[e] = pc[e] /\ pre'[e] = pre[e] /\ placed'[e] = placed[e]
  /\ fields'[e] = fields[e] /\ told'[e] = told[e] /\ sha'[e] = sha[e]
  /\ ap'[e] = ap[e] /\ saw'[e] = saw[e] /\ pinned'[e] = pinned[e]
  /\ (e \in open') <=> (e \in open)

\* What a step of dispatcher d may do to the row of a task: give it another
\* status, take its own away, or register it.
RowStep(d, t) ==
  \/ reg'[t] = reg[t]
  \/ /\ reg[t] # NoPacket /\ reg'[t] # NoPacket
     /\ reg'[t].att = reg[t].att /\ reg'[t].pin = reg[t].pin
     /\ reg'[t].scope = reg[t].scope /\ reg'[t].owed = reg[t].owed
     /\ reg'[t].st = "complete" => reg[t].att = d
  \/ reg[t] # NoPacket /\ reg[t].att = d /\ reg'[t] = NoPacket
  \/ /\ pc[d] = "published" /\ pc'[d] = "registered" /\ t = entry[d].id
     /\ pinned'[d] = entry[d].contract /\ reg[t] = NoPacket /\ reg'[t] # NoPacket
     /\ reg'[t].att = d /\ reg'[t].pin = entry[d].contract
     /\ reg'[t].scope = entry[d].scope /\ reg'[t].owed = entry[d].owed

\* A row with another status is a row, and otherwise the same.
LEMMA StatusStep ==
  ASSUME AdmissionAssumption, PacketTypes, NEW t \in Tasks, reg[t] # NoPacket, NEW st \in RowStates,
         reg' = [reg EXCEPT ![t].st = st]
  PROVE  /\ reg' \in [Tasks -> Rows \cup {NoPacket}]
         /\ reg'[t] # NoPacket /\ reg'[t].st = st
         /\ reg'[t].att = reg[t].att /\ reg'[t].pin = reg[t].pin
         /\ reg'[t].scope = reg[t].scope /\ reg'[t].owed = reg[t].owed
         /\ \A u \in Tasks \ {t} : reg'[u] = reg[u]
<1>1. reg \in [Tasks -> Rows \cup {NoPacket}] /\ reg[t] \in Rows
  BY DEF PacketTypes
<1>2. reg'[t] = [reg[t] EXCEPT !.st = st] /\ \A u \in Tasks \ {t} : reg'[u] = reg[u]
  BY <1>1
<1>3. reg'[t] \in Rows
  BY <1>1, <1>2 DEF Rows
<1>4. reg' \in [Tasks -> Rows \cup {NoPacket}]
  BY <1>1, <1>3, reg' = [reg EXCEPT ![t] = reg'[t]]
<1>5. reg'[t] # NoPacket
  BY <1>3 DEF AdmissionAssumption
<1> QED
  BY <1>1, <1>2, <1>4, <1>5 DEF Rows

\* A step of one dispatcher leaves what is known of the others, and of the rows,
\* as true as it was.
LEMMA OneDispatcher ==
  ASSUME AdmissionAssumption, AdmitInv, NEW d \in Dispatchers, entry' = entry,
         PacketTypes', DispatchOK(d)',
         \A e \in Dispatchers \ {d} : Same(e),
         \A t \in Tasks : RowStep(d, t),
         pc[d] = "published" \/ pinned'[d] = pinned[d],
         pc[d] \notin Early \cup {"published"} => pc'[d] \notin Early \cup {"published"}
  PROVE  AdmitInv'
<1>1. ASSUME NEW e \in Dispatchers, e # d PROVE DispatchOK(e)'
  <2>1. DispatchOK(e) /\ Same(e) /\ placed[e] \in OptPackets
    BY <1>1 DEF AdmitInv, PacketTypes
  <2>2. PublishedOK(e)'
    BY <2>1 DEF DispatchOK, PublishedOK, Same
  <2>3. AuthorityOK(e)'
    BY <2>1 DEF DispatchOK, AuthorityOK, Floored, Same
  <2>4. CASE pc[e] \notin Authorised
    <3>1. ContractOK(e)'
      BY <2>1, <2>4 DEF ContractOK, Same, Authorised
    <3> QED BY <2>2, <2>3, <3>1 DEF DispatchOK
  <2>5. CASE pc[e] \in Authorised
    <3>1. placed[e] # NoPacket
      BY <2>1, <2>5 DEF DispatchOK, PublishedOK, Authorised, Early
    <3>2. placed[e].id \in Tasks
      BY <2>1, <3>1 DEF OptPackets, Tasks
    <3>3. Owner(placed[e].id, e)' => Owner(placed[e].id, e)
      BY <1>1, <2>1, <3>2 DEF Owner, RowStep, Same
    <3>4. /\ Owner(placed[e].id, e) /\ reg[placed[e].id].st # "complete"
          => Owner(placed[e].id, e)' /\ reg'[placed[e].id].st # "complete"
      BY <1>1, <2>1, <3>2 DEF Owner, RowStep, Same
    <3>5. ContractOK(e)'
      BY <2>1, <3>3, <3>4 DEF DispatchOK, ContractOK, Same
    <3> QED BY <2>2, <2>3, <3>5 DEF DispatchOK
  <2> QED BY <2>4, <2>5
<1>2. ASSUME NEW t \in Tasks PROVE RowOK(t)'
  <2> SUFFICES ASSUME reg'[t] # NoPacket PROVE RowOK(t)'
    BY DEF RowOK
  <2>1. RowOK(t) /\ RowStep(d, t) /\ (reg[t] # NoPacket => reg[t].att \in Dispatchers)
    BY DEF AdmitInv, PacketTypes, Rows
  <2>2. CASE reg[t] # NoPacket
    <3>1. /\ reg'[t].att = reg[t].att /\ reg'[t].pin = reg[t].pin
          /\ reg'[t].scope = reg[t].scope /\ reg'[t].owed = reg[t].owed
      BY <2>1, <2>2 DEF RowStep
    <3>2. CASE reg[t].att # d
      BY <2>1, <2>2, <3>1, <3>2 DEF RowOK, Same
    <3>3. CASE reg[t].att = d
      BY <2>1, <2>2, <3>1, <3>3 DEF RowOK
    <3> QED BY <3>2, <3>3
  <2>3. CASE reg[t] = NoPacket
    BY <2>1, <2>3 DEF RowStep, RowOK, Early
  <2> QED BY <2>2, <2>3
<1> QED
  BY <1>1, <1>2 DEF AdmitInv

\* A step that touches no row.
LEMMA RowsUntouched ==
  ASSUME UNCHANGED reg, NEW d
  PROVE  \A t \in Tasks : RowStep(d, t)
BY DEF RowStep

\* Giving up ends the dispatch; whatever row it closes stays a row.
LEMMA GivesUp ==
  ASSUME AdmissionAssumption, AdmitInv, NEW d \in Dispatchers, NEW t \in Tasks, GiveUp(d, t)
  PROVE  /\ pc' \in [Dispatchers -> DispatchSteps] /\ pc'[d] = "dead"
         /\ \A e \in Dispatchers \ {d} : pc'[e] = pc[e]
         /\ reg' \in [Tasks -> Rows \cup {NoPacket}]
         /\ \A u \in Tasks : RowStep(d, u)
<1>1. PacketTypes
  BY DEF AdmitInv
<1>2. /\ pc' \in [Dispatchers -> DispatchSteps] /\ pc'[d] = "dead"
      /\ \A e \in Dispatchers \ {d} : pc'[e] = pc[e]
  BY <1>1 DEF GiveUp, Go, PacketTypes, DispatchSteps
<1>3. CASE UNCHANGED reg
  BY <1>1, <1>2, <1>3, RowsUntouched DEF PacketTypes
<1>4. ASSUME reg[t] # NoPacket, NEW st \in {"blocked", "cancelled"}, reg' = [reg EXCEPT ![t].st = st]
      PROVE  /\ reg' \in [Tasks -> Rows \cup {NoPacket}]
             /\ \A u \in Tasks : RowStep(d, u)
  <2>1. st \in RowStates /\ st # "complete"
    BY DEF RowStates
  <2>2. /\ reg' \in [Tasks -> Rows \cup {NoPacket}]
        /\ reg'[t] # NoPacket /\ reg'[t].st = st
        /\ reg'[t].att = reg[t].att /\ reg'[t].pin = reg[t].pin
        /\ reg'[t].scope = reg[t].scope /\ reg'[t].owed = reg[t].owed
        /\ \A u \in Tasks \ {t} : reg'[u] = reg[u]
    BY <1>1, <1>4, <2>1, StatusStep
  <2>3. RowStep(d, t)
    BY <1>4, <2>1, <2>2 DEF RowStep
  <2>4. \A u \in Tasks \ {t} : RowStep(d, u)
    BY <2>2 DEF RowStep
  <2> QED BY <2>2, <2>3, <2>4
<1>5. \/ UNCHANGED reg
      \/ reg[t] # NoPacket /\ \E st \in {"blocked", "cancelled"} : reg' = [reg EXCEPT ![t].st = st]
  BY DEF GiveUp, InFlight
<1> QED BY <1>2, <1>3, <1>4, <1>5

\* The steps of a dispatcher on its own draft.
LEMMA DraftStep ==
  ASSUME AdmissionAssumption, AdmitInv, NEW d \in Dispatchers,
         CheckScope(d) \/ Preflight(d) \/ HostAdmit(d) \/ Crash(d) \/ EditDraft(d)
  PROVE  AdmitInv'
<1>0. PacketTypes /\ DispatchOK(d)
  BY DEF AdmitInv
<1>1. /\ UNCHANGED <<entry, placed, inbox, archive, reg, pinned, fields, told, sha, ap, role,
                     open, saw, readable, brief, blind>>
      /\ pc' = pc \/ \E step \in {"dead", "scoped", "allowed", "admitted"} : Go(d, step)
      /\ pre' = pre \/ pre' = [pre EXCEPT ![d] = draft[d]]
      /\ draft' = draft \/ \E p \in Drafts[d] : draft' = [draft EXCEPT ![d] = p]
  BY DEF CheckScope, Preflight, HostAdmit, Crash, EditDraft, Go, draftVars, buildVars, worldVars
<1>2. \A p \in Drafts[d] : p \in Packets
  BY DEF Packets
<1>3. PacketTypes'
  <2>1. pc' \in [Dispatchers -> DispatchSteps]
    BY <1>0, <1>1 DEF PacketTypes, Go, DispatchSteps
  <2>2. pre' \in [Dispatchers -> OptPackets]
    BY <1>0, <1>1 DEF PacketTypes, OptPackets
  <2>3. draft' \in [Dispatchers -> Packets] /\ \A e \in Dispatchers : draft'[e] \in Drafts[e]
    BY <1>0, <1>1, <1>2 DEF PacketTypes
  <2> QED BY <1>0, <1>1, <2>1, <2>2, <2>3 DEF PacketTypes
<1>4. \A e \in Dispatchers \ {d} : Same(e)
  BY <1>0, <1>1 DEF Same, Go, PacketTypes
<1>5. pc[d] \notin Early \cup {"published"} => pc'[d] \notin Early \cup {"published"}
  BY <1>0 DEF CheckScope, Preflight, HostAdmit, Crash, EditDraft, Go, Before, Early, PacketTypes
<1>6. DispatchOK(d)'
  <2>1. CASE CheckScope(d)
    BY <1>0, <2>1, <1>1 DEF CheckScope, Go, Before, PacketTypes, DispatchOK, PublishedOK, AuthorityOK,
       ContractOK, Early, Authorised, draftVars
  <2>2. CASE Preflight(d)
    <3>1. draft[d] # NoPacket
      BY <1>0 DEF PacketTypes, AdmissionAssumption
    <3>2. pre'[d] = draft[d] /\ (pc'[d] = "allowed" => PreflightAllows(draft[d]))
          /\ pc'[d] \in {"allowed", "dead"} /\ pc[d] = "scoped"
      BY <1>0, <2>2 DEF Preflight, Go, Before, PacketTypes
    <3> QED
      BY <1>0, <1>1, <3>1, <3>2 DEF DispatchOK, PublishedOK, AuthorityOK, ContractOK, Early, Authorised
  <2>3. CASE HostAdmit(d)
    BY <1>0, <2>3, <1>1 DEF HostAdmit, Go, Before, PacketTypes, DispatchOK, PublishedOK, AuthorityOK,
       ContractOK, Early, Authorised, draftVars
  <2>4. CASE Crash(d)
    BY <1>0, <2>4, <1>1 DEF Crash, Go, PacketTypes, DispatchOK, PublishedOK, AuthorityOK,
       ContractOK, Early, Authorised, draftVars
  <2>5. CASE EditDraft(d)
    <3>1. pc' = pc /\ pre' = pre
      BY <2>5 DEF EditDraft
    <3> QED
      BY <1>0, <1>1, <3>1 DEF DispatchOK, PublishedOK, AuthorityOK, ContractOK, Floored, Owner
  <2> QED BY <2>1, <2>2, <2>3, <2>4, <2>5
<1> QED
  BY <1>1, <1>3, <1>4, <1>5, <1>6, RowsUntouched, OneDispatcher

\* What is put in the inbox is what preflight allowed.
LEMMA PublishStep ==
  ASSUME AdmissionAssumption, AdmitInv, NEW d \in Dispatchers, Publish(d)
  PROVE  AdmitInv'
<1>0. PacketTypes /\ DispatchOK(d) /\ pc[d] = "admitted"
  BY DEF AdmitInv, Publish, Before
<1>1. /\ UNCHANGED <<draft, entry, pre, archive, reg, pinned, fields, told, sha, ap, role,
                     open, saw, readable, brief, blind>>
      /\ \/ Go(d, "dead") /\ UNCHANGED <<placed, inbox>>
         \/ /\ Go(d, "published") /\ draft[d] = pre[d]
            /\ placed' = [placed EXCEPT ![d] = draft[d]]
            /\ inbox' = [inbox EXCEPT ![draft[d].id] = draft[d]]
  BY DEF Publish, buildVars, worldVars
<1>2. draft[d] \in Packets /\ draft[d].id \in Tasks /\ draft[d] # NoPacket
  BY <1>0 DEF PacketTypes, Tasks, AdmissionAssumption
<1>3. PacketTypes'
  <2>1. pc' \in [Dispatchers -> DispatchSteps]
    BY <1>0, <1>1 DEF PacketTypes, Go, DispatchSteps
  <2>2. placed' \in [Dispatchers -> OptPackets] /\ inbox' \in [Tasks -> OptPackets]
    BY <1>0, <1>1, <1>2 DEF PacketTypes, OptPackets
  <2> QED BY <1>0, <1>1, <2>1, <2>2 DEF PacketTypes
<1>4. \A e \in Dispatchers \ {d} : Same(e)
  BY <1>0, <1>1 DEF Same, Go, PacketTypes
<1>5. DispatchOK(d)'
  <2>1. \/ pc'[d] = "dead" /\ placed' = placed
        \/ pc'[d] = "published" /\ placed'[d] = draft[d] /\ draft[d] = pre[d]
    BY <1>0, <1>1 DEF Go, PacketTypes
  <2> QED
    BY <1>0, <1>1, <1>2, <2>1 DEF DispatchOK, PublishedOK, AuthorityOK, ContractOK, Early, Authorised
<1> QED
  BY <1>0, <1>1, <1>3, <1>4, <1>5, RowsUntouched, OneDispatcher DEF Early

\* Registration writes a row only where there is none.
LEMMA RegisterStep ==
  ASSUME AdmissionAssumption, AdmitInv, NEW d \in Dispatchers, Register(d)
  PROVE  AdmitInv'
<1>0. PacketTypes /\ DispatchOK(d) /\ pc[d] = "published"
  BY DEF AdmitInv, Register, Before
<1> DEFINE t == entry[d].id
<1>1. UNCHANGED <<draft, entry, pre, placed, inbox, archive, fields, told, sha, ap, role,
                  open, saw, readable, brief, blind>>
  BY DEF Register, draftVars, buildVars, worldVars
<1>2. \/ UNCHANGED <<reg, pinned>> /\ \E step \in {"dead", "registered"} : Go(d, step)
      \/ /\ reg[t] = NoPacket /\ Go(d, "registered")
         /\ reg' = [reg EXCEPT ![t] = Row(d, entry[d])]
         /\ pinned' = [pinned EXCEPT ![d] = entry[d].contract]
  BY DEF Register
<1>3. entry[d] \in Packets /\ t \in Tasks
  BY <1>0 DEF PacketTypes, Tasks
<1> HIDE DEF t
<1>4. Row(d, entry[d]) \in Rows /\ Row(d, entry[d]) # NoPacket
  BY <1>3 DEF Row, Rows, RowStates, AdmissionAssumption
<1>5. PacketTypes'
  <2>1. pc' \in [Dispatchers -> DispatchSteps]
    BY <1>0, <1>2 DEF PacketTypes, Go, DispatchSteps
  <2>2. reg' \in [Tasks -> Rows \cup {NoPacket}]
    BY <1>0, <1>2, <1>4 DEF PacketTypes
  <2>3. pinned' \in [Dispatchers -> {p.contract : p \in Packets} \cup {NoPacket}]
    BY <1>0, <1>2, <1>3 DEF PacketTypes
  <2> QED BY <1>0, <1>1, <2>1, <2>2, <2>3 DEF PacketTypes
<1>6. \A e \in Dispatchers \ {d} : Same(e)
  BY <1>0, <1>1, <1>2 DEF Same, Go, PacketTypes
<1>7. pc'[d] \in {"dead", "registered"}
  BY <1>0, <1>2 DEF Go, PacketTypes
<1>8. DispatchOK(d)'
  BY <1>0, <1>1, <1>7 DEF DispatchOK, PublishedOK, AuthorityOK, ContractOK, Early, Authorised
<1>9. ASSUME NEW u \in Tasks PROVE RowStep(d, u)
  <2>1. CASE UNCHANGED reg
    BY <2>1 DEF RowStep
  <2>2. CASE /\ reg[t] = NoPacket /\ Go(d, "registered")
             /\ reg' = [reg EXCEPT ![t] = Row(d, entry[d])]
             /\ pinned' = [pinned EXCEPT ![d] = entry[d].contract]
    <3>1. CASE u # t
      BY <1>0, <1>3, <2>2, <3>1 DEF RowStep, PacketTypes
    <3>2. CASE u = t
      <4>1. reg'[u] = Row(d, entry[d]) /\ pinned'[d] = entry[d].contract /\ pc'[d] = "registered"
        BY <1>0, <1>3, <2>2, <3>2 DEF PacketTypes, Go
      <4> QED BY <1>0, <1>4, <2>2, <3>2, <4>1 DEF RowStep, Row, t
    <3> QED BY <3>1, <3>2
  <2> QED BY <1>2, <2>1, <2>2
<1> QED
  BY <1>0, <1>1, <1>5, <1>6, <1>8, <1>9, OneDispatcher DEF Early

\* A build that fails gives up.
LEMMA BuildFails ==
  ASSUME AdmissionAssumption, AdmitInv, NEW d \in Dispatchers, placed[d] # NoPacket,
         GiveUp(d, placed[d].id), pc[d] \notin Early,
         UNCHANGED <<draft, entry, pre, placed, inbox, archive, pinned, fields, told, sha, ap,
                     role, open, saw, readable, brief, blind>>
  PROVE  AdmitInv'
<1>1. PacketTypes /\ DispatchOK(d)
  BY DEF AdmitInv
<1>2. placed[d].id \in Tasks
  BY <1>1 DEF PacketTypes, OptPackets, Tasks
<1>3. /\ pc' \in [Dispatchers -> DispatchSteps] /\ pc'[d] = "dead"
      /\ \A e \in Dispatchers \ {d} : pc'[e] = pc[e]
      /\ reg' \in [Tasks -> Rows \cup {NoPacket}]
      /\ \A u \in Tasks : RowStep(d, u)
  BY <1>2, GivesUp
<1>4. PacketTypes'
  BY <1>1, <1>3 DEF PacketTypes
<1>5. DispatchOK(d)'
  BY <1>1, <1>3 DEF DispatchOK, PublishedOK, AuthorityOK, ContractOK, Early, Authorised
<1>6. \A e \in Dispatchers \ {d} : Same(e)
  BY <1>3 DEF Same
<1> QED
  BY <1>3, <1>4, <1>5, <1>6, OneDispatcher DEF Early

\* The first read of the packet gives the authority its fields.
LEMMA BuildReadStep ==
  ASSUME AdmissionAssumption, AdmitInv, NEW d \in Dispatchers, BuildRead(d)
  PROVE  AdmitInv'
<1>0. PacketTypes /\ DispatchOK(d) /\ pc[d] = "registered"
  BY DEF AdmitInv, BuildRead, Before
<1>1. placed[d] # NoPacket /\ pc[d] \notin Early
  BY <1>0 DEF DispatchOK, PublishedOK, Early
<1>2. UNCHANGED <<draft, entry, pre, placed, inbox, archive, pinned, told, sha, ap, role,
                  open, saw, readable, brief, blind>>
  BY DEF BuildRead, draftVars, worldVars
<1>3. CASE UNCHANGED fields /\ GiveUp(d, placed[d].id)
  BY <1>1, <1>2, <1>3, BuildFails
<1>4. CASE /\ inbox[placed[d].id] # NoPacket /\ UNCHANGED reg
           /\ fields' = [fields EXCEPT ![d] = inbox[placed[d].id]] /\ Go(d, "read")
  <2>1. placed[d].id \in Tasks
    BY <1>0, <1>1 DEF PacketTypes, OptPackets, Tasks
  <2>2. inbox[placed[d].id] \in OptPackets
    BY <1>0, <2>1 DEF PacketTypes
  <2>3. PacketTypes'
    <3>1. pc' \in [Dispatchers -> DispatchSteps] /\ fields' \in [Dispatchers -> OptPackets]
      BY <1>0, <1>4, <2>2 DEF PacketTypes, Go, DispatchSteps
    <3> QED BY <1>0, <1>2, <1>4, <3>1 DEF PacketTypes
  <2>4. pc'[d] = "read" /\ fields'[d] # NoPacket
    BY <1>0, <1>4 DEF PacketTypes, Go
  <2>5. DispatchOK(d)'
    BY <1>0, <1>2, <2>4 DEF DispatchOK, PublishedOK, AuthorityOK, ContractOK, Early, Authorised
  <2>6. \A e \in Dispatchers \ {d} : Same(e)
    BY <1>0, <1>2, <1>4 DEF Same, Go, PacketTypes
  <2> QED
    BY <1>2, <1>4, <2>3, <2>4, <2>5, <2>6, RowsUntouched, OneDispatcher DEF Early
<1> QED
  BY <1>3, <1>4 DEF BuildRead

\* The first read is held to the registered contract, and the aperture floored.
LEMMA BuildPinStep ==
  ASSUME AdmissionAssumption, AdmitInv, NEW d \in Dispatchers, BuildPin(d)
  PROVE  AdmitInv'
<1>0. PacketTypes /\ DispatchOK(d) /\ pc[d] = "read"
  BY DEF AdmitInv, BuildPin, Before
<1>1. placed[d] # NoPacket /\ pc[d] \notin Early
  BY <1>0 DEF DispatchOK, PublishedOK, Early
<1>2. UNCHANGED <<draft, entry, pre, placed, inbox, archive, pinned, fields, told, sha, role,
                  readable, brief, blind>>
  BY DEF BuildPin, draftVars, worldVars
<1>3. CASE GiveUp(d, placed[d].id) /\ UNCHANGED <<open, ap, saw>>
  BY <1>1, <1>2, <1>3, BuildFails
<1>4. CASE /\ PinAgrees(fields[d], placed[d].id) /\ UNCHANGED reg
           /\ open' = IF ~readable \/ reg[placed[d].id] = NoPacket THEN open \cup {d} ELSE open
           /\ ap' = [ap EXCEPT ![d] = BlindFloor(fields[d])]
           /\ saw' = [saw EXCEPT ![d] = [brief |-> brief, blind |-> blind]]
           /\ Go(d, "agreed")
  <2>1. placed[d].id \in Tasks
    BY <1>0, <1>1 DEF PacketTypes, OptPackets, Tasks
  <2>2. fields[d] # NoPacket /\ fields[d] \in Packets
    BY <1>0 DEF DispatchOK, AuthorityOK, PacketTypes, OptPackets
  <2>3. BlindFloor(fields[d]) \in Apertures
    BY <2>2 DEF BlindFloor, AdmissionAssumption, Apertures
  <2>4. PacketTypes'
    <3>1. pc' \in [Dispatchers -> DispatchSteps] /\ ap' \in [Dispatchers -> Apertures \cup {NoPacket}]
      BY <1>0, <1>4, <2>3 DEF PacketTypes, Go, DispatchSteps
    <3>2. saw' \in [Dispatchers -> [brief : Briefs, blind : SUBSET Targets] \cup {NoPacket}]
      BY <1>0, <1>4 DEF PacketTypes
    <3>3. open' \subseteq Dispatchers
      BY <1>0, <1>4 DEF PacketTypes
    <3> QED BY <1>0, <1>2, <1>4, <3>1, <3>2, <3>3 DEF PacketTypes
  <2>5. /\ pc'[d] = "agreed" /\ ap'[d] = BlindFloor(fields[d])
        /\ saw'[d] = [brief |-> brief, blind |-> blind]
    BY <1>0, <1>4 DEF PacketTypes, Go
  <2>6. Floored(d)'
    BY <1>2, <2>5 DEF Floored, BlindFloor, RequiresBlind
  <2>7. d \notin open' /\ Owner(placed[d].id, d) => fields[d].contract = pinned[d]
    <3>1. RowOK(placed[d].id)
      BY <2>1 DEF AdmitInv
    <3> QED BY <1>4, <3>1 DEF PinAgrees, Owner, RowOK
  <2>8. DispatchOK(d)'
    <3>1. PublishedOK(d)'
      BY <1>0, <1>2, <2>5 DEF DispatchOK, PublishedOK, Early
    <3>2. AuthorityOK(d)'
      BY <1>0, <1>2, <2>2, <2>5, <2>6 DEF DispatchOK, AuthorityOK, Authorised
    <3>3. ContractOK(d)'
      BY <1>2, <1>4, <2>5, <2>7 DEF ContractOK, Owner
    <3> QED BY <3>1, <3>2, <3>3 DEF DispatchOK
  <2>9. \A e \in Dispatchers \ {d} : Same(e)
    BY <1>0, <1>2, <1>4 DEF Same, Go, PacketTypes
  <2> QED
    BY <1>2, <1>4, <2>4, <2>5, <2>8, <2>9, RowsUntouched, OneDispatcher DEF Early
<1> QED
  BY <1>3, <1>4 DEF BuildPin

\* The second read is what the prompt quotes.
LEMMA BuildPromptStep ==
  ASSUME AdmissionAssumption, AdmitInv, NEW d \in Dispatchers, BuildPrompt(d)
  PROVE  AdmitInv'
<1>0. PacketTypes /\ DispatchOK(d) /\ pc[d] = "agreed"
  BY DEF AdmitInv, BuildPrompt, Before
<1>1. placed[d] # NoPacket /\ pc[d] \notin Early
  BY <1>0 DEF DispatchOK, PublishedOK, Early
<1>2. UNCHANGED <<draft, entry, pre, placed, inbox, archive, pinned, fields, sha, ap,
                  open, saw, readable, brief, blind>>
  BY DEF BuildPrompt, draftVars, worldVars
<1>3. CASE GiveUp(d, placed[d].id) /\ UNCHANGED <<told, role>>
  BY <1>1, <1>2, <1>3, BuildFails
<1>4. CASE /\ inbox[placed[d].id] # NoPacket /\ UNCHANGED reg
           /\ told' = [told EXCEPT ![d] = inbox[placed[d].id]]
           /\ role' = [role EXCEPT ![d] = brief] /\ Go(d, "quoted")
  <2>1. placed[d].id \in Tasks
    BY <1>0, <1>1 DEF PacketTypes, OptPackets, Tasks
  <2>2. inbox[placed[d].id] \in OptPackets
    BY <1>0, <2>1 DEF PacketTypes
  <2>3. PacketTypes'
    <3>1. /\ pc' \in [Dispatchers -> DispatchSteps] /\ told' \in [Dispatchers -> OptPackets]
          /\ role' \in [Dispatchers -> Briefs \cup {NoPacket}]
      BY <1>0, <1>4, <2>2 DEF PacketTypes, Go, DispatchSteps
    <3> QED BY <1>0, <1>2, <1>4, <3>1 DEF PacketTypes
  <2>4. pc'[d] = "quoted" /\ told'[d] # NoPacket
    BY <1>0, <1>4 DEF PacketTypes, Go
  <2>5. DispatchOK(d)'
    BY <1>0, <1>2, <1>4, <2>4 DEF DispatchOK, PublishedOK, AuthorityOK, ContractOK, Floored, Owner,
       Early, Authorised
  <2>6. \A e \in Dispatchers \ {d} : Same(e)
    BY <1>0, <1>2, <1>4 DEF Same, Go, PacketTypes
  <2> QED
    BY <1>2, <1>4, <2>3, <2>4, <2>5, <2>6, RowsUntouched, OneDispatcher DEF Early
<1> QED
  BY <1>3, <1>4 DEF BuildPrompt

\* The third read is what the authority's digest names.
LEMMA BuildSealStep ==
  ASSUME AdmissionAssumption, AdmitInv, NEW d \in Dispatchers, BuildSeal(d)
  PROVE  AdmitInv'
<1>0. PacketTypes /\ DispatchOK(d) /\ pc[d] = "quoted"
  BY DEF AdmitInv, BuildSeal, Before
<1>1. placed[d] # NoPacket /\ pc[d] \notin Early
  BY <1>0 DEF DispatchOK, PublishedOK, Early
<1>2. UNCHANGED <<draft, entry, pre, placed, inbox, archive, pinned, fields, told, ap, role,
                  open, saw, readable, brief, blind>>
  BY DEF BuildSeal, draftVars, worldVars
<1>3. CASE GiveUp(d, placed[d].id) /\ UNCHANGED sha
  BY <1>1, <1>2, <1>3, BuildFails
<1>4. CASE /\ inbox[placed[d].id] # NoPacket /\ UNCHANGED reg
           /\ sha' = [sha EXCEPT ![d] = inbox[placed[d].id]] /\ Go(d, "built")
  <2>1. placed[d].id \in Tasks
    BY <1>0, <1>1 DEF PacketTypes, OptPackets, Tasks
  <2>2. inbox[placed[d].id] \in OptPackets
    BY <1>0, <2>1 DEF PacketTypes
  <2>3. PacketTypes'
    <3>1. pc' \in [Dispatchers -> DispatchSteps] /\ sha' \in [Dispatchers -> OptPackets]
      BY <1>0, <1>4, <2>2 DEF PacketTypes, Go, DispatchSteps
    <3> QED BY <1>0, <1>2, <1>4, <3>1 DEF PacketTypes
  <2>4. pc'[d] = "built" /\ sha'[d] # NoPacket
    BY <1>0, <1>4 DEF PacketTypes, Go
  <2>5. DispatchOK(d)'
    BY <1>0, <1>2, <1>4, <2>4 DEF DispatchOK, PublishedOK, AuthorityOK, ContractOK, Floored, Owner,
       Early, Authorised
  <2>6. \A e \in Dispatchers \ {d} : Same(e)
    BY <1>0, <1>2, <1>4 DEF Same, Go, PacketTypes
  <2> QED
    BY <1>2, <1>4, <2>3, <2>4, <2>5, <2>6, RowsUntouched, OneDispatcher DEF Early
<1> QED
  BY <1>3, <1>4 DEF BuildSeal

\* An attempt is started only in its own queued row.
LEMMA StartStep ==
  ASSUME AdmissionAssumption, AdmitInv, NEW d \in Dispatchers, Start(d)
  PROVE  AdmitInv'
<1>0. PacketTypes /\ DispatchOK(d) /\ pc[d] = "built"
  BY DEF AdmitInv, Start, Before
<1>1. placed[d] # NoPacket /\ pc[d] \notin Early
  BY <1>0 DEF DispatchOK, PublishedOK, Early
<1>2. UNCHANGED <<draft, entry, pre, placed, inbox, archive, pinned, fields, told, sha, ap, role,
                  open, saw, readable, brief, blind>>
  BY DEF Start, draftVars, buildVars, worldVars
<1>3. CASE GiveUp(d, placed[d].id)
  BY <1>1, <1>2, <1>3, BuildFails
<1>4. CASE /\ Owner(placed[d].id, d) /\ Go(d, "started")
           /\ reg' = [reg EXCEPT ![placed[d].id].st = "running"]
  <2> DEFINE t == placed[d].id
  <2>1. t \in Tasks
    BY <1>0, <1>1 DEF PacketTypes, OptPackets, Tasks
  <2>2. reg[t] # NoPacket /\ reg[t].att = d /\ "running" \in RowStates
    BY <1>4 DEF Owner, RowStates
  <2>3. /\ reg' \in [Tasks -> Rows \cup {NoPacket}]
        /\ reg'[t] # NoPacket /\ reg'[t].st = "running"
        /\ reg'[t].att = reg[t].att /\ reg'[t].pin = reg[t].pin
        /\ reg'[t].scope = reg[t].scope /\ reg'[t].owed = reg[t].owed
        /\ \A u \in Tasks \ {t} : reg'[u] = reg[u]
    BY <1>0, <1>4, <2>1, <2>2, StatusStep
  <2>4. \A u \in Tasks : RowStep(d, u)
    BY <2>2, <2>3 DEF RowStep
  <2>5. PacketTypes'
    <3>1. pc' \in [Dispatchers -> DispatchSteps]
      BY <1>0, <1>4 DEF PacketTypes, Go, DispatchSteps
    <3> QED BY <1>0, <1>2, <2>3, <3>1 DEF PacketTypes
  <2>6. pc'[d] = "started"
    BY <1>0, <1>4 DEF PacketTypes, Go
  <2>7. PublishedOK(d)' /\ AuthorityOK(d)'
    BY <1>0, <1>2, <2>6 DEF DispatchOK, PublishedOK, AuthorityOK, Floored, Early, Authorised
  <2>8. ContractOK(d)'
    BY <1>0, <1>2, <2>2, <2>3, <2>6 DEF DispatchOK, ContractOK, Owner, Authorised
  <2>9. \A e \in Dispatchers \ {d} : Same(e)
    BY <1>0, <1>2, <1>4 DEF Same, Go, PacketTypes
  <2> QED
    BY <1>2, <2>4, <2>5, <2>6, <2>7, <2>8, <2>9, OneDispatcher DEF DispatchOK, Early
<1> QED
  BY <1>3, <1>4 DEF Start

\* The supervisor launches only what its authority names.
LEMMA LaunchStep ==
  ASSUME AdmissionAssumption, AdmitInv, NEW d \in Dispatchers, LaunchWorker(d)
  PROVE  AdmitInv'
<1>0. PacketTypes /\ DispatchOK(d) /\ pc[d] = "started" /\ Launchable(d) /\ Go(d, "launched")
  BY DEF AdmitInv, LaunchWorker, Before
<1>1. UNCHANGED <<draft, entry, pre, placed, inbox, archive, reg, pinned, fields, told, sha, ap,
                  role, open, saw, readable, brief, blind>>
  BY DEF LaunchWorker, draftVars, buildVars, worldVars
<1>2. pc'[d] = "launched" /\ pc' \in [Dispatchers -> DispatchSteps]
  BY <1>0 DEF PacketTypes, Go, DispatchSteps
<1>3. PacketTypes'
  BY <1>0, <1>1, <1>2 DEF PacketTypes
<1>4. DispatchOK(d)'
  BY <1>0, <1>1, <1>2 DEF DispatchOK, PublishedOK, AuthorityOK, ContractOK, Floored, Owner,
     Launchable, Early, Authorised
<1>5. \A e \in Dispatchers \ {d} : Same(e)
  BY <1>0, <1>1 DEF Same, Go, PacketTypes
<1> QED
  BY <1>1, <1>2, <1>3, <1>4, <1>5, RowsUntouched, OneDispatcher DEF Early

\* A refused launch and a settled one end the attempt in its row.
LEMMA EndStep ==
  ASSUME AdmissionAssumption, AdmitInv, NEW d \in Dispatchers, Refuse(d) \/ Settle(d)
  PROVE  AdmitInv'
<1> DEFINE t == placed[d].id
<1>0. PacketTypes /\ DispatchOK(d) /\ pc[d] \in {"started", "launched"}
  BY DEF AdmitInv, Refuse, Settle, Before
<1>1. placed[d] # NoPacket /\ Owner(t, d)
  BY <1>0 DEF DispatchOK, PublishedOK, ContractOK, Early
<1>2. t \in Tasks
  BY <1>0, <1>1 DEF PacketTypes, OptPackets, Tasks
<1>3. /\ UNCHANGED <<draft, entry, pre, placed, pinned, fields, told, sha, ap, role,
                     open, saw, readable, brief, blind>>
      /\ \E step \in {"dead", "done"} : Go(d, step)
      /\ \E st \in {"complete", "blocked", "review"} : reg' = [reg EXCEPT ![t].st = st]
      /\ \/ UNCHANGED <<inbox, archive>>
         \/ /\ archive' = [archive EXCEPT ![t] = inbox[t]]
            /\ inbox' = [inbox EXCEPT ![t] = NoPacket]
  BY <1>1 DEF Refuse, Settle, draftVars, buildVars, worldVars
<1> HIDE DEF t
<1>4. PICK st \in {"complete", "blocked", "review"} : reg' = [reg EXCEPT ![t].st = st]
  BY <1>3
<1>5. st \in RowStates /\ reg[t] # NoPacket /\ reg[t].att = d
  BY <1>1 DEF RowStates, Owner
<1>6. /\ reg' \in [Tasks -> Rows \cup {NoPacket}]
      /\ reg'[t] # NoPacket /\ reg'[t].st = st
      /\ reg'[t].att = reg[t].att /\ reg'[t].pin = reg[t].pin
      /\ reg'[t].scope = reg[t].scope /\ reg'[t].owed = reg[t].owed
      /\ \A u \in Tasks \ {t} : reg'[u] = reg[u]
  BY <1>0, <1>2, <1>4, <1>5, StatusStep
<1>7. \A u \in Tasks : RowStep(d, u)
  BY <1>5, <1>6 DEF RowStep
<1>8. pc'[d] \in {"dead", "done"} /\ pc' \in [Dispatchers -> DispatchSteps]
  BY <1>0, <1>3 DEF PacketTypes, Go, DispatchSteps
<1>9. PacketTypes'
  <2>1. inbox' \in [Tasks -> OptPackets] /\ archive' \in [Tasks -> OptPackets]
    BY <1>0, <1>2, <1>3 DEF PacketTypes, OptPackets
  <2> QED BY <1>0, <1>3, <1>6, <1>8, <2>1 DEF PacketTypes
<1>10. DispatchOK(d)'
  BY <1>0, <1>1, <1>3, <1>8 DEF DispatchOK, PublishedOK, AuthorityOK, ContractOK, Early, Authorised
<1>11. \A e \in Dispatchers \ {d} : Same(e)
  BY <1>0, <1>3 DEF Same, Go, PacketTypes
<1> QED
  BY <1>3, <1>7, <1>8, <1>9, <1>10, <1>11, OneDispatcher DEF Early

\* A canary's cleanup takes away its own row, and that one is settled.
LEMMA CleanupStep ==
  ASSUME AdmissionAssumption, AdmitInv, NEW d \in Dispatchers, CleanupCanary(d)
  PROVE  AdmitInv'
<1> DEFINE t == placed[d].id
<1>0. PacketTypes /\ DispatchOK(d) /\ pc[d] \in {"launched", "done"}
  BY DEF AdmitInv, CleanupCanary
<1>1. Owner(t, d) /\ reg[t].st = "complete"
  BY DEF CleanupCanary, Cleanable
<1>2. placed[d] # NoPacket /\ pc[d] = "done"
  BY <1>0, <1>1 DEF DispatchOK, PublishedOK, ContractOK, Early
<1>3. t \in Tasks
  BY <1>0, <1>2 DEF PacketTypes, OptPackets, Tasks
<1>4. /\ UNCHANGED <<pc, draft, entry, pre, placed, pinned, fields, told, sha, ap, role,
                     open, saw, readable, brief, blind>>
      /\ reg' = [reg EXCEPT ![t] = NoPacket]
      /\ inbox' = inbox \/ inbox' = [inbox EXCEPT ![t] = NoPacket]
      /\ archive' = archive \/ archive' = [archive EXCEPT ![t] = NoPacket]
  BY DEF CleanupCanary, draftVars, buildVars, worldVars
<1> HIDE DEF t
<1>5. PacketTypes'
  <2>1. inbox' \in [Tasks -> OptPackets] /\ archive' \in [Tasks -> OptPackets]
    BY <1>0, <1>3, <1>4 DEF PacketTypes, OptPackets
  <2>2. reg' \in [Tasks -> Rows \cup {NoPacket}]
    BY <1>0, <1>4 DEF PacketTypes
  <2> QED BY <1>0, <1>4, <2>1, <2>2 DEF PacketTypes
<1>6. \A u \in Tasks : RowStep(d, u)
  BY <1>0, <1>1, <1>3, <1>4 DEF RowStep, Owner, PacketTypes
<1>7. DispatchOK(d)'
  BY <1>0, <1>2, <1>4 DEF DispatchOK, PublishedOK, AuthorityOK, ContractOK, Early, Authorised
<1>8. \A e \in Dispatchers \ {d} : Same(e)
  BY <1>4 DEF Same
<1> QED
  BY <1>2, <1>4, <1>5, <1>6, <1>7, <1>8, OneDispatcher DEF Early

\* What others do to the inbox, the briefs, the dossiers and the registry file.
LEMMA WorldStep ==
  ASSUME AdmissionAssumption, AdmitInv,
         ChangeWorld \/ \E t \in Tasks : EditInbox(t)
  PROVE  AdmitInv'
<1>1. /\ UNCHANGED <<pc, draft, entry, pre, placed, archive, reg, pinned, fields, told, sha, ap,
                     role, open, saw>>
      /\ \/ inbox' = inbox
         \/ \E t \in Tasks, p \in Edits : inbox' = [inbox EXCEPT ![t] = p]
      /\ brief' = brief \/ brief' \in Briefs
      /\ blind' = blind \/ \E x \in Targets : blind' = blind \cup {x}
      /\ readable' \in {readable, ~readable}
  BY DEF ChangeWorld, EditInbox, draftVars, buildVars, worldVars
<1>2. PacketTypes'
  <2>1. PacketTypes /\ \A p \in Edits : p \in OptPackets
    <3>1. PacketTypes
      BY DEF AdmitInv
    <3>2. \A p \in Edits : p \in Packets
      BY DEF Packets
    <3> QED BY <3>1, <3>2 DEF OptPackets
  <2>2. inbox' \in [Tasks -> OptPackets]
    BY <1>1, <2>1 DEF PacketTypes
  <2>3. brief' \in Briefs /\ blind' \subseteq Targets /\ readable' \in BOOLEAN
    BY <1>1, <2>1 DEF PacketTypes
  <2> QED BY <1>1, <2>1, <2>2, <2>3 DEF PacketTypes
<1>3. ASSUME NEW d \in Dispatchers PROVE DispatchOK(d)'
  <2>1. DispatchOK(d)
    BY DEF AdmitInv
  <2> QED BY <1>1, <2>1 DEF DispatchOK, PublishedOK, AuthorityOK, ContractOK, Floored, Owner
<1>4. ASSUME NEW t \in Tasks PROVE RowOK(t)'
  BY <1>1 DEF AdmitInv, RowOK
<1> QED
  BY <1>2, <1>3, <1>4 DEF AdmitInv

\* Nothing is published, registered or built at first.
LEMMA AdmitStarts ==
  ASSUME AdmissionAssumption, AdmitInit
  PROVE  AdmitInv
<1>1. PacketTypes
  BY DEF AdmitInit, PacketTypes, OptPackets, DispatchSteps, Briefs
<1>2. ASSUME NEW d \in Dispatchers PROVE DispatchOK(d)
  BY DEF AdmitInit, DispatchOK, PublishedOK, AuthorityOK, ContractOK, Early, Authorised
<1>3. ASSUME NEW t \in Tasks PROVE RowOK(t)
  BY DEF AdmitInit, RowOK
<1> QED
  BY <1>1, <1>2, <1>3 DEF AdmitInv

\* Every step of every dispatcher, supervisor and bystander keeps it.
LEMMA AdmitInvariant ==
  ASSUME AdmissionAssumption
  PROVE  AdmitSpec => []AdmitInv
<1>1. AdmitInit => AdmitInv
  BY AdmitStarts
<1>2. AdmitInv /\ [AdmitNext]_admitVars => AdmitInv'
  <2> SUFFICES ASSUME AdmitInv, [AdmitNext]_admitVars PROVE AdmitInv'
    OBVIOUS
  <2>1. CASE UNCHANGED admitVars
    BY <2>1 DEF admitVars, draftVars, buildVars, worldVars, AdmitInv, PacketTypes, DispatchOK,
       PublishedOK, AuthorityOK, ContractOK, Floored, Owner, RowOK
  <2>2. ASSUME NEW d \in Dispatchers,
               CheckScope(d) \/ Preflight(d) \/ HostAdmit(d) \/ Crash(d) \/ EditDraft(d)
        PROVE  AdmitInv'
    BY <2>2, DraftStep
  <2>3. ASSUME NEW d \in Dispatchers, Publish(d) \/ Register(d)
        PROVE  AdmitInv'
    BY <2>3, PublishStep, RegisterStep
  <2>4. ASSUME NEW d \in Dispatchers,
               BuildRead(d) \/ BuildPin(d) \/ BuildPrompt(d) \/ BuildSeal(d)
        PROVE  AdmitInv'
    BY <2>4, BuildReadStep, BuildPinStep, BuildPromptStep, BuildSealStep
  <2>5. ASSUME NEW d \in Dispatchers,
               Start(d) \/ LaunchWorker(d) \/ Refuse(d) \/ Settle(d) \/ CleanupCanary(d)
        PROVE  AdmitInv'
    BY <2>5, StartStep, LaunchStep, EndStep, CleanupStep
  <2>6. CASE ChangeWorld \/ \E t \in Tasks : EditInbox(t)
    BY <2>6, WorldStep
  <2> QED
    BY <2>1, <2>2, <2>3, <2>4, <2>5, <2>6 DEF AdmitNext
<1> QED
  BY <1>1, <1>2, PTL DEF AdmitSpec

\* Packets, rows and authorities keep their types.
THEOREM AdmissionTypeCorrect ==
  ASSUME AdmissionAssumption
  PROVE  AdmitSpec => []AdmissionTypeOK
<1>1. AdmitInv => AdmissionTypeOK
  <2> SUFFICES ASSUME AdmitInv PROVE AdmissionTypeOK
    OBVIOUS
  <2>1. PacketTypes
    BY DEF AdmitInv
  <2>2. ASSUME NEW d \in Dispatchers
        PROVE  /\ draft[d] \in Drafts[d]
               /\ placed[d] # NoPacket => placed[d].id \in Tasks
               /\ pc[d] \in {"built", "started", "launched"} =>
                     fields[d] # NoPacket /\ told[d] # NoPacket /\ sha[d] # NoPacket
    <3>1. placed[d] # NoPacket => placed[d].id \in Tasks
      BY <2>1 DEF PacketTypes, OptPackets, Tasks
    <3>2. AuthorityOK(d)
      BY DEF AdmitInv, DispatchOK
    <3> QED BY <2>1, <3>1, <3>2 DEF PacketTypes, AuthorityOK, Authorised
  <2>3. ASSUME NEW t \in Tasks
        PROVE  /\ inbox[t] \in Packets \cup {NoPacket} /\ archive[t] \in Packets \cup {NoPacket}
               /\ reg[t] # NoPacket => reg[t].att \in Dispatchers
    BY <2>1 DEF PacketTypes, OptPackets, Rows
  <2> QED BY <2>1, <2>2, <2>3 DEF AdmissionTypeOK, PacketTypes
<1> QED
  BY <1>1, AdmitInvariant, PTL

\* What is published passed preflight, whatever the working copy becomes
\* (evaluate_packet, board_host_admit, admitted_packet_bytes).
THEOREM PublishedWasAllowedInvariant ==
  ASSUME AdmissionAssumption
  PROVE  AdmitSpec => []PublishedWasAllowed
<1>1. AdmitInv => PublishedWasAllowed
  BY DEF AdmitInv, DispatchOK, PublishedOK, PublishedWasAllowed
<1> QED
  BY <1>1, AdmitInvariant, PTL

\* The contract of a launched attempt is the registered one: the build compares it
\* with whosever row it finds, and only an attempt in its own row starts
\* (require_registry_contract_pin, board delivery start, the supervisor's hash).
THEOREM LaunchedContractInvariant ==
  ASSUME AdmissionAssumption
  PROVE  AdmitSpec => []LaunchedContractIsAdmitted
<1>1. AdmitInv => LaunchedContractIsAdmitted
  BY DEF AdmitInv, DispatchOK, AuthorityOK, ContractOK, LaunchedContractIsAdmitted, Launched,
     Authorised
<1> QED
  BY <1>1, AdmitInvariant, PTL

\* A review that the row owes is in the contract of the launched attempt, through
\* every redispatch of the task (_check_deliverable_review_agreement).
THEOREM ReviewOwedInvariant ==
  ASSUME AdmissionAssumption
  PROVE  AdmitSpec => []ReviewOwedIsTold
<1>1. AdmitInv => ReviewOwedIsTold
  <2> SUFFICES ASSUME AdmitInv, NEW d \in Dispatchers, Launched(d), d \notin open, pre[d] = entry[d],
                      reg[placed[d].id] # NoPacket, reg[placed[d].id].att = d,
                      reg[placed[d].id].owed
               PROVE  \/ fields[d].contract.required
                      \/ /\ fields[d].contract.kind = "review"
                         /\ reg[placed[d].id].scope = {}
    BY DEF ReviewOwedIsTold
  <2>1. placed[d] # NoPacket /\ placed[d] = pre[d] /\ PreflightAllows(placed[d])
    BY DEF AdmitInv, DispatchOK, PublishedOK, Launched, Early
  <2>2. placed[d].id \in Tasks
    BY <2>1 DEF AdmitInv, PacketTypes, OptPackets, Tasks
  <2>3. RowOK(placed[d].id)
    BY <2>2 DEF AdmitInv
  <2>4. fields[d].contract = pinned[d]
    BY DEF AdmitInv, DispatchOK, ContractOK, Owner, Launched, Authorised
  <2>5. fields[d].contract = entry[d].contract /\ entry[d].owed /\ reg[placed[d].id].scope = entry[d].scope
    BY <2>3, <2>4 DEF RowOK
  <2> QED
    BY <2>1, <2>5 DEF PreflightAllows, ContractValid, Agreement, Terminal
<1> QED
  BY <1>1, AdmitInvariant, PTL

\* No redispatch, cancellation or cleanup takes away the row of a started attempt
\* (register_task, cleanup_canary).
THEOREM UnsettledKeepsRowInvariant ==
  ASSUME AdmissionAssumption
  PROVE  AdmitSpec => []UnsettledKeepsRow
<1>1. AdmitInv => UnsettledKeepsRow
  BY DEF AdmitInv, DispatchOK, ContractOK, UnsettledKeepsRow
<1> QED
  BY <1>1, AdmitInvariant, PTL

\* A role that is blind when its worker starts does not read memory of a blind
\* dossier, and the floor never widens an aperture (enforce_blind_floor).
THEOREM LaunchesBlindAlways ==
  ASSUME AdmissionAssumption
  PROVE  AdmitSpec => [][LaunchesBlind]_admitVars
<1>1. AdmitInv /\ [AdmitNext]_admitVars => [LaunchesBlind]_admitVars
  <2> SUFFICES ASSUME AdmitInv, AdmitNext, NEW d \in Dispatchers,
                      pc[d] = "started", pc'[d] = "launched"
               PROVE  /\ /\ brief # "open" /\ role[d] = saw[d].brief
                         /\ fields[d].names \cap saw[d].blind # {}
                         => ap[d] \notin ReadPermitting
                      /\ fields[d].ap \notin ReadPermitting => ap[d] = fields[d].ap
    BY DEF LaunchesBlind
  <2>1. PacketTypes /\ Floored(d)
    BY DEF AdmitInv, DispatchOK, AuthorityOK, Authorised
  <2>2. LaunchWorker(d)
    <3>1. pc' # pc /\ \A e \in Dispatchers, step \in DispatchSteps :
             Go(e, step) => e = d /\ step = "launched"
      BY <2>1 DEF Go, PacketTypes
    <3>2. ASSUME NEW e \in Dispatchers,
                 CheckScope(e) \/ Preflight(e) \/ HostAdmit(e) \/ Publish(e) \/ Register(e) \/ Crash(e)
          PROVE  FALSE
      BY <3>1, <3>2 DEF CheckScope, Preflight, HostAdmit, Publish, Register, Crash, DispatchSteps
    <3>3. ASSUME NEW e \in Dispatchers,
                 BuildRead(e) \/ BuildPin(e) \/ BuildPrompt(e) \/ BuildSeal(e) \/ Start(e)
          PROVE  FALSE
      BY <3>1, <3>3 DEF BuildRead, BuildPin, BuildPrompt, BuildSeal, Start, GiveUp, DispatchSteps
    <3>4. ASSUME NEW e \in Dispatchers, Refuse(e) \/ Settle(e)
          PROVE  FALSE
      BY <3>1, <3>4 DEF Refuse, Settle, DispatchSteps
    <3>5. ASSUME NEW e \in Dispatchers, CleanupCanary(e) \/ EditDraft(e)
          PROVE  FALSE
      BY <3>1, <3>5 DEF CleanupCanary, EditDraft
    <3>6. ~ChangeWorld /\ \A t \in Tasks : ~EditInbox(t)
      BY <3>1 DEF ChangeWorld, EditInbox
    <3>7. ASSUME NEW e \in Dispatchers, LaunchWorker(e) PROVE e = d
      BY <3>1, <3>7 DEF LaunchWorker, DispatchSteps
    <3> QED BY <3>2, <3>3, <3>4, <3>5, <3>6, <3>7 DEF AdmitNext
  <2>3. brief = role[d]
    BY <2>2 DEF LaunchWorker, Launchable
  <2> QED BY <2>1, <2>3 DEF Floored, ReadPermitting
<1> QED
  BY <1>1, AdmitInvariant, PTL DEF AdmitSpec

-----------------------------------------------------------------------------
(* Output promotion.                                                       *)

TreeFiles == {b \in Bytes : b.kind \in {"absent", "bad", "raw"}}
StrayFiles == {b \in Bytes : b.kind \in {"absent", "raw"}}
MainFiles == {b \in Bytes : b.kind # "bad"}

OutputTypes ==
  /\ tree \in [Launches -> [Paths -> TreeFiles]]
  /\ stray \in [Launches -> [Paths -> StrayFiles]]
  /\ cand \in [Launches -> SUBSET Diags]
  /\ main \in [Paths -> MainFiles]
  /\ prep \in [Launches -> PreparedWorktreeOutputs \cup {NoOutput}]
  /\ outputPc \in [Launches -> PromotionSteps]
  /\ at \in [Launches -> Nat]
  /\ \A a \in Launches : at[a] \in 1..(Len(EvidenceOf[TaskOf[a]]) + 1)
  /\ why \in [Launches -> Reasons]
  /\ foreign \in Nat

Uncaptured == {"idle", "running", "exited"}

\* What a launch has captured: nothing before prepare_worktree_outputs, and then
\* files whose kinds no later reader has to look at again.
CaptureOK(a) ==
  /\ outputPc[a] \in Uncaptured => prep[a] = NoOutput /\ at[a] = 1 /\ why[a] = "none"
  /\ outputPc[a] \in Prepared => prep[a] # NoOutput
  /\ prep[a] # NoOutput =>
       /\ prep[a].result.kind = "raw" /\ prep[a].envelope.kind = "envelope"
       /\ DOMAIN prep[a].evidence = DOMAIN EvidenceOf[TaskOf[a]]
       /\ \A i \in DOMAIN EvidenceOf[TaskOf[a]] : prep[a].evidence[i].kind = "raw"

\* Of the attempts of a task at most one is under way.
AloneOK(a) ==
  outputPc[a] \notin {"idle", "ended"} =>
    \A b \in Launches \ {a} : TaskOf[b] = TaskOf[a] => outputPc[b] \in {"idle", "ended"}

\* A writer that is not of the task has been at work.
Raced(a) ==
  \/ foreign > 0
  \/ \E b \in Launches \ {a} : outputPc[b] # "idle" /\ TaskOf[b] # TaskOf[a]

\* What is still to be published finds its destination as prevalidation did, until
\* somebody else has written.
StillFree(a) ==
  LET t == TaskOf[a] IN
  /\ outputPc[a] \in {"prepared", "evidence"} =>
       \A i \in DOMAIN EvidenceOf[t] :
          i >= at[a] => FreeExact(EvidenceOf[t][i], prep[a].evidence[i])
  /\ outputPc[a] \in Prepared \ {"envelope", "published"} /\ ~Aliased(t) =>
       Free(ResultOf[t], prep[a].result, t, prep[a].result)
  /\ outputPc[a] \in Prepared \ {"published"} =>
       IF Aliased(t) THEN Free(OutboxOf[t], prep[a].envelope, t, prep[a].result)
       ELSE FreeExact(OutboxOf[t], prep[a].envelope)

RaceOK(a) ==
  \/ Raced(a)
  \/ /\ ~(why[a] = "destination" /\ prep[a] # NoOutput)
     /\ StillFree(a)

OutputInv ==
  /\ OutputTypes
  /\ \A a \in Launches : CaptureOK(a) /\ AloneOK(a) /\ RaceOK(a)

\* What has been published is still there.
LandedOK(a) ==
  LET t == TaskOf[a] IN
  /\ outputPc[a] \in Prepared =>
       \A i \in DOMAIN EvidenceOf[t] : i < at[a] => main[EvidenceOf[t][i]] = prep[a].evidence[i]
  /\ outputPc[a] \in {"verify", "report", "artifact", "envelope", "published"} =>
       at[a] \notin DOMAIN EvidenceOf[t]
  /\ outputPc[a] \in {"envelope", "published"} /\ ~Aliased(t) =>
       main[ResultOf[t]] = prep[a].result
  /\ outputPc[a] \in {"report", "artifact", "envelope", "published"} /\ Gated(a) =>
       main[Manifest].v \in GoodManifests

LandedInv == \A a \in Launches : LandedOK(a)

\* The declared paths of a launch.
LEMMA DeclaredPaths ==
  ASSUME PromotionAssumption, NEW a \in Launches
  PROVE  /\ TaskOf[a] \in OutputTasks
         /\ Declared(TaskOf[a]) \subseteq Paths
         /\ ResultOf[TaskOf[a]] \in Paths /\ OutboxOf[TaskOf[a]] \in Paths
         /\ DOMAIN EvidenceOf[TaskOf[a]] = 1..Len(EvidenceOf[TaskOf[a]])
         /\ Len(EvidenceOf[TaskOf[a]]) \in Nat
         /\ \A i \in DOMAIN EvidenceOf[TaskOf[a]] :
               /\ EvidenceOf[TaskOf[a]][i] \in Paths
               /\ EvidenceOf[TaskOf[a]][i] \in Evidence(TaskOf[a])
               /\ EvidenceOf[TaskOf[a]][i] # ResultOf[TaskOf[a]]
               /\ EvidenceOf[TaskOf[a]][i] # OutboxOf[TaskOf[a]]
               /\ \A j \in DOMAIN EvidenceOf[TaskOf[a]] :
                     EvidenceOf[TaskOf[a]][i] = EvidenceOf[TaskOf[a]][j] => i = j
<1>1. TaskOf[a] \in OutputTasks
  BY DEF OutputTasks
<1>2. Declared(TaskOf[a]) \subseteq Paths
  BY <1>1 DEF Paths
<1>3. ResultOf[TaskOf[a]] \in Paths /\ OutboxOf[TaskOf[a]] \in Paths
  BY <1>2 DEF Declared
<1>4. /\ EvidenceOf[TaskOf[a]] \in Seq(Paths)
      /\ \A i, j \in DOMAIN EvidenceOf[TaskOf[a]] :
            EvidenceOf[TaskOf[a]][i] = EvidenceOf[TaskOf[a]][j] => i = j
      /\ {ResultOf[TaskOf[a]], OutboxOf[TaskOf[a]]} \cap Evidence(TaskOf[a]) = {}
  BY <1>1 DEF PromotionAssumption
<1>5. \A i \in DOMAIN EvidenceOf[TaskOf[a]] :
         /\ EvidenceOf[TaskOf[a]][i] \in Evidence(TaskOf[a])
         /\ EvidenceOf[TaskOf[a]][i] \in Paths
  BY <1>2 DEF Evidence, Declared
<1>6. /\ DOMAIN EvidenceOf[TaskOf[a]] = 1..Len(EvidenceOf[TaskOf[a]])
      /\ Len(EvidenceOf[TaskOf[a]]) \in Nat
  BY <1>4
<1> QED
  BY <1>1, <1>2, <1>3, <1>4, <1>5, <1>6

\* The bytes of the model.
LEMMA ByteTypes ==
  ASSUME PromotionAssumption
  PROVE  /\ Absent \in TreeFiles /\ Absent \in StrayFiles /\ Absent \in MainFiles
         /\ Bad \in TreeFiles /\ Foreign \in MainFiles
         /\ \A t \in OutputTasks, r \in Reasons : Stub(t, r) \in MainFiles
         /\ \A a \in Launches, st \in Statuses, v \in Versions \cup {0} :
               Envelope(a, st, v) \in MainFiles /\ Envelope(a, st, v).kind = "envelope"
         /\ \A v \in Versions, st \in Claims \cup {"none"} :
               Raw(v, st) \in StrayFiles /\ Raw(v, st) \in TreeFiles /\ Raw(v, st) \in MainFiles
BY DEF PromotionAssumption, Absent, Bad, Foreign, Stub, Envelope, Raw, Bytes, TreeFiles,
   StrayFiles, MainFiles, Statuses

\* The kinds tell bytes apart.
LEMMA KindsApart ==
  /\ Absent.kind = "absent" /\ Foreign.kind = "foreign"
  /\ \A t, r : Stub(t, r).kind = "stub"
  /\ \A a, st, v : Envelope(a, st, v).kind = "envelope"
BY DEF Absent, Foreign, Stub, Envelope

\* What a worker leaves.
LEMMA LeftTypes ==
  ASSUME PromotionAssumption, NEW t, NEW p
  PROVE  Left(t, p) \subseteq TreeFiles /\ Written(t, p) \subseteq StrayFiles
BY ByteTypes DEF Left, Written

\* What prepare_worktree_outputs captures.
LEMMA CaptureTypes ==
  ASSUME PromotionAssumption, OutputTypes, NEW a \in Launches, NEW q \in BOOLEAN,
         NEW c \in BOOLEAN
  PROVE  LET p == PreparedOutputs(a, Reclaimed(a), q, Health(a, c)) IN
         /\ Reclaimed(a) \in [Paths -> TreeFiles]
         /\ p \in PreparedWorktreeOutputs /\ p # NoOutput
         /\ p.envelope.kind = "envelope"
         /\ DOMAIN p.evidence = DOMAIN EvidenceOf[TaskOf[a]]
         /\ Readable(TaskOf[a], Reclaimed(a)) =>
               /\ p.result.kind = "raw"
               /\ \A i \in DOMAIN EvidenceOf[TaskOf[a]] : p.evidence[i].kind = "raw"
<1> DEFINE t == TaskOf[a]
           files == Reclaimed(a)
           p == PreparedOutputs(a, files, q, Health(a, c))
           status == IF Synthesized(t, files) THEN "blocked" ELSE CoerceStatus(files[OutboxOf[t]].st)
<1>1. files \in [Paths -> TreeFiles]
  BY DEF Reclaimed, OutputTypes, TreeFiles, StrayFiles
<1>2. /\ files[ResultOf[t]] \in Bytes /\ files[OutboxOf[t]] \in Bytes
      /\ \A i \in DOMAIN EvidenceOf[t] : files[EvidenceOf[t][i]] \in Bytes
  BY <1>1, DeclaredPaths DEF TreeFiles
<1>3. status \in Statuses /\ files[OutboxOf[t]].v \in Versions \cup {0}
  BY <1>1, DeclaredPaths DEF CoerceStatus, Statuses, TreeFiles, Bytes
<1>4. Envelope(a, IF q THEN "needs_review" ELSE status, files[OutboxOf[t]].v) \in Bytes
  BY <1>2, <1>3, ByteTypes DEF MainFiles, Statuses, Bytes
<1>5. [i \in DOMAIN EvidenceOf[t] |-> files[EvidenceOf[t][i]]] \in Seq(Bytes)
  BY <1>2, DeclaredPaths
<1>6. Health(a, c) \in HealthVerdicts
  BY DEF Health, HealthVerdicts
<1>7. p = [result |-> files[ResultOf[t]],
           envelope |-> Envelope(a, IF q THEN "needs_review" ELSE status, files[OutboxOf[t]].v),
           status |-> status,
           recognized |-> ~Synthesized(t, files) /\ files[OutboxOf[t]].st # "odd",
           evidence |-> [i \in DOMAIN EvidenceOf[t] |-> files[EvidenceOf[t][i]]],
           health |-> Health(a, c)]
  BY DEF PreparedOutputs
<1> HIDE DEF p, files, status
<1>8. p \in PreparedWorktreeOutputs
  BY <1>2, <1>3, <1>4, <1>5, <1>6, <1>7 DEF PreparedWorktreeOutputs
<1>9. p # NoOutput
  BY <1>8 DEF PromotionAssumption
<1>10. p.envelope.kind = "envelope" /\ DOMAIN p.evidence = DOMAIN EvidenceOf[t]
  BY <1>7, KindsApart
<1>11. ASSUME Readable(t, files)
       PROVE  /\ p.result.kind = "raw"
              /\ \A i \in DOMAIN EvidenceOf[t] : p.evidence[i].kind = "raw"
  BY <1>7, <1>11, DeclaredPaths DEF Readable
<1> QED
  BY <1>1, <1>8, <1>9, <1>10, <1>11 DEF p, files

\* What a launch is about to publish.
LEMMA PreparedData ==
  ASSUME PromotionAssumption, OutputTypes, NEW a \in Launches, CaptureOK(a),
         outputPc[a] \in Prepared
  PROVE  /\ prep[a] \in PreparedWorktreeOutputs
         /\ prep[a].result \in MainFiles /\ prep[a].result.kind = "raw"
         /\ prep[a].envelope \in MainFiles /\ prep[a].envelope.kind = "envelope"
         /\ \A i \in DOMAIN EvidenceOf[TaskOf[a]] :
               prep[a].evidence[i] \in MainFiles /\ prep[a].evidence[i].kind = "raw"
<1>1. prep[a] \in PreparedWorktreeOutputs
  BY DEF OutputTypes, CaptureOK
<1>2. /\ prep[a].result \in Bytes /\ prep[a].envelope \in Bytes
      /\ prep[a].evidence \in Seq(Bytes)
  BY <1>1 DEF PreparedWorktreeOutputs
<1>3. \A i \in DOMAIN EvidenceOf[TaskOf[a]] : prep[a].evidence[i] \in Bytes
  BY <1>1, <1>2 DEF CaptureOK
<1> QED
  BY <1>1, <1>2, <1>3 DEF CaptureOK, MainFiles

\* Every step keeps the types of worktrees, captures and destinations.
LEMMA OutputTypesKept ==
  ASSUME PromotionAssumption, OutputInv, [OutputNext]_outputVars
  PROVE  OutputTypes'
<1> USE DEF OutputInv
<1>1. CASE UNCHANGED outputVars
  BY <1>1 DEF OutputTypes, outputVars
<1>2. ASSUME NEW a \in Launches, StartLaunch(a) PROVE OutputTypes'
  BY <1>2 DEF StartLaunch, Goes, OutputTypes, PromotionSteps
<1>3. ASSUME NEW a \in Launches, Work(a) PROVE OutputTypes'
  <2> DEFINE t == TaskOf[a]
  <2>1. PICK f \in [Declared(t) -> UNION {Left(t, p) : p \in Declared(t)}] :
           /\ \A p \in Declared(t) : f[p] \in Left(t, p)
           /\ tree' = [tree EXCEPT ![a] = [p \in Paths |-> IF p \in Declared(t) THEN f[p] ELSE @[p]]]
    BY <1>3 DEF Work
  <2>2. tree' \in [Launches -> [Paths -> TreeFiles]]
    <3>1. [p \in Paths |-> IF p \in Declared(t) THEN f[p] ELSE tree[a][p]] \in [Paths -> TreeFiles]
      BY <2>1, LeftTypes DEF OutputTypes
    <3> QED
      BY <2>1, <3>1 DEF OutputTypes
  <2>3. stray' \in [Launches -> [Paths -> StrayFiles]]
    <3>1. CASE UNCHANGED stray
      BY <3>1 DEF OutputTypes
    <3>2. CASE \E p \in Declared(t) : \E c \in Written(t, p) : stray' = [stray EXCEPT ![a][p] = c]
      BY <3>2, LeftTypes, DeclaredPaths DEF OutputTypes
    <3> QED
      BY <1>3, <3>1, <3>2 DEF Work
  <2>4. cand' \in [Launches -> SUBSET Diags]
    BY <1>3 DEF Work, OutputTypes
  <2>5. outputPc' \in [Launches -> PromotionSteps]
    BY <1>3 DEF Work, Goes, OutputTypes, PromotionSteps
  <2> QED
    BY <1>3, <2>2, <2>3, <2>4, <2>5 DEF Work, OutputTypes
<1>4. ASSUME NEW a \in Launches, EditLeftover(a) PROVE OutputTypes'
  <2>1. tree' \in [Launches -> [Paths -> TreeFiles]]
    BY <1>4, LeftTypes, DeclaredPaths DEF EditLeftover, OutputTypes
  <2> QED
    BY <1>4, <2>1 DEF EditLeftover, OutputTypes
<1>5. ASSUME NEW a \in Launches, Integrate(a) PROVE OutputTypes'
  BY <1>5 DEF Integrate, Block, OutputTypes, PromotionSteps, Reasons
<1>6. ASSUME NEW a \in Launches, PublishEvidence(a) PROVE OutputTypes'
  <2>1. /\ at[a] \in 1..Len(EvidenceOf[TaskOf[a]]) /\ at[a] \in DOMAIN EvidenceOf[TaskOf[a]]
        /\ outputPc[a] \in Prepared
        /\ at' = [at EXCEPT ![a] = at[a] + 1]
    BY <1>6, DeclaredPaths DEF PublishEvidence, Prepared
  <2>2. /\ EvidenceOf[TaskOf[a]][at[a]] \in Paths
        /\ prep[a].evidence[at[a]] \in MainFiles
    BY <2>1, PreparedData, DeclaredPaths
  <2>3. /\ at' \in [Launches -> Nat]
        /\ \A b \in Launches : at'[b] \in 1..(Len(EvidenceOf[TaskOf[b]]) + 1)
    BY <2>1, DeclaredPaths DEF OutputTypes
  <2> QED
    BY <1>6, <2>2, <2>3 DEF PublishEvidence, PublishFile, Block, OutputTypes, PromotionSteps, Reasons
<1>7. ASSUME NEW a \in Launches, EvidenceDone(a) PROVE OutputTypes'
  BY <1>7 DEF EvidenceDone, OutputTypes, PromotionSteps
<1>8. ASSUME NEW a \in Launches, Verify(a) PROVE OutputTypes'
  BY <1>8 DEF Verify, Block, OutputTypes, PromotionSteps, Reasons
<1>9. ASSUME NEW a \in Launches, ReadReport(a) PROVE OutputTypes'
  BY <1>9 DEF ReadReport, Block, OutputTypes, PromotionSteps, Reasons
<1>10. ASSUME NEW a \in Launches, PublishArtifact(a) PROVE OutputTypes'
  <2>1. outputPc[a] \in Prepared
    BY <1>10 DEF PublishArtifact, Prepared
  <2>2. CASE Aliased(TaskOf[a])
    BY <1>10, <2>2 DEF PublishArtifact, OutputTypes, PromotionSteps
  <2>3. CASE ~Aliased(TaskOf[a])
    <3>1. ResultOf[TaskOf[a]] \in Paths /\ prep[a].result \in MainFiles
      BY <2>1, PreparedData, DeclaredPaths
    <3> QED
      BY <1>10, <2>3, <3>1
         DEF PublishArtifact, PublishFile, Block, OutputTypes, PromotionSteps, Reasons
  <2> QED
    BY <2>2, <2>3
<1>11. ASSUME NEW a \in Launches, PublishEnvelope(a) PROVE OutputTypes'
  <2>1. outputPc[a] \in Prepared
    BY <1>11 DEF PublishEnvelope, Prepared
  <2>2. OutboxOf[TaskOf[a]] \in Paths /\ prep[a].envelope \in MainFiles
    BY <2>1, PreparedData, DeclaredPaths
  <2> QED
    BY <1>11, <2>2 DEF PublishEnvelope, PublishFile, Block, OutputTypes, PromotionSteps, Reasons
<1>12. ASSUME NEW a \in Launches, PublishBlockedStub(a) PROVE OutputTypes'
  <2>1. ResultOf[TaskOf[a]] \in Paths /\ Stub(TaskOf[a], why[a]) \in MainFiles
    BY ByteTypes, DeclaredPaths DEF OutputTypes
  <2>2. main' \in [Paths -> MainFiles]
    BY <1>12, <2>1 DEF PublishBlockedStub, OutputTypes
  <2>3. outputPc' \in [Launches -> PromotionSteps]
    BY <1>12 DEF PublishBlockedStub, OutputTypes, PromotionSteps
  <2>4. UNCHANGED <<tree, stray, cand, prep, at, report, why, leftovers, foreign>>
    BY <1>12 DEF PublishBlockedStub
  <2> QED
    BY <2>2, <2>3, <2>4 DEF OutputTypes
<1>13. ASSUME NEW a \in Launches, PublishBlockedEnvelope(a) PROVE OutputTypes'
  <2>1. Envelope(a, "blocked", 0) \in MainFiles
    BY ByteTypes DEF Statuses
  <2> QED
    BY <1>13, <2>1, DeclaredPaths DEF PublishBlockedEnvelope, Goes, OutputTypes, PromotionSteps
<1>14. ASSUME NEW a \in Launches, Die(a) PROVE OutputTypes'
  BY <1>14 DEF Die, Block, OutputTypes, PromotionSteps, Reasons
<1>15. ASSUME NEW a \in Launches, NEW q \in BOOLEAN, NEW c \in BOOLEAN, Prepare(a, q, c)
       PROVE  OutputTypes'
  <2> DEFINE p == PreparedOutputs(a, Reclaimed(a), q, Health(a, c))
  <2>1. Reclaimed(a) \in [Paths -> TreeFiles] /\ p \in PreparedWorktreeOutputs
    BY CaptureTypes
  <2>2. tree' = [tree EXCEPT ![a] = Reclaimed(a)]
    BY <1>15 DEF Prepare
  <2>3. \/ prep' = prep /\ \E r \in Reasons : Block(a, r)
        \/ /\ prep' = [prep EXCEPT ![a] = p] /\ why' = why
           /\ outputPc' = [outputPc EXCEPT ![a] = IF q THEN "evidence" ELSE "prepared"]
    BY <1>15 DEF Prepare, Reasons
  <2>4. UNCHANGED <<stray, cand, main, at, report, leftovers, foreign>>
    BY <1>15 DEF Prepare
  <2> HIDE DEF p
  <2>5. tree' \in [Launches -> [Paths -> TreeFiles]]
    BY <2>1, <2>2 DEF OutputTypes
  <2>6. prep' \in [Launches -> PreparedWorktreeOutputs \cup {NoOutput}]
    BY <2>1, <2>3 DEF OutputTypes
  <2>7. outputPc' \in [Launches -> PromotionSteps] /\ why' \in [Launches -> Reasons]
    BY <2>3 DEF Block, OutputTypes, PromotionSteps
  <2> QED
    BY <2>4, <2>5, <2>6, <2>7 DEF OutputTypes
<1>16. ASSUME NEW t \in OutputTasks, Archive(t) PROVE OutputTypes'
  BY <1>16, ByteTypes DEF Archive, OutputTypes
<1>17. ASSUME PutForeign PROVE OutputTypes'
  BY <1>17, ByteTypes DEF PutForeign, OutputTypes
<1> QED
  BY <1>1, <1>2, <1>3, <1>4, <1>5, <1>6, <1>7, <1>8, <1>9, <1>10, <1>11, <1>12, <1>13, <1>14,
     <1>15, <1>16, <1>17 DEF OutputNext

\* A launch goes on from where it was, with what it had captured.
Advances(a) ==
  /\ outputPc[a] \notin {"idle", "ended"} /\ prep' = prep
  /\ \E s \in PromotionSteps \ Uncaptured : /\ outputPc' = [outputPc EXCEPT ![a] = s]
                                            /\ s \in Prepared => outputPc[a] \in Prepared
  /\ \A b \in Launches \ {a} : at'[b] = at[b] /\ why'[b] = why[b]
  /\ foreign' = foreign

\* A launch that has exited its worker only ever advances.
LEMMA LaunchAdvances ==
  ASSUME OutputTypes, NEW a \in Launches,
         \/ Integrate(a) \/ PublishEvidence(a) \/ EvidenceDone(a)
         \/ Verify(a) \/ ReadReport(a) \/ PublishArtifact(a) \/ PublishEnvelope(a)
         \/ PublishBlockedStub(a) \/ PublishBlockedEnvelope(a) \/ Die(a)
  PROVE  Advances(a)
<1> USE DEF Advances, PromotionSteps, Uncaptured, Prepared, OutputTypes
<1>1. ASSUME Integrate(a) PROVE Advances(a)
  BY <1>1 DEF Integrate, Block
<1>2. ASSUME PublishEvidence(a) PROVE Advances(a)
  BY <1>2 DEF PublishEvidence, PublishFile, Block
<1>3. ASSUME EvidenceDone(a) PROVE Advances(a)
  BY <1>3 DEF EvidenceDone
<1>4. ASSUME Verify(a) PROVE Advances(a)
  BY <1>4 DEF Verify, Block
<1>5. ASSUME ReadReport(a) PROVE Advances(a)
  BY <1>5 DEF ReadReport, Block
<1>6. ASSUME PublishArtifact(a) PROVE Advances(a)
  BY <1>6 DEF PublishArtifact, PublishFile, Block
<1>7. ASSUME PublishEnvelope(a) PROVE Advances(a)
  BY <1>7 DEF PublishEnvelope, PublishFile, Block
<1>8. ASSUME PublishBlockedStub(a) PROVE Advances(a)
  BY <1>8 DEF PublishBlockedStub
<1>9. ASSUME PublishBlockedEnvelope(a) PROVE Advances(a)
  <2>1. /\ outputPc[a] = "blockenv" /\ outputPc' = [outputPc EXCEPT ![a] = "ended"]
        /\ UNCHANGED <<prep, at, why, foreign>>
    BY <1>9, Zenon DEF PublishBlockedEnvelope, Goes
  <2>2. "ended" \in PromotionSteps \ Uncaptured /\ "ended" \notin Prepared
    OBVIOUS
  <2>3. outputPc[a] \notin {"idle", "ended"}
    BY <2>1
  <2> HIDE DEF PromotionSteps, Uncaptured, Prepared, OutputTypes
  <2> QED
    BY <2>1, <2>2, <2>3
<1>10. ASSUME Die(a) PROVE Advances(a)
  BY <1>10 DEF Die, Block
<1> QED
  <2> HIDE DEF Advances, PromotionSteps, Uncaptured, Prepared, OutputTypes
  <2> QED
    BY <1>1, <1>2, <1>3, <1>4, <1>5, <1>6, <1>7, <1>8, <1>9, <1>10

\* A step starts a launch, ends its work, captures it, takes it further, or is
\* of somebody else.
LEMMA StepKinds ==
  ASSUME OutputTypes, OutputNext
  PROVE  \/ \E a \in Launches : \/ StartLaunch(a) \/ Work(a) \/ Advances(a)
                                \/ \E q, c \in BOOLEAN : Prepare(a, q, c)
         \/ UNCHANGED <<prep, outputPc, at, why>>
<1>1. ASSUME NEW a \in Launches, EditLeftover(a) PROVE UNCHANGED <<prep, outputPc, at, why>>
  BY <1>1 DEF EditLeftover
<1>2. ASSUME NEW t \in OutputTasks, Archive(t) PROVE UNCHANGED <<prep, outputPc, at, why>>
  BY <1>2 DEF Archive
<1>3. ASSUME PutForeign PROVE UNCHANGED <<prep, outputPc, at, why>>
  BY <1>3 DEF PutForeign
<1> QED
  BY <1>1, <1>2, <1>3, LaunchAdvances DEF OutputNext

\* What prepare_worktree_outputs leaves of a launch.
LEMMA PrepareEffect ==
  ASSUME PromotionAssumption, OutputTypes, NEW a \in Launches, NEW q \in BOOLEAN,
         NEW c \in BOOLEAN, Prepare(a, q, c)
  PROVE  LET p == PreparedOutputs(a, Reclaimed(a), q, Health(a, c)) IN
         /\ outputPc[a] = "exited" /\ UNCHANGED <<main, at, foreign>>
         /\ \/ /\ prep' = prep /\ outputPc' = [outputPc EXCEPT ![a] = "blocked"]
               /\ \E r \in Reasons : why' = [why EXCEPT ![a] = r]
            \/ /\ Readable(TaskOf[a], Reclaimed(a)) /\ DestinationsFree(TaskOf[a], p)
               /\ p.health # "refused"
               /\ prep' = [prep EXCEPT ![a] = p] /\ why' = why
               /\ outputPc' = [outputPc EXCEPT ![a] = IF q THEN "evidence" ELSE "prepared"]
BY DEF Prepare, Block, Reasons

\* Every step keeps what a launch has captured.
LEMMA CaptureKept ==
  ASSUME PromotionAssumption, OutputInv, [OutputNext]_outputVars, NEW b \in Launches
  PROVE  CaptureOK(b)'
<1> USE DEF CaptureOK, Uncaptured
<1>1. OutputTypes /\ CaptureOK(b)
  BY DEF OutputInv
<1>2. CASE UNCHANGED <<prep, outputPc, at, why>>
  BY <1>1, <1>2
<1>3. ASSUME NEW a \in Launches, StartLaunch(a) PROVE CaptureOK(b)'
  BY <1>1, <1>3 DEF StartLaunch, Goes, Prepared, OutputTypes
<1>4. ASSUME NEW a \in Launches, Work(a) PROVE CaptureOK(b)'
  BY <1>1, <1>4 DEF Work, Goes, Prepared, OutputTypes
<1>5. ASSUME NEW a \in Launches, Advances(a) PROVE CaptureOK(b)'
  BY <1>1, <1>5 DEF Advances, OutputTypes
<1>6. ASSUME NEW a \in Launches, NEW q \in BOOLEAN, NEW c \in BOOLEAN, Prepare(a, q, c)
      PROVE  CaptureOK(b)'
  <2> DEFINE p == PreparedOutputs(a, Reclaimed(a), q, Health(a, c))
  <2>1. /\ p # NoOutput /\ p.envelope.kind = "envelope"
        /\ DOMAIN p.evidence = DOMAIN EvidenceOf[TaskOf[a]]
        /\ Readable(TaskOf[a], Reclaimed(a)) =>
              /\ p.result.kind = "raw"
              /\ \A i \in DOMAIN EvidenceOf[TaskOf[a]] : p.evidence[i].kind = "raw"
    BY <1>1, CaptureTypes
  <2>2. /\ outputPc[a] = "exited" /\ UNCHANGED at
        /\ \/ /\ prep' = prep /\ outputPc' = [outputPc EXCEPT ![a] = "blocked"]
              /\ \E r \in Reasons : why' = [why EXCEPT ![a] = r]
           \/ /\ Readable(TaskOf[a], Reclaimed(a)) /\ why' = why
              /\ prep' = [prep EXCEPT ![a] = p]
              /\ outputPc' = [outputPc EXCEPT ![a] = IF q THEN "evidence" ELSE "prepared"]
    BY <1>1, <1>6, PrepareEffect
  <2> HIDE DEF p
  <2> QED
    BY <1>1, <2>1, <2>2 DEF Prepared, OutputTypes
<1> QED
  BY <1>1, <1>2, <1>3, <1>4, <1>5, <1>6, StepKinds DEF outputVars

\* Every step leaves the launches of a task one at a time.
LEMMA AloneKept ==
  ASSUME PromotionAssumption, OutputInv, [OutputNext]_outputVars
  PROVE  \A b \in Launches : AloneOK(b)'
<1>1. OutputTypes /\ \A b \in Launches : AloneOK(b)
  BY DEF OutputInv
<1>2. CASE UNCHANGED <<prep, outputPc, at, why>>
  BY <1>1, <1>2 DEF AloneOK
<1>3. ASSUME NEW a \in Launches, StartLaunch(a) PROVE \A b \in Launches : AloneOK(b)'
  BY <1>1, <1>3 DEF StartLaunch, Goes, AloneOK, OutputTypes
<1>4. ASSUME NEW a \in Launches, outputPc[a] \notin {"idle", "ended"}, NEW s,
             outputPc' = [outputPc EXCEPT ![a] = s]
      PROVE  \A b \in Launches : AloneOK(b)'
  BY <1>1, <1>4 DEF AloneOK, OutputTypes
<1>5. ASSUME NEW a \in Launches, Work(a) PROVE \A b \in Launches : AloneOK(b)'
  BY <1>4, <1>5 DEF Work, Goes
<1>6. ASSUME NEW a \in Launches, Advances(a) PROVE \A b \in Launches : AloneOK(b)'
  BY <1>4, <1>6 DEF Advances
<1>7. ASSUME NEW a \in Launches, NEW q \in BOOLEAN, NEW c \in BOOLEAN, Prepare(a, q, c)
      PROVE  \A b \in Launches : AloneOK(b)'
  <2>1. /\ outputPc[a] = "exited"
        /\ \E s : outputPc' = [outputPc EXCEPT ![a] = s]
    BY <1>1, <1>7, PrepareEffect
  <2> QED
    BY <1>4, <2>1
<1> QED
  BY <1>1, <1>2, <1>3, <1>5, <1>6, <1>7, StepKinds DEF outputVars

\* Whoever has written, has written.
LEMMA RacedStays ==
  ASSUME PromotionAssumption, OutputInv, [OutputNext]_outputVars, NEW b \in Launches, Raced(b)
  PROVE  Raced(b)'
<1>1. foreign' >= foreign /\ foreign \in Nat /\ foreign' \in Nat
  <2>1. foreign \in Nat
    BY DEF OutputInv, OutputTypes
  <2>2. foreign' = foreign \/ foreign' = foreign + 1
    BY DEF OutputNext, outputVars, StartLaunch, Work, EditLeftover, Integrate, PublishEvidence,
       EvidenceDone, Verify, ReadReport, PublishArtifact, PublishEnvelope, PublishBlockedStub,
       PublishBlockedEnvelope, Die, Prepare, Archive, PutForeign
  <2> QED
    BY <2>1, <2>2
<1>2. \A a \in Launches : outputPc[a] # "idle" => outputPc'[a] # "idle"
  <2>1. OutputTypes
    BY DEF OutputInv
  <2>2. CASE UNCHANGED <<prep, outputPc, at, why>>
    BY <2>2
  <2>3. ASSUME NEW a \in Launches, StartLaunch(a) \/ Work(a)
        PROVE  \A d \in Launches : outputPc[d] # "idle" => outputPc'[d] # "idle"
    BY <2>1, <2>3 DEF StartLaunch, Work, Goes, OutputTypes
  <2>4. ASSUME NEW a \in Launches, Advances(a)
        PROVE  \A d \in Launches : outputPc[d] # "idle" => outputPc'[d] # "idle"
    BY <2>1, <2>4 DEF Advances, Uncaptured, OutputTypes
  <2>5. ASSUME NEW a \in Launches, NEW q \in BOOLEAN, NEW c \in BOOLEAN, Prepare(a, q, c)
        PROVE  \A d \in Launches : outputPc[d] # "idle" => outputPc'[d] # "idle"
    <3>1. \/ outputPc' = [outputPc EXCEPT ![a] = "blocked"]
          \/ outputPc' = [outputPc EXCEPT ![a] = IF q THEN "evidence" ELSE "prepared"]
      BY <2>1, <2>5, PrepareEffect
    <3> QED
      BY <2>1, <3>1 DEF OutputTypes
  <2> QED
    BY <2>1, <2>2, <2>3, <2>4, <2>5, StepKinds DEF outputVars
<1> QED
  BY <1>1, <1>2 DEF Raced

\* What is still free stays so while the destinations only become absent.
LEMMA FreeStays ==
  ASSUME NEW b, StillFree(b), prep'[b] = prep[b], at'[b] = at[b], outputPc'[b] = outputPc[b],
         \A p : main'[p] \in {main[p], Absent}
  PROVE  StillFree(b)'
BY DEF StillFree, Free, FreeExact, Reclaimable

\* Prevalidation finds every destination free.
LEMMA PrepareRace ==
  ASSUME PromotionAssumption, OutputInv, NEW b \in Launches, ~Raced(b)', RaceOK(b),
         ~Raced(b), NEW q \in BOOLEAN, NEW c \in BOOLEAN, Prepare(b, q, c)
  PROVE  RaceOK(b)'
<1> DEFINE p == PreparedOutputs(b, Reclaimed(b), q, Health(b, c))
           t == TaskOf[b]
<1>1. OutputTypes /\ CaptureOK(b)
  BY DEF OutputInv
<1>2. /\ outputPc[b] = "exited" /\ UNCHANGED main
      /\ \/ prep' = prep /\ outputPc' = [outputPc EXCEPT ![b] = "blocked"]
         \/ /\ DestinationsFree(t, p) /\ prep' = [prep EXCEPT ![b] = p] /\ why' = why
            /\ outputPc' = [outputPc EXCEPT ![b] = IF q THEN "evidence" ELSE "prepared"]
  BY <1>1, PrepareEffect
<1>3. prep[b] = NoOutput
  BY <1>1, <1>2 DEF CaptureOK, Uncaptured
<1>4. CASE prep' = prep /\ outputPc' = [outputPc EXCEPT ![b] = "blocked"]
  BY <1>1, <1>3, <1>4 DEF RaceOK, StillFree, Prepared, OutputTypes
<1>5. CASE /\ DestinationsFree(t, p) /\ prep' = [prep EXCEPT ![b] = p] /\ why' = why
           /\ outputPc' = [outputPc EXCEPT ![b] = IF q THEN "evidence" ELSE "prepared"]
  <2>1. why[b] # "destination"
    BY <1>1, <1>2 DEF CaptureOK, Uncaptured
  <2>2. prep'[b] = p
    BY <1>1, <1>5 DEF OutputTypes
  <2> HIDE DEF p
  <2>3. StillFree(b)'
    BY <1>2, <1>5, <2>2 DEF StillFree, DestinationsFree, Free, FreeExact, Reclaimable
  <2> QED
    BY <1>5, <2>1, <2>3 DEF RaceOK
<1> QED
  BY <1>2, <1>4, <1>5

\* A launch that nobody raced is never refused a destination, and leaves those it
\* has still to write as they were.
LEMMA OwnRace ==
  ASSUME PromotionAssumption, OutputInv, NEW b \in Launches,
         ~(why[b] = "destination" /\ prep[b] # NoOutput), StillFree(b),
         \/ Integrate(b) \/ PublishEvidence(b) \/ EvidenceDone(b)
         \/ Verify(b) \/ ReadReport(b) \/ PublishArtifact(b) \/ PublishEnvelope(b)
         \/ PublishBlockedStub(b) \/ PublishBlockedEnvelope(b) \/ Die(b)
  PROVE  ~(why'[b] = "destination" /\ prep'[b] # NoOutput) /\ StillFree(b)'
<1> DEFINE t == TaskOf[b]
           Goal == ~(why'[b] = "destination" /\ prep'[b] # NoOutput) /\ StillFree(b)'
<1>1. OutputTypes /\ CaptureOK(b)
  BY DEF OutputInv
<1>2. ASSUME Integrate(b) PROVE Goal
  BY <1>1, <1>2 DEF Integrate, Block, StillFree, Free, FreeExact, Reclaimable, Prepared, OutputTypes
<1>3. ASSUME PublishEvidence(b) PROVE Goal
  <2> DEFINE i == at[b]
  <2>1. /\ outputPc[b] = "evidence" /\ i \in DOMAIN EvidenceOf[t] /\ i \in Nat
        /\ at' = [at EXCEPT ![b] = i + 1] /\ prep' = prep
    BY <1>1, <1>3 DEF PublishEvidence, OutputTypes
  <2>2. FreeExact(EvidenceOf[t][i], prep[b].evidence[i])
    BY <2>1 DEF StillFree
  <2>3. /\ main' = [main EXCEPT ![EvidenceOf[t][i]] = prep[b].evidence[i]]
        /\ outputPc' = [outputPc EXCEPT ![b] = "evidence"] /\ why' = why
    BY <1>3, <2>2 DEF PublishEvidence, PublishFile
  <2>4. \A p \in Paths : p # EvidenceOf[t][i] => main'[p] = main[p]
    BY <1>1, <2>3 DEF OutputTypes
  <2>5. \A j \in DOMAIN EvidenceOf[t] : j >= at'[b] =>
           /\ j >= at[b] /\ main'[EvidenceOf[t][j]] = main[EvidenceOf[t][j]]
    <3>1. at'[b] = i + 1
      BY <1>1, <2>1 DEF OutputTypes
    <3>2. SUFFICES ASSUME NEW j \in DOMAIN EvidenceOf[t], j >= i + 1
                   PROVE  j >= i /\ main'[EvidenceOf[t][j]] = main[EvidenceOf[t][j]]
      BY <3>1
    <3>3. j \in Nat
      BY DeclaredPaths
    <3>4. j >= i /\ j # i
      BY <2>1, <3>2, <3>3
    <3> QED
      BY <2>1, <2>4, <3>4, DeclaredPaths
  <2>6. main'[ResultOf[t]] = main[ResultOf[t]] /\ main'[OutboxOf[t]] = main[OutboxOf[t]]
    BY <2>1, <2>4, DeclaredPaths
  <2>7. outputPc'[b] = "evidence" /\ prep'[b] = prep[b]
    BY <1>1, <2>1, <2>3 DEF OutputTypes
  <2>8. StillFree(b)'
    BY <2>1, <2>5, <2>6, <2>7 DEF StillFree, Free, FreeExact, Reclaimable, Prepared
  <2> QED
    BY <2>3, <2>7, <2>8
<1>4. ASSUME EvidenceDone(b) PROVE Goal
  BY <1>1, <1>4 DEF EvidenceDone, StillFree, Free, FreeExact, Reclaimable, Prepared, OutputTypes
<1>5. ASSUME Verify(b) PROVE Goal
  BY <1>1, <1>5 DEF Verify, Block, StillFree, Free, FreeExact, Reclaimable, Prepared, OutputTypes
<1>6. ASSUME ReadReport(b) PROVE Goal
  BY <1>1, <1>6 DEF ReadReport, Block, StillFree, Free, FreeExact, Reclaimable, Prepared, OutputTypes
<1>7. ASSUME PublishArtifact(b) PROVE Goal
  <2>1. outputPc[b] = "artifact" /\ prep' = prep
    BY <1>7 DEF PublishArtifact
  <2>2. /\ outputPc' = [outputPc EXCEPT ![b] = "envelope"] /\ why' = why
        /\ main' = main \/ (~Aliased(t) /\ main' = [main EXCEPT ![ResultOf[t]] = prep[b].result])
    <3>1. CASE Aliased(t)
      BY <1>7, <3>1 DEF PublishArtifact
    <3>2. CASE ~Aliased(t)
      <4>1. Free(ResultOf[t], prep[b].result, t, prep[b].result)
        BY <2>1, <3>2 DEF StillFree, Prepared
      <4> QED
        BY <1>7, <3>2, <4>1 DEF PublishArtifact, PublishFile
    <3> QED
      BY <3>1, <3>2
  <2>3. main'[OutboxOf[t]] = main[OutboxOf[t]]
    BY <1>1, <2>2, DeclaredPaths DEF OutputTypes, Aliased
  <2>4. outputPc'[b] = "envelope" /\ prep'[b] = prep[b]
    BY <1>1, <2>1, <2>2 DEF OutputTypes
  <2>5. StillFree(b)'
    BY <2>1, <2>3, <2>4 DEF StillFree, Free, FreeExact, Reclaimable, Prepared
  <2> QED
    BY <2>2, <2>4, <2>5
<1>8. ASSUME PublishEnvelope(b) PROVE Goal
  <2>1. outputPc[b] = "envelope" /\ prep' = prep
    BY <1>8 DEF PublishEnvelope
  <2>2. IF Aliased(t) THEN Free(OutboxOf[t], prep[b].envelope, t, prep[b].result)
        ELSE FreeExact(OutboxOf[t], prep[b].envelope)
    BY <2>1 DEF StillFree, Prepared
  <2>3. outputPc' = [outputPc EXCEPT ![b] = "published"] /\ why' = why
    BY <1>8, <2>2 DEF PublishEnvelope, PublishFile
  <2> QED
    BY <1>1, <2>1, <2>3 DEF StillFree, Prepared, OutputTypes
<1>9. ASSUME PublishBlockedStub(b) PROVE Goal
  BY <1>1, <1>9 DEF PublishBlockedStub, StillFree, Prepared, OutputTypes
<1>10. ASSUME PublishBlockedEnvelope(b) PROVE Goal
  <2>1. /\ outputPc' = [outputPc EXCEPT ![b] = "ended"] /\ UNCHANGED <<prep, why>>
    BY <1>10, Zenon DEF PublishBlockedEnvelope, Goes
  <2> QED
    BY <1>1, <2>1 DEF StillFree, Prepared, OutputTypes
<1>11. ASSUME Die(b) PROVE Goal
  BY <1>1, <1>11 DEF Die, Block, StillFree, Prepared, OutputTypes
<1> QED
  BY <1>2, <1>3, <1>4, <1>5, <1>6, <1>7, <1>8, <1>9, <1>10, <1>11

\* Every step keeps what an unraced launch relies on.
LEMMA RaceKept ==
  ASSUME PromotionAssumption, OutputInv, [OutputNext]_outputVars, NEW b \in Launches
  PROVE  RaceOK(b)'
<1>1. OutputTypes /\ CaptureOK(b) /\ RaceOK(b) /\ \A a \in Launches : AloneOK(a)
  BY DEF OutputInv
<1>2. CASE Raced(b)'
  BY <1>2 DEF RaceOK
<1>3. SUFFICES ASSUME ~Raced(b)' PROVE RaceOK(b)'
  BY <1>2
<1>4. /\ ~Raced(b) /\ StillFree(b) /\ ~(why[b] = "destination" /\ prep[b] # NoOutput)
      /\ ~(foreign' > 0)
  <2>1. ~Raced(b)
    BY <1>3, RacedStays
  <2>2. ~(foreign' > 0)
    BY <1>3 DEF Raced
  <2> QED
    BY <1>1, <2>1, <2>2 DEF RaceOK
<1>5. SUFFICES ~(why'[b] = "destination" /\ prep'[b] # NoOutput) /\ StillFree(b)'
  BY DEF RaceOK
<1> DEFINE Goal == ~(why'[b] = "destination" /\ prep'[b] # NoOutput) /\ StillFree(b)'
\* Only an attempt of the same task can have acted.
<1>6. ASSUME NEW a \in Launches, outputPc'[a] # "idle" PROVE TaskOf[a] = TaskOf[b]
  BY <1>3, <1>6 DEF Raced
\* While another attempt of the task acts, this one has not begun or has ended.
<1>7. ASSUME NEW a \in Launches, a # b, outputPc[b] \in {"idle", "ended"},
             outputPc'[b] = outputPc[b], prep'[b] = prep[b], why'[b] = why[b]
      PROVE  Goal
  BY <1>4, <1>7 DEF StillFree, Prepared
<1>8. CASE UNCHANGED outputVars
  BY <1>4, <1>8, FreeStays DEF outputVars
<1>9. ASSUME NEW a \in Launches, StartLaunch(a) PROVE Goal
  <2>1. /\ outputPc' = [outputPc EXCEPT ![a] = "running"] /\ UNCHANGED <<prep, why>>
        /\ \A d \in Launches \ {a} : TaskOf[d] = TaskOf[a] => outputPc[d] \in {"idle", "ended"}
    BY <1>9 DEF StartLaunch, Goes
  <2>2. TaskOf[a] = TaskOf[b]
    BY <1>1, <1>6, <2>1 DEF OutputTypes
  <2>3. CASE a = b
    BY <1>1, <1>4, <2>1, <2>3 DEF StillFree, Prepared, OutputTypes
  <2>4. CASE a # b
    BY <1>1, <1>7, <2>1, <2>2, <2>4 DEF OutputTypes
  <2> QED
    BY <2>3, <2>4
<1>10. ASSUME NEW a \in Launches, a # b, outputPc[a] \notin {"idle", "ended"},
              outputPc'[a] # "idle",
              outputPc'[b] = outputPc[b], prep'[b] = prep[b], why'[b] = why[b]
       PROVE  Goal
  <2>1. TaskOf[a] = TaskOf[b]
    BY <1>6, <1>10
  <2>2. outputPc[b] \in {"idle", "ended"}
    BY <1>1, <1>10, <2>1 DEF AloneOK
  <2> QED
    BY <1>7, <1>10, <2>2
<1>11. ASSUME NEW a \in Launches, Work(a) PROVE Goal
  <2>1. /\ outputPc[a] = "running" /\ outputPc' = [outputPc EXCEPT ![a] = "exited"]
        /\ UNCHANGED <<prep, why>>
    BY <1>11 DEF Work, Goes
  <2>2. CASE a = b
    BY <1>1, <1>4, <2>1, <2>2 DEF StillFree, Prepared, OutputTypes
  <2>3. CASE a # b
    BY <1>1, <1>10, <2>1, <2>3 DEF OutputTypes
  <2> QED
    BY <2>2, <2>3
<1>12. ASSUME NEW a \in Launches, EditLeftover(a) PROVE Goal
  BY <1>4, <1>12, FreeStays DEF EditLeftover
<1>13. ASSUME NEW a \in Launches, NEW q \in BOOLEAN, NEW c \in BOOLEAN, Prepare(a, q, c)
       PROVE  Goal
  <2>1. CASE a = b
    BY <1>1, <1>3, <1>4, <1>13, <2>1, PrepareRace DEF RaceOK
  <2>2. CASE a # b
    <3>1. /\ outputPc[a] = "exited"
          /\ outputPc'[b] = outputPc[b] /\ prep'[b] = prep[b] /\ why'[b] = why[b]
          /\ outputPc'[a] # "idle"
      <4>1. /\ outputPc[a] = "exited"
            /\ prep' = prep \/ \E p : prep' = [prep EXCEPT ![a] = p]
            /\ why' = why \/ \E r : why' = [why EXCEPT ![a] = r]
            /\ \E s \in {"blocked", "evidence", "prepared"} : outputPc' = [outputPc EXCEPT ![a] = s]
        BY <1>1, <1>13, PrepareEffect
      <4> QED
        BY <1>1, <2>2, <4>1 DEF OutputTypes
    <3> QED
      BY <1>10, <2>2, <3>1
  <2> QED
    BY <2>1, <2>2
<1>14. ASSUME NEW a \in Launches,
              \/ Integrate(a) \/ PublishEvidence(a) \/ EvidenceDone(a)
              \/ Verify(a) \/ ReadReport(a) \/ PublishArtifact(a) \/ PublishEnvelope(a)
              \/ PublishBlockedStub(a) \/ PublishBlockedEnvelope(a) \/ Die(a)
       PROVE  Goal
  <2>1. CASE a = b
    BY <1>1, <1>4, <1>14, <2>1, OwnRace
  <2>2. CASE a # b
    <3>1. Advances(a)
      BY <1>1, <1>14, LaunchAdvances
    <3>2. /\ outputPc'[b] = outputPc[b] /\ prep'[b] = prep[b] /\ why'[b] = why[b]
          /\ outputPc[a] \notin {"idle", "ended"} /\ outputPc'[a] # "idle"
      BY <1>1, <2>2, <3>1 DEF Advances, OutputTypes, Uncaptured
    <3> QED
      BY <1>10, <2>2, <3>2
  <2> QED
    BY <2>1, <2>2
<1>15. ASSUME NEW u \in OutputTasks, Archive(u) PROVE Goal
  <2>1. UNCHANGED <<prep, at, why, outputPc>> /\ main' = [main EXCEPT ![OutboxOf[u]] = Absent]
    BY <1>15 DEF Archive
  <2>2. StillFree(b)'
    BY <1>1, <1>4, <2>1, DeclaredPaths DEF StillFree, Free, FreeExact, Reclaimable, OutputTypes
  <2> QED
    BY <1>4, <2>1, <2>2
<1>16. ASSUME PutForeign PROVE Goal
  <2>1. foreign' = foreign + 1 /\ foreign \in Nat
    BY <1>1, <1>16 DEF PutForeign, OutputTypes
  <2> QED
    BY <1>4, <2>1
<1> QED
  BY <1>8, <1>9, <1>11, <1>12, <1>13, <1>14, <1>15, <1>16 DEF OutputNext

\* Bytes of a worker that are in the repository stay there, where they are not the
\* raw form of a response (_atomic_publish).
LEMMA RawStays ==
  ASSUME PromotionAssumption, OutputInv, [OutputNext]_outputVars, NEW p \in Paths,
         main[p].kind = "raw", \A u \in OutputTasks : Aliased(u) => p # OutboxOf[u]
  PROVE  main'[p] = main[p]
<1>1. OutputTypes /\ \A a \in Launches : CaptureOK(a)
  BY DEF OutputInv
<1>2. main[p] # Absent /\ main[p].kind # "stub" /\ \A a, st, v : main[p] # Envelope(a, st, v)
  BY KindsApart
<1>3. ASSUME NEW a \in Launches, PublishEvidence(a) PROVE main'[p] = main[p]
  BY <1>1, <1>2, <1>3 DEF PublishEvidence, PublishFile, FreeExact, OutputTypes
<1>4. ASSUME NEW a \in Launches, PublishArtifact(a) PROVE main'[p] = main[p]
  BY <1>1, <1>2, <1>4 DEF PublishArtifact, PublishFile, Free, Reclaimable, OutputTypes
<1>5. ASSUME NEW a \in Launches, PublishEnvelope(a) PROVE main'[p] = main[p]
  <2>1. prep[a].envelope.kind = "envelope"
    BY <1>1, <1>5 DEF PublishEnvelope, CaptureOK, Prepared
  <2>2. CASE Aliased(TaskOf[a])
    <3>1. p # OutboxOf[TaskOf[a]]
      BY <2>2, DeclaredPaths
    <3> QED
      BY <1>1, <1>5, <3>1 DEF PublishEnvelope, PublishFile, OutputTypes
  <2>3. CASE ~Aliased(TaskOf[a])
    BY <1>1, <1>2, <1>5, <2>1, <2>3 DEF PublishEnvelope, PublishFile, FreeExact, OutputTypes
  <2> QED
    BY <2>2, <2>3
<1>6. ASSUME NEW a \in Launches, PublishBlockedStub(a) PROVE main'[p] = main[p]
  BY <1>1, <1>2, <1>6 DEF PublishBlockedStub, FreeExact, OutputTypes
<1>7. ASSUME NEW a \in Launches, PublishBlockedEnvelope(a) PROVE main'[p] = main[p]
  BY <1>1, <1>2, <1>7 DEF PublishBlockedEnvelope, FreeExact, OutputTypes
<1>8. ASSUME NEW u \in OutputTasks, Archive(u) PROVE main'[p] = main[p]
  BY <1>1, <1>8 DEF Archive, OutputTypes
<1>9. ASSUME PutForeign PROVE main'[p] = main[p]
  BY <1>1, <1>2, <1>9 DEF PutForeign, OutputTypes
<1>10. CASE UNCHANGED main
  BY <1>10
<1> QED
  BY <1>3, <1>4, <1>5, <1>6, <1>7, <1>8, <1>9, <1>10
     DEF OutputNext, outputVars, StartLaunch, Work, EditLeftover, Integrate, EvidenceDone, Verify,
         ReadReport, Die, Prepare

\* Evidence and a separate artifact stay as they were published.
LEMMA LandedStays ==
  ASSUME PromotionAssumption, OutboxIsOwn, OutputInv, LandedInv, [OutputNext]_outputVars,
         NEW b \in Launches, outputPc[b] \in Prepared
  PROVE  /\ \A i \in DOMAIN EvidenceOf[TaskOf[b]] :
               i < at[b] => main'[EvidenceOf[TaskOf[b]][i]] = prep[b].evidence[i]
         /\ outputPc[b] \in {"envelope", "published"} /\ ~Aliased(TaskOf[b]) =>
               main'[ResultOf[TaskOf[b]]] = prep[b].result
         /\ outputPc[b] \in {"verify", "report", "artifact", "envelope", "published"} /\ Gated(b) =>
               main'[Manifest] = main[Manifest]
<1> DEFINE t == TaskOf[b]
<1>1. OutputTypes /\ CaptureOK(b) /\ LandedOK(b) /\ prep[b] # NoOutput
  BY DEF OutputInv, LandedInv, CaptureOK
<1>2. ASSUME NEW p \in Paths, main[p].kind = "raw",
             p \in Evidence(t) \/ (p = ResultOf[t] /\ ~Aliased(t))
      PROVE  main'[p] = main[p]
  <2>1. ASSUME NEW u \in OutputTasks, Aliased(u) PROVE p # OutboxOf[u]
    <3>1. CASE u = t
      BY <1>2, <2>1, <3>1 DEF PromotionAssumption
    <3>2. CASE u # t
      BY <1>2, <2>1, <3>2, DeclaredPaths DEF OutboxIsOwn, Declared
    <3> QED
      BY <3>1, <3>2
  <2> QED
    BY <1>2, <2>1, RawStays
<1>3. ASSUME NEW i \in DOMAIN EvidenceOf[t], i < at[b]
      PROVE  /\ main[EvidenceOf[t][i]] = prep[b].evidence[i]
             /\ main'[EvidenceOf[t][i]] = prep[b].evidence[i]
  <2>1. main[EvidenceOf[t][i]] = prep[b].evidence[i] /\ prep[b].evidence[i].kind = "raw"
    BY <1>1, <1>3 DEF LandedOK, CaptureOK
  <2>2. EvidenceOf[t][i] \in Paths /\ EvidenceOf[t][i] \in Evidence(t)
    BY DeclaredPaths
  <2> QED
    BY <1>2, <2>1, <2>2
<1>4. ASSUME outputPc[b] \in {"envelope", "published"}, ~Aliased(t)
      PROVE  main'[ResultOf[t]] = prep[b].result
  <2>1. main[ResultOf[t]] = prep[b].result /\ prep[b].result.kind = "raw"
    BY <1>1, <1>4 DEF LandedOK, CaptureOK
  <2> QED
    BY <1>2, <1>4, <2>1, DeclaredPaths
<1>5. ASSUME outputPc[b] \in {"verify", "report", "artifact", "envelope", "published"}, Gated(b)
      PROVE  main'[Manifest] = main[Manifest]
  <2>1. PICK i \in DOMAIN EvidenceOf[t] : EvidenceOf[t][i] = Manifest
    BY <1>5 DEF Gated, PromotionAssumption
  <2>2. at[b] \notin DOMAIN EvidenceOf[t] /\ at[b] \in 1..(Len(EvidenceOf[t]) + 1)
    BY <1>1, <1>5 DEF LandedOK, OutputTypes
  <2>3. i < at[b]
    BY <2>2, DeclaredPaths
  <2> QED
    BY <1>3, <2>1, <2>3
<1> QED
  BY <1>3, <1>4, <1>5

\* Every step keeps what has been published.
LEMMA LandedKept ==
  ASSUME PromotionAssumption, OutboxIsOwn, OutputInv, LandedInv, [OutputNext]_outputVars,
         NEW b \in Launches
  PROVE  LandedOK(b)'
<1> DEFINE t == TaskOf[b]
<1>1. OutputTypes /\ CaptureOK(b) /\ LandedOK(b)
  BY DEF OutputInv, LandedInv
\* Where the launch itself has not moved on.
<1>2. ASSUME outputPc'[b] = outputPc[b], prep'[b] = prep[b], at'[b] = at[b]
      PROVE  LandedOK(b)'
  <2>1. CASE outputPc[b] \notin Prepared
    BY <1>2, <2>1 DEF LandedOK, Prepared
  <2>2. CASE outputPc[b] \in Prepared
    BY <1>1, <1>2, <2>2, LandedStays DEF LandedOK, Gated
  <2> QED
    BY <2>1, <2>2
\* Where it has left for good, or not begun.
<1>3. ASSUME outputPc'[b] \notin Prepared PROVE LandedOK(b)'
  BY <1>3 DEF LandedOK, Prepared
<1>4. CASE UNCHANGED <<prep, outputPc, at, why>>
  BY <1>2, <1>4
<1>5. ASSUME NEW a \in Launches, StartLaunch(a) \/ Work(a) PROVE LandedOK(b)'
  <2>1. /\ outputPc' = [outputPc EXCEPT ![a] = "running"] \/ outputPc' = [outputPc EXCEPT ![a] = "exited"]
        /\ UNCHANGED <<prep, at>>
    BY <1>5 DEF StartLaunch, Work, Goes
  <2> QED
    BY <1>1, <1>2, <1>3, <2>1 DEF Prepared, OutputTypes
<1>6. ASSUME NEW a \in Launches, NEW q \in BOOLEAN, NEW c \in BOOLEAN, Prepare(a, q, c)
      PROVE  LandedOK(b)'
  <2>1. /\ outputPc[a] = "exited" /\ at' = at
        /\ prep' = prep \/ \E p : prep' = [prep EXCEPT ![a] = p]
        /\ \E s \in {"blocked", "evidence", "prepared"} : outputPc' = [outputPc EXCEPT ![a] = s]
    BY <1>1, <1>6, PrepareEffect
  <2>2. CASE a # b
    BY <1>1, <1>2, <2>1, <2>2 DEF OutputTypes
  <2>3. CASE a = b
    <3>1. at'[b] = 1 /\ outputPc'[b] \in {"blocked", "evidence", "prepared"}
      BY <1>1, <2>1, <2>3 DEF CaptureOK, Uncaptured, OutputTypes
    <3>2. \A i \in DOMAIN EvidenceOf[t] : ~(i < 1)
      BY DeclaredPaths
    <3> QED
      BY <3>1, <3>2 DEF LandedOK
  <2> QED
    BY <2>2, <2>3
<1>7. ASSUME NEW a \in Launches, a # b, Advances(a) PROVE LandedOK(b)'
  BY <1>1, <1>2, <1>7 DEF Advances, OutputTypes
<1>8. ASSUME prep' = prep, at' = at, outputPc[b] = "prepared", outputPc'[b] = "evidence"
      PROVE  LandedOK(b)'
  BY <1>1, <1>8, LandedStays DEF LandedOK, Prepared
<1>9. ASSUME Integrate(b) PROVE LandedOK(b)'
  <2>1. /\ prep' = prep /\ at' = at /\ outputPc[b] = "prepared"
        /\ outputPc'[b] = "evidence" \/ outputPc'[b] = "blocked"
    BY <1>1, <1>9 DEF Integrate, Block, OutputTypes
  <2> QED
    BY <1>3, <1>8, <2>1 DEF Prepared
<1>10. ASSUME PublishEvidence(b) PROVE LandedOK(b)'
  <2> DEFINE i == at[b]
  <2>1. /\ outputPc[b] = "evidence" /\ i \in DOMAIN EvidenceOf[t] /\ i \in Nat
        /\ at'[b] = i + 1 /\ prep' = prep
        /\ \/ /\ outputPc'[b] = "evidence"
              /\ main' = [main EXCEPT ![EvidenceOf[t][i]] = prep[b].evidence[i]]
           \/ outputPc'[b] = "blocked"
    BY <1>1, <1>10 DEF PublishEvidence, PublishFile, Block, OutputTypes
  <2>2. CASE outputPc'[b] = "blocked"
    BY <1>3, <2>2 DEF Prepared
  <2>3. CASE /\ outputPc'[b] = "evidence"
             /\ main' = [main EXCEPT ![EvidenceOf[t][i]] = prep[b].evidence[i]]
    <3>1. main'[EvidenceOf[t][i]] = prep[b].evidence[i]
      BY <1>1, <2>1, <2>3, DeclaredPaths DEF OutputTypes
    <3>2. \A j \in DOMAIN EvidenceOf[t] : j < i => main'[EvidenceOf[t][j]] = prep[b].evidence[j]
      BY <2>1, LandedStays DEF Prepared
    <3>3. \A j \in DOMAIN EvidenceOf[t] : j < i + 1 => j < i \/ j = i
      BY <2>1, DeclaredPaths
    <3> QED
      BY <2>1, <2>3, <3>1, <3>2, <3>3 DEF LandedOK
  <2> QED
    BY <2>1, <2>2, <2>3
<1>11. ASSUME EvidenceDone(b) PROVE LandedOK(b)'
  <2>1. /\ outputPc[b] = "evidence" /\ at[b] \notin DOMAIN EvidenceOf[t]
        /\ outputPc'[b] = IF Gated(b) THEN "verify" ELSE "artifact"
        /\ prep' = prep /\ at' = at
    BY <1>1, <1>11 DEF EvidenceDone, OutputTypes
  <2> QED
    BY <2>1, LandedStays DEF LandedOK, Prepared, Gated
<1>12. ASSUME Verify(b) PROVE LandedOK(b)'
  <2>1. /\ outputPc[b] = "verify" /\ prep' = prep /\ at' = at /\ main' = main
        /\ \/ outputPc'[b] = "report" /\ main[Manifest].v \in GoodManifests
           \/ outputPc'[b] = "blocked"
    BY <1>1, <1>12 DEF Verify, Block, OutputTypes
  <2> QED
    BY <1>1, <1>3, <2>1 DEF LandedOK, Prepared, Gated
<1>13. ASSUME ReadReport(b) PROVE LandedOK(b)'
  <2>1. /\ outputPc[b] = "report" /\ prep' = prep /\ at' = at /\ main' = main
        /\ outputPc'[b] = "artifact" \/ outputPc'[b] = "blocked"
    BY <1>1, <1>13 DEF ReadReport, Block, OutputTypes
  <2> QED
    BY <1>1, <1>3, <2>1 DEF LandedOK, Prepared, Gated
<1>14. ASSUME PublishArtifact(b) PROVE LandedOK(b)'
  <2>1. /\ outputPc[b] = "artifact" /\ prep' = prep /\ at' = at
        /\ \/ /\ outputPc'[b] = "envelope"
              /\ ~Aliased(t) => main' = [main EXCEPT ![ResultOf[t]] = prep[b].result]
           \/ outputPc'[b] = "blocked"
    BY <1>1, <1>14 DEF PublishArtifact, PublishFile, Block, OutputTypes
  <2>2. ~Aliased(t) /\ outputPc'[b] = "envelope" => main'[ResultOf[t]] = prep[b].result
    BY <1>1, <2>1, DeclaredPaths DEF OutputTypes
  <2> QED
    BY <1>1, <1>3, <2>1, <2>2, LandedStays DEF LandedOK, Prepared, Gated
<1>15. ASSUME PublishEnvelope(b) PROVE LandedOK(b)'
  <2>1. /\ outputPc[b] = "envelope" /\ prep' = prep /\ at' = at
        /\ outputPc'[b] = "published" \/ outputPc'[b] = "blocked"
    BY <1>1, <1>15 DEF PublishEnvelope, PublishFile, Block, OutputTypes
  <2> QED
    BY <1>1, <1>3, <2>1, LandedStays DEF LandedOK, Prepared, Gated
<1>16. ASSUME PublishBlockedStub(b) \/ PublishBlockedEnvelope(b) \/ Die(b) PROVE LandedOK(b)'
  <2>1. outputPc'[b] \in {"blocked", "blockenv", "ended"}
    BY <1>1, <1>16 DEF PublishBlockedStub, PublishBlockedEnvelope, Goes, Die, Block, OutputTypes
  <2> QED
    BY <1>3, <2>1 DEF Prepared
<1>17. ASSUME \/ \E a \in Launches : EditLeftover(a)
              \/ \E u \in OutputTasks : Archive(u)
              \/ PutForeign
       PROVE  LandedOK(b)'
  BY <1>4, <1>17 DEF EditLeftover, Archive, PutForeign
<1> QED
  BY <1>1, <1>4, <1>5, <1>6, <1>7, <1>9, <1>10, <1>11, <1>12, <1>13, <1>14, <1>15, <1>16, <1>17,
     LaunchAdvances DEF OutputNext, outputVars

\* It holds at the start and every step keeps it.
LEMMA OutputInvariant ==
  ASSUME PromotionAssumption
  PROVE  OutputSpec => []OutputInv
<1>1. OutputInit => OutputInv
  <2> SUFFICES ASSUME OutputInit PROVE OutputInv
    OBVIOUS
  <2>1. OutputTypes
    BY ByteTypes, DeclaredPaths
       DEF OutputInit, OutputTypes, PromotionSteps, Reasons, PromotionAssumption
  <2>2. ASSUME NEW a \in Launches PROVE CaptureOK(a) /\ AloneOK(a) /\ RaceOK(a)
    BY DEF OutputInit, CaptureOK, AloneOK, RaceOK, StillFree, Prepared
  <2> QED
    BY <2>1, <2>2 DEF OutputInv
<1>2. OutputInv /\ [OutputNext]_outputVars => OutputInv'
  BY OutputTypesKept, CaptureKept, AloneKept, RaceKept DEF OutputInv
<1> QED
  BY <1>1, <1>2, PTL DEF OutputSpec

\* The same of what has been published.
LEMMA LandedInvariant ==
  ASSUME PromotionAssumption, OutboxIsOwn
  PROVE  OutputSpec => []LandedInv
<1>1. OutputInit => LandedInv
  BY DEF OutputInit, LandedInv, LandedOK, Prepared
<1>2. OutputInv /\ LandedInv /\ [OutputNext]_outputVars => LandedInv'
  BY LandedKept DEF LandedInv
<1> QED
  BY <1>1, <1>2, OutputInvariant, PTL DEF OutputSpec

\* Worktrees, captures and destinations keep their types, and a launch that
\* publishes has captured its outputs (PreparedWorktreeOutputs).
THEOREM PromotionTypeCorrect ==
  ASSUME PromotionAssumption
  PROVE  OutputSpec => []PromotionTypeOK
<1>1. OutputInv => PromotionTypeOK
  BY DEF OutputInv, OutputTypes, CaptureOK, PromotionTypeOK, TreeFiles, StrayFiles, MainFiles,
     Bytes
<1> QED
  BY <1>1, OutputInvariant, PTL

\* While an envelope lies in the outbox, the artifact and all declared evidence are
\* in the repository with the bytes that were validated, whichever attempts and
\* leftovers wrote in between (publish_prepared_worktree_outputs).
THEOREM EnvelopeCommitsAllInvariant ==
  ASSUME PromotionAssumption, OutboxIsOwn
  PROVE  OutputSpec => []EnvelopeCommitsAll
<1>1. OutputInv /\ LandedInv => EnvelopeCommitsAll
  <2> SUFFICES ASSUME OutputInv, LandedInv, NEW a \in Launches, outputPc[a] = "published"
               PROVE  /\ Aliased(TaskOf[a]) \/ main[ResultOf[TaskOf[a]]] = prep[a].result
                      /\ \A i \in DOMAIN EvidenceOf[TaskOf[a]] :
                            main[EvidenceOf[TaskOf[a]][i]] = prep[a].evidence[i]
    BY DEF EnvelopeCommitsAll
  <2>1. /\ at[a] \notin DOMAIN EvidenceOf[TaskOf[a]]
        /\ at[a] \in 1..(Len(EvidenceOf[TaskOf[a]]) + 1)
    BY DEF OutputInv, OutputTypes, LandedInv, LandedOK
  <2>2. \A i \in DOMAIN EvidenceOf[TaskOf[a]] : i < at[a]
    BY <2>1, DeclaredPaths
  <2> QED
    BY <2>2 DEF LandedInv, LandedOK, Prepared
<1> QED
  BY <1>1, OutputInvariant, LandedInvariant, PTL

\* No run is closed over a manifest that the verifier refuses, whoever published it
\* and whoever rewrote the shared record (_project_mode_exit_manifest).
THEOREM ClosedRunInvariant ==
  ASSUME PromotionAssumption, OutboxIsOwn
  PROVE  OutputSpec => []ClosedRunIsVerified
<1>1. LandedInv => ClosedRunIsVerified
  BY DEF LandedInv, LandedOK, ClosedRunIsVerified, Gated
<1> QED
  BY <1>1, LandedInvariant, PTL

\* A launch is refused a destination after prevalidation only when somebody else has
\* written since (_validate_destination, _atomic_publish).
THEOREM LateRefusalInvariant ==
  ASSUME PromotionAssumption
  PROVE  OutputSpec => []LateRefusalIsARace
<1>1. OutputInv => LateRefusalIsARace
  BY DEF OutputInv, RaceOK, Raced, LateRefusalIsARace
<1> QED
  BY <1>1, OutputInvariant, PTL

\* A promotion replaces nothing but the blocked stub of its own task, or the raw
\* copy of the completion it publishes (_is_reclaimable_destination).
THEOREM NoClobberAlways ==
  ASSUME PromotionAssumption
  PROVE  OutputSpec => [][NoClobber]_outputVars
<1>1. OutputInv /\ [OutputNext]_outputVars => [NoClobber]_outputVars
  <2> SUFFICES ASSUME OutputInv, OutputNext, NEW p \in Paths, main[p] # Absent, main'[p] # main[p]
               PROVE  \/ main'[p] = Absent /\ main[p].kind = "envelope"
                      \/ \E a \in Launches :
                            /\ outputPc[a] \in {"artifact", "envelope"} /\ outputPc'[a] # outputPc[a]
                            /\ \/ main[p].kind = "stub" /\ main[p].by = TaskOf[a]
                               \/ Aliased(TaskOf[a]) /\ main[p] = prep[a].result
    BY DEF NoClobber
  <2>1. OutputTypes
    BY DEF OutputInv
  <2> DEFINE Replaces(a) == /\ outputPc[a] \in {"artifact", "envelope"} /\ outputPc'[a] # outputPc[a]
                            /\ \/ main[p].kind = "stub" /\ main[p].by = TaskOf[a]
                               \/ Aliased(TaskOf[a]) /\ main[p] = prep[a].result
  <2>2. ASSUME NEW a \in Launches, PublishEvidence(a) PROVE FALSE
    BY <2>1, <2>2 DEF PublishEvidence, PublishFile, FreeExact, OutputTypes
  <2>3. ASSUME NEW a \in Launches, PublishArtifact(a) PROVE Replaces(a)
    BY <2>1, <2>3 DEF PublishArtifact, PublishFile, Free, Reclaimable, OutputTypes
  <2>4. ASSUME NEW a \in Launches, PublishEnvelope(a) PROVE Replaces(a)
    BY <2>1, <2>4 DEF PublishEnvelope, PublishFile, Free, FreeExact, Reclaimable, OutputTypes
  <2>5. ASSUME NEW a \in Launches, PublishBlockedStub(a) \/ PublishBlockedEnvelope(a) PROVE FALSE
    BY <2>1, <2>5 DEF PublishBlockedStub, PublishBlockedEnvelope, FreeExact, OutputTypes
  <2>6. ASSUME NEW u \in OutputTasks, Archive(u)
        PROVE  main'[p] = Absent /\ main[p].kind = "envelope"
    BY <2>1, <2>6 DEF Archive, OutputTypes
  <2>7. ASSUME PutForeign PROVE FALSE
    BY <2>1, <2>7 DEF PutForeign, OutputTypes
  <2>8. CASE UNCHANGED main
    BY <2>8
  <2> QED
    BY <2>2, <2>3, <2>4, <2>5, <2>6, <2>7, <2>8
       DEF OutputNext, StartLaunch, Work, EditLeftover, Integrate, EvidenceDone, Verify, ReadReport,
           Die, Prepare
<1> QED
  BY <1>1, OutputInvariant, PTL DEF OutputSpec

\* Only prepare_worktree_outputs captures, and only it refuses for health.
LEMMA OnlyPrepareCaptures ==
  ASSUME PromotionAssumption, OutputInv, OutputNext, NEW b \in Launches,
         prep'[b] # prep[b] \/ (why'[b] = "health" /\ why[b] # "health")
  PROVE  \E q, c \in BOOLEAN : Prepare(b, q, c)
<1>1. OutputTypes
  BY DEF OutputInv
<1>2. ASSUME NEW a \in Launches, NEW q \in BOOLEAN, NEW c \in BOOLEAN, Prepare(a, q, c)
      PROVE  a = b
  BY <1>1, <1>2, PrepareEffect DEF OutputTypes
<1>3. ASSUME NEW a \in Launches, ~\E q, c \in BOOLEAN : Prepare(a, q, c),
             \/ StartLaunch(a) \/ Work(a) \/ EditLeftover(a) \/ Integrate(a)
             \/ PublishEvidence(a) \/ EvidenceDone(a) \/ Verify(a) \/ ReadReport(a)
             \/ PublishArtifact(a) \/ PublishEnvelope(a)
             \/ PublishBlockedStub(a) \/ PublishBlockedEnvelope(a) \/ Die(a)
      PROVE  FALSE
  <2>1. prep' = prep /\ (why' = why \/ \E r \in Reasons \ {"health"} : why' = [why EXCEPT ![a] = r])
    BY <1>3 DEF StartLaunch, Work, EditLeftover, Integrate, PublishEvidence, EvidenceDone, Verify,
       ReadReport, PublishArtifact, PublishEnvelope, PublishBlockedStub, PublishBlockedEnvelope,
       Die, PublishFile, Block, Reasons
  <2> QED
    BY <1>1, <2>1 DEF OutputTypes
<1>4. ~PutForeign /\ \A u \in OutputTasks : ~Archive(u)
  BY DEF PutForeign, Archive
<1> QED
  BY <1>2, <1>3, <1>4 DEF OutputNext

\* A completion is claimed by the worker in a response the bridge read
\* (prepare_worktree_outputs, _coerce_status).
THEOREM CompletionIsClaimedAlways ==
  ASSUME PromotionAssumption
  PROVE  OutputSpec => [][CompletionIsClaimed]_outputVars
<1>1. OutputInv /\ [OutputNext]_outputVars => [CompletionIsClaimed]_outputVars
  <2> SUFFICES ASSUME OutputInv, OutputNext, NEW a \in Launches, prep'[a] # prep[a],
                      prep'[a].envelope.st = "complete"
               PROVE  \/ tree[a][OutboxOf[TaskOf[a]]].st = "complete"
                      \/ /\ tree[a][OutboxOf[TaskOf[a]]] = Absent
                         /\ stray[a][OutboxOf[TaskOf[a]]].st = "complete"
    BY DEF CompletionIsClaimed
  <2> DEFINE files == Reclaimed(a)
             outbox == OutboxOf[TaskOf[a]]
  <2>1. OutputTypes
    BY DEF OutputInv
  <2>2. PICK q \in BOOLEAN, c \in BOOLEAN : Prepare(a, q, c)
    BY OnlyPrepareCaptures
  <2>3. prep'[a] = PreparedOutputs(a, files, q, Health(a, c))
    BY <2>1, <2>2, PrepareEffect DEF OutputTypes
  <2>4. files[outbox].st = "complete"
    <3>1. prep'[a].envelope = Envelope(a, IF q THEN "needs_review"
                                          ELSE IF Synthesized(TaskOf[a], files) THEN "blocked"
                                               ELSE CoerceStatus(files[outbox].st), files[outbox].v)
      BY <2>3 DEF PreparedOutputs
    <3> QED
      BY <3>1 DEF Envelope, CoerceStatus
  <2>5. files[outbox] = tree[a][outbox] \/ (tree[a][outbox] = Absent /\ files[outbox] = stray[a][outbox])
    BY DeclaredPaths DEF Reclaimed
  <2> QED
    BY <2>4, <2>5
<1> QED
  BY <1>1, OutputInvariant, PTL DEF OutputSpec

\* The health gate judges the candidate against its merge base
\* (_verify_candidate_tree_health).
THEOREM HealthJudgesCandidateAlways ==
  ASSUME PromotionAssumption
  PROVE  OutputSpec => [][HealthJudgesCandidate]_outputVars
<1>1. OutputInv /\ [OutputNext]_outputVars => [HealthJudgesCandidate]_outputVars
  <2> SUFFICES ASSUME OutputInv, OutputNext, NEW a \in Launches
               PROVE  /\ (why'[a] = "health" /\ why[a] # "health") => ~(cand[a] \subseteq BaseDiag)
                      /\ (prep'[a] # prep[a] /\ prep'[a].health \in {"passed", "inherited_failure"})
                            => cand[a] \subseteq BaseDiag
    BY DEF HealthJudgesCandidate
  <2>1. OutputTypes
    BY DEF OutputInv
  <2>2. SUFFICES ASSUME NEW q \in BOOLEAN, NEW c \in BOOLEAN, Prepare(a, q, c)
                 PROVE  /\ (why'[a] = "health" /\ why[a] # "health") => ~(cand[a] \subseteq BaseDiag)
                        /\ (prep'[a] # prep[a] /\ prep'[a].health \in {"passed", "inherited_failure"})
                              => cand[a] \subseteq BaseDiag
    BY OnlyPrepareCaptures
  <2> DEFINE p == PreparedOutputs(a, Reclaimed(a), q, Health(a, c))
  <2>3. p.health = Health(a, c)
    BY DEF PreparedOutputs
  <2>4. ASSUME NEW root, NEW texts PROVE HealthFailureLines(Lines(root, texts)) = texts
    <3>1. \A x \in texts : [root |-> root, text |-> x].text = x
      OBVIOUS
    <3>2. \A x \in texts : x \in {l.text : l \in {[root |-> root, text |-> y] : y \in texts}}
      BY <3>1
    <3>3. \A x \in {l.text : l \in {[root |-> root, text |-> y] : y \in texts}} : x \in texts
      BY <3>1
    <3> QED
      BY <3>2, <3>3 DEF HealthFailureLines, Lines
  <2>5. /\ Health(a, c) = "refused" => ~(cand[a] \subseteq BaseDiag)
        /\ Health(a, c) \in {"passed", "inherited_failure"} => cand[a] \subseteq BaseDiag
    <3>1. HealthFailureLines(Lines("candidate", cand[a])) = cand[a]
      BY <2>4
    <3>2. HealthFailureLines(Lines("base", BaseDiag)) = BaseDiag
      BY <2>4
    <3> QED
      BY <3>1, <3>2 DEF Health
  <2>6. why'[a] = "health" /\ why[a] # "health" => p.health = "refused"
    BY <2>1, <2>2 DEF Prepare, Block, OutputTypes
  <2>7. prep'[a] # prep[a] => prep'[a] = p
    BY <2>1, <2>2, PrepareEffect DEF OutputTypes
  <2> QED
    BY <2>3, <2>5, <2>6, <2>7
<1> QED
  BY <1>1, OutputInvariant, PTL DEF OutputSpec

=============================================================================
