---------------------------- MODULE QueueTables ----------------------------
(***************************************************************************)
(* Facts about least numbers, about sequences without one of their         *)
(* elements and about tables of queues, such as the transaction queues and *)
(* the command queues of a memory controller: which entries they hold when *)
(* an entry is appended to a queue or taken out of one.                    *)
(***************************************************************************)
EXTENDS SequencesExt, SequenceTheorems, WellFoundedInduction, TLAPS

(* Min picks an element of a set of numbers that is not empty. *)
LEMMA MinIsIn ==
  ASSUME NEW S, S \subseteq Nat, S # {}
  PROVE  Min(S) \in S /\ \A y \in S : Min(S) <= y
<1>1. PICK x \in S : \A y \in S : ~(<<y, x>> \in OpToRel(<, Nat))
  BY NatLessThanWellFounded, WFMin
<1>2. \A y \in S : x <= y
  <2> SUFFICES ASSUME NEW y \in S, y < x
               PROVE  FALSE
    OBVIOUS
  <2>1. y \in Nat /\ x \in Nat
    OBVIOUS
  <2>2. <<y, x>> \in {ss \in Nat \X Nat : ss[1] < ss[2]}
    BY <2>1
  <2> QED
    BY <1>1, <2>2 DEF OpToRel
<1> QED
  BY <1>2 DEF Min

(* What is left of a sequence without its element i. *)
LEMMA RemoveAtProperties ==
  ASSUME NEW S, NEW s \in Seq(S), NEW i \in 1 .. Len(s)
  PROVE  /\ RemoveAt(s, i) \in Seq(S)
         /\ Len(RemoveAt(s, i)) = Len(s) - 1
         /\ \A j \in 1 .. Len(s) - 1 :
              RemoveAt(s, i)[j] = IF j < i THEN s[j] ELSE s[j + 1]
<1> DEFINE a == SubSeq(s, 1, i - 1)
           b == SubSeq(s, i + 1, Len(s))
<1>1. /\ a \in Seq(S) /\ Len(a) = i - 1
      /\ \A j \in 1 .. i - 1 : a[j] = s[j]
  BY SubSeqProperties, LenProperties
<1>2. /\ b \in Seq(S) /\ Len(b) = Len(s) - i
      /\ \A j \in 1 .. Len(s) - i : b[j] = s[i + j]
  BY SubSeqProperties, LenProperties
<1> HIDE DEF a, b
<1>a. Len(s) \in Nat
  BY LenProperties
<1>b. Len(a) + Len(b) = Len(s) - 1
  BY <1>1, <1>2, <1>a
<1>3. /\ a \o b \in Seq(S) /\ Len(a \o b) = Len(a) + Len(b)
      /\ \A j \in 1 .. Len(a) + Len(b) :
           (a \o b)[j] = IF j <= Len(a) THEN a[j] ELSE b[j - Len(a)]
  BY ONLY <1>1, <1>2, ConcatProperties
<1>4. \A j \in 1 .. Len(s) - 1 :
        (a \o b)[j] = IF j < i THEN s[j] ELSE s[j + 1]
  BY <1>1, <1>2, <1>3, <1>a, <1>b
<1> QED
  BY <1>3, <1>4, <1>b DEF RemoveAt, a, b
-----------------------------------------------------------------------------

(* An entry of one of the queues, and one that is there once at most. *)
Has(f, e) == \E q \in DOMAIN f : \E i \in DOMAIN f[q] : f[q][i] = e

AtMostOnce(f, e) ==
  \A q, r \in DOMAIN f : \A i \in DOMAIN f[q], j \in DOMAIN f[r] :
    f[q][i] = e /\ f[r][j] = e => q = r /\ i = j

(* An entry is appended to one of the queues. *)
LEMMA AppendToTable ==
  ASSUME NEW Q, NEW S, NEW f \in [Q -> Seq(S)], NEW q \in Q, NEW x \in S
  PROVE  LET g == [f EXCEPT ![q] = Append(@, x)] IN
         /\ g \in [Q -> Seq(S)]
         /\ \A e : Has(g, e) <=> Has(f, e) \/ e = x
         /\ \A e : AtMostOnce(f, e) /\ (e = x => ~Has(f, e)) => AtMostOnce(g, e)
<1> DEFINE g == [f EXCEPT ![q] = Append(@, x)]
<1>1. f[q] \in Seq(S) /\ Len(f[q]) \in Nat /\ DOMAIN f[q] = 1 .. Len(f[q])
  BY LenProperties
<1>2. /\ Append(f[q], x) \in Seq(S)
      /\ DOMAIN Append(f[q], x) = 1 .. Len(f[q]) + 1
      /\ \A i \in 1 .. Len(f[q]) : Append(f[q], x)[i] = f[q][i]
      /\ Append(f[q], x)[Len(f[q]) + 1] = x
  BY <1>1, AppendProperties, LenProperties
<1>3. /\ g \in [Q -> Seq(S)] /\ DOMAIN g = Q /\ DOMAIN f = Q
      /\ g[q] = Append(f[q], x)
      /\ \A r \in Q : r # q => g[r] = f[r]
  BY <1>2
<1> HIDE DEF g
<1>a. \A i \in DOMAIN f[q] : i \in DOMAIN g[q] /\ g[q][i] = f[q][i]
  BY <1>1, <1>2, <1>3
<1>b. \A i \in DOMAIN g[q] :
        i \in DOMAIN f[q] \/ (i = Len(f[q]) + 1 /\ g[q][i] = x)
  BY <1>1, <1>2, <1>3
<1>4. \A r \in Q : \A i \in DOMAIN f[r] : i \in DOMAIN g[r] /\ g[r][i] = f[r][i]
  BY <1>a, <1>3
<1>5. \A r \in Q : \A i \in DOMAIN g[r] :
        \/ i \in DOMAIN f[r] /\ g[r][i] = f[r][i]
        \/ r = q /\ i = Len(f[q]) + 1 /\ g[r][i] = x
  BY <1>a, <1>b, <1>3
<1>6. Len(f[q]) + 1 \in DOMAIN g[q] /\ g[q][Len(f[q]) + 1] = x
  BY <1>1, <1>2, <1>3
<1>7. ASSUME NEW e PROVE Has(g, e) <=> Has(f, e) \/ e = x
  BY <1>3, <1>4, <1>5, <1>6 DEF Has
<1>8. ASSUME NEW e, AtMostOnce(f, e), e = x => ~Has(f, e)
      PROVE  AtMostOnce(g, e)
  BY <1>3, <1>5, <1>8 DEF Has, AtMostOnce
<1> QED
  BY <1>3, <1>7, <1>8 DEF g

(* An entry is taken out of one of the queues. *)
LEMMA RemoveFromTable ==
  ASSUME NEW Q, NEW S, NEW f \in [Q -> Seq(S)], NEW q \in Q,
         NEW k \in 1 .. Len(f[q])
  PROVE  LET g == [f EXCEPT ![q] = RemoveAt(@, k)] IN
         /\ g \in [Q -> Seq(S)]
         /\ \A e : AtMostOnce(f, e) => AtMostOnce(g, e)
         /\ AtMostOnce(f, f[q][k]) => ~Has(g, f[q][k])
         /\ \A e : e # f[q][k] => (Has(g, e) <=> Has(f, e))
<1> DEFINE g == [f EXCEPT ![q] = RemoveAt(@, k)]
           old(r, i) == IF r = q /\ i >= k THEN i + 1 ELSE i
<1>1. f[q] \in Seq(S) /\ Len(f[q]) \in Nat /\ DOMAIN f[q] = 1 .. Len(f[q])
  BY LenProperties
<1>2. /\ RemoveAt(f[q], k) \in Seq(S)
      /\ Len(RemoveAt(f[q], k)) = Len(f[q]) - 1
      /\ \A j \in 1 .. Len(f[q]) - 1 :
           RemoveAt(f[q], k)[j] = IF j < k THEN f[q][j] ELSE f[q][j + 1]
  BY <1>1, RemoveAtProperties
<1>3. DOMAIN RemoveAt(f[q], k) = 1 .. Len(f[q]) - 1
  BY <1>2, LenProperties
<1>4. /\ g \in [Q -> Seq(S)] /\ DOMAIN g = Q /\ DOMAIN f = Q
      /\ g[q] = RemoveAt(f[q], k)
      /\ \A r \in Q : r # q => g[r] = f[r]
  BY <1>2
<1>n. \A r \in Q : DOMAIN f[r] \subseteq Nat /\ DOMAIN g[r] \subseteq Nat
  BY <1>4, LenProperties
<1> HIDE DEF g
<1>5. \A r \in Q : \A i \in DOMAIN g[r] :
        /\ old(r, i) \in DOMAIN f[r]
        /\ g[r][i] = f[r][old(r, i)]
        /\ ~(r = q /\ old(r, i) = k)
  BY <1>1, <1>2, <1>3, <1>4, <1>n
<1>6. \A r \in Q : \A i \in DOMAIN f[r] :
        \/ r = q /\ i = k
        \/ \E j \in DOMAIN g[r] : g[r][j] = f[r][i]
  <2> SUFFICES ASSUME NEW r \in Q, NEW i \in DOMAIN f[r], ~(r = q /\ i = k)
               PROVE  \E j \in DOMAIN g[r] : g[r][j] = f[r][i]
    OBVIOUS
  <2>1. CASE r # q
    BY <2>1, <1>4
  <2>2. CASE r = q /\ i < k
    BY <2>2, <1>1, <1>2, <1>3, <1>4
  <2>3. CASE r = q /\ i > k
    <3>1. i - 1 \in DOMAIN g[r] /\ g[r][i - 1] = f[r][i]
      BY <2>3, <1>1, <1>2, <1>3, <1>4
    <3> QED
      BY <3>1
  <2> QED
    BY <2>1, <2>2, <2>3, <1>1
<1>7. ASSUME NEW e, AtMostOnce(f, e) PROVE AtMostOnce(g, e)
  <2> SUFFICES ASSUME NEW r \in Q, NEW t \in Q,
                      NEW i \in DOMAIN g[r], NEW j \in DOMAIN g[t],
                      g[r][i] = e, g[t][j] = e
               PROVE  r = t /\ i = j
    BY <1>4 DEF AtMostOnce
  <2>1. r = t /\ old(r, i) = old(t, j)
    BY <1>4, <1>5, <1>7 DEF AtMostOnce
  <2> QED
    BY <2>1, <1>n
<1>8. ASSUME AtMostOnce(f, f[q][k]), Has(g, f[q][k]) PROVE FALSE
  BY <1>1, <1>4, <1>5, <1>8 DEF Has, AtMostOnce
<1>9. ASSUME NEW e, e # f[q][k] PROVE Has(g, e) <=> Has(f, e)
  <2>1. Has(g, e) => Has(f, e)
    BY <1>4, <1>5 DEF Has
  <2>2. Has(f, e) => Has(g, e)
    BY <1>4, <1>6, <1>9 DEF Has
  <2> QED
    BY <2>1, <2>2
<1> QED
  BY <1>4, <1>7, <1>8, <1>9 DEF g
=============================================================================
