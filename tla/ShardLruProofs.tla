--------------------------- MODULE ShardLruProofs ---------------------------
(***************************************************************************)
(* The shard of the memory for any keys, sizes and capacity: the recency   *)
(* list stays a list of exactly the entries held, the charge is exact, and *)
(* the shard implements the recency order.                                 *)
(***************************************************************************)
EXTENDS ShardLru, TLAPS

-----------------------------------------------------------------------------
(* The recency list.                                                       *)

(* s lists the entries E from the most to the least recent one; r and o    *)
(* are its ends and every pointer agrees with it.                          *)
Chained(E, r, o, s) ==
  /\ s \in Seq(Keys)
  /\ \A i, j \in 1..Len(s) : s[i] = s[j] => i = j
  /\ \A i \in 1..Len(s) : s[i] \in DOMAIN E
  /\ \A k \in DOMAIN E : \E i \in 1..Len(s) : s[i] = k
  /\ r = IF Len(s) = 0 THEN Nil ELSE s[1]
  /\ o = IF Len(s) = 0 THEN Nil ELSE s[Len(s)]
  /\ \A i \in 1..Len(s) :
       /\ E[s[i]].previous = IF i = 1 THEN Nil ELSE s[i - 1]
       /\ E[s[i]].next = IF i = Len(s) THEN Nil ELSE s[i + 1]

(* Lists is Chained for the pointers of the shard.                         *)
LEMMA ListsIsChained ==
  ASSUME NEW s \in Seq(Keys)
  PROVE  Lists(s) <=> Chained(entries, recent, oldest, s)
<1>1. DOMAIN s = 1..Len(s) /\ (s = <<>> <=> Len(s) = 0)  OBVIOUS
<1>2. IsInjective(s) <=> \A i, j \in 1..Len(s) : s[i] = s[j] => i = j
  BY Zenon, <1>1 DEF IsInjective
<1>3. Range(s) = DOMAIN entries <=> /\ \A i \in 1..Len(s) : s[i] \in DOMAIN entries
                                    /\ \A k \in DOMAIN entries : \E i \in 1..Len(s) : s[i] = k
  BY Zenon, <1>1 DEF Range
<1>4. recent = (IF s = <<>> THEN Nil ELSE s[1]) <=> recent = (IF Len(s) = 0 THEN Nil ELSE s[1])
  BY Zenon, <1>1
<1>5. oldest = (IF s = <<>> THEN Nil ELSE s[Len(s)]) <=> oldest = (IF Len(s) = 0 THEN Nil ELSE s[Len(s)])
  BY Zenon, <1>1
<1> QED  BY Zenon, <1>2, <1>3, <1>4, <1>5 DEF Lists, Chained

(* s without its i-th element.                                             *)
Without(s, i) == [m \in 1..(Len(s) - 1) |-> IF m < i THEN s[m] ELSE s[m + 1]]

(* What is left of s without its i-th element.                             *)
LEMMA WithoutFacts ==
  ASSUME NEW s \in Seq(Keys), NEW i \in 1..Len(s)
  PROVE  /\ Without(s, i) \in Seq(Keys) /\ Len(Without(s, i)) = Len(s) - 1
         /\ \A m \in 1..(Len(s) - 1) :
              /\ m < i => Without(s, i)[m] = s[m]
              /\ m >= i => Without(s, i)[m] = s[m + 1]
<1>1. \A m \in 1..(Len(s) - 1) : (IF m < i THEN s[m] ELSE s[m + 1]) \in Keys  OBVIOUS
<1>2. Len(s) - 1 \in Nat /\ Len(s) \in Nat /\ i \in Nat  OBVIOUS
<1>3. Without(s, i) \in [1..(Len(s) - 1) -> Keys]  BY Zenon, <1>1 DEF Without
<1>4. Without(s, i) \in Seq(Keys) /\ Len(Without(s, i)) = Len(s) - 1  BY <1>2, <1>3
<1>5. ASSUME NEW m \in 1..(Len(s) - 1)
      PROVE  /\ m < i => Without(s, i)[m] = s[m]
             /\ m >= i => Without(s, i)[m] = s[m + 1]
  <2>1. Without(s, i)[m] = IF m < i THEN s[m] ELSE s[m + 1]  BY Zenon DEF Without
  <2>2. m >= i <=> ~ (m < i)  BY <1>2
  <2> QED  BY Zenon, <2>1, <2>2
<1> QED  BY Zenon, <1>4, <1>5

(* s with k in front of it.                                                *)
Fronted(k, s) == [m \in 1..(Len(s) + 1) |-> IF m = 1 THEN k ELSE s[m - 1]]

(* What s is with k in front of it.                                        *)
LEMMA FrontedFacts ==
  ASSUME NEW s \in Seq(Keys), NEW k \in Keys
  PROVE  /\ Fronted(k, s) \in Seq(Keys) /\ Len(Fronted(k, s)) = Len(s) + 1
         /\ Fronted(k, s)[1] = k
         /\ \A m \in 1..Len(s) : Fronted(k, s)[m + 1] = s[m]
         /\ \A m \in 2..(Len(s) + 1) : Fronted(k, s)[m] = s[m - 1]
<1>1. \A m \in 1..(Len(s) + 1) : (IF m = 1 THEN k ELSE s[m - 1]) \in Keys  OBVIOUS
<1>2. Len(s) + 1 \in Nat /\ Len(s) \in Nat  OBVIOUS
<1>3. Fronted(k, s) \in [1..(Len(s) + 1) -> Keys]  BY Zenon, <1>1 DEF Fronted
<1>4. Fronted(k, s) \in Seq(Keys) /\ Len(Fronted(k, s)) = Len(s) + 1  BY <1>2, <1>3
<1>5. Fronted(k, s)[1] = k
  <2>1. 1 \in 1..(Len(s) + 1)  BY <1>2
  <2> QED  BY Zenon, <2>1 DEF Fronted
<1>6. ASSUME NEW m \in 2..(Len(s) + 1)  PROVE Fronted(k, s)[m] = s[m - 1]
  <2>1. m \in 1..(Len(s) + 1) /\ m # 1  BY <1>2
  <2> QED  BY Zenon, <2>1 DEF Fronted
<1>7. ASSUME NEW m \in 1..Len(s)  PROVE Fronted(k, s)[m + 1] = s[m]
  <2>1. m + 1 \in 2..(Len(s) + 1) /\ (m + 1) - 1 = m  BY <1>2
  <2> QED  BY Zenon, <1>6, <2>1
<1> QED  BY Zenon, <1>4, <1>5, <1>6, <1>7

(* The list without its i-th entry is the list of the remaining entries,   *)
(* once the pointers lead past it: what the neighbours are told in         *)
(* removeEntryLocked and in markRecentLocked.                              *)
LEMMA Bypassed ==
  ASSUME NEW E, NEW r, NEW o, NEW s, Chained(E, r, o, s), NEW i \in 1..Len(s),
         NEW D, DOMAIN D = DOMAIN E \ {s[i]},
         \A j \in DOMAIN D :
           /\ D[j].next = IF E[s[i]].previous = j THEN E[s[i]].next ELSE E[j].next
           /\ D[j].previous = IF E[s[i]].next = j THEN E[s[i]].previous ELSE E[j].previous
  PROVE  Chained(D, IF E[s[i]].previous = Nil THEN E[s[i]].next ELSE r,
                    IF E[s[i]].next = Nil THEN E[s[i]].previous ELSE o, Without(s, i))
<1> DEFINE t == Without(s, i)
           n == Len(s)
<1>1. s \in Seq(Keys) /\ n \in Nat /\ \A m \in 1..n : s[m] \in Keys /\ s[m] # Nil
  BY ShardAssumption DEF Chained
<1>2. /\ t \in Seq(Keys) /\ Len(t) = n - 1
      /\ \A m \in 1..(n - 1) : (m < i => t[m] = s[m]) /\ (m >= i => t[m] = s[m + 1])
  BY Zenon, <1>1, WithoutFacts
<1>3. \A a, b \in 1..n : s[a] = s[b] => a = b  BY Zenon DEF Chained
<1>4. /\ E[s[i]].previous = IF i = 1 THEN Nil ELSE s[i - 1]
      /\ E[s[i]].next = IF i = n THEN Nil ELSE s[i + 1]
  BY Zenon DEF Chained
<1> HIDE DEF t
<1>5. \A a, b \in 1..(n - 1) : t[a] = t[b] => a = b  BY SMTT(30), <1>1, <1>2, <1>3
<1>6. ASSUME NEW m \in 1..(n - 1)  PROVE t[m] \in DOMAIN D
  <2>1. \E a \in 1..n : a # i /\ t[m] = s[a]  BY SMTT(30), <1>1, <1>2
  <2> QED  BY ZenonT(30), <1>3, <2>1 DEF Chained
<1>7. ASSUME NEW k \in DOMAIN D  PROVE \E m \in 1..(n - 1) : t[m] = k
  <2>1. PICK a \in 1..n : s[a] = k  BY Zenon DEF Chained
  <2>2. a # i  BY Zenon, <2>1
  <2>3. CASE a < i
    <3>1. a \in 1..(n - 1) /\ t[a] = s[a]  BY <1>1, <1>2, <2>3
    <3> QED  BY Zenon, <2>1, <3>1
  <2>4. CASE a > i
    <3>1. a - 1 \in 1..(n - 1) /\ a - 1 >= i /\ (a - 1) + 1 = a  BY <1>1, <2>4
    <3>2. t[a - 1] = s[a]  BY Zenon, <1>2, <3>1
    <3> QED  BY Zenon, <2>1, <3>1, <3>2
  <2> QED  BY <1>1, <2>2, <2>3, <2>4
<1>8. (IF E[s[i]].previous = Nil THEN E[s[i]].next ELSE r) = IF n - 1 = 0 THEN Nil ELSE t[1]
  <2>1. r = s[1]  BY <1>1 DEF Chained
  <2>2. CASE i = 1
    <3>1. E[s[i]].previous = Nil  BY Zenon, <1>4, <2>2
    <3>2. CASE n = 1
      <4> QED  BY <1>4, <2>2, <3>1, <3>2
    <3>3. CASE n # 1
      <4>1. n - 1 # 0 /\ 1 \in 1..(n - 1) /\ 1 >= i /\ t[1] = s[i + 1] /\ i # n  BY <1>1, <1>2, <2>2, <3>3
      <4> QED  BY Zenon, <1>4, <3>1, <4>1
    <3> QED  BY Zenon, <3>2, <3>3
  <2>3. CASE i # 1
    <3>1. n - 1 # 0 /\ 1 \in 1..(n - 1) /\ 1 < i /\ i - 1 \in 1..n  BY <1>1, <2>3
    <3>2. t[1] = s[1] /\ E[s[i]].previous # Nil  BY ZenonT(30), <1>1, <1>2, <1>4, <2>3, <3>1
    <3> QED  BY Zenon, <2>1, <3>1, <3>2
  <2> QED  BY Zenon, <2>2, <2>3
<1>9. (IF E[s[i]].next = Nil THEN E[s[i]].previous ELSE o) = IF n - 1 = 0 THEN Nil ELSE t[n - 1]
  <2>1. o = s[n]  BY <1>1 DEF Chained
  <2>2. CASE i = n
    <3>1. E[s[i]].next = Nil  BY Zenon, <1>4, <2>2
    <3>2. CASE n = 1
      <4> QED  BY <1>4, <2>2, <3>1, <3>2
    <3>3. CASE n # 1
      <4>1. n - 1 # 0 /\ n - 1 \in 1..(n - 1) /\ n - 1 < i /\ i # 1  BY <1>1, <2>2, <3>3
      <4>2. t[n - 1] = s[i - 1]  BY Zenon, <1>2, <2>2, <4>1
      <4> QED  BY Zenon, <1>4, <3>1, <4>1, <4>2
    <3> QED  BY Zenon, <3>2, <3>3
  <2>3. CASE i # n
    <3>1. /\ n - 1 # 0 /\ n - 1 \in 1..(n - 1) /\ n - 1 >= i /\ i + 1 \in 1..n /\ (n - 1) + 1 = n
      BY <1>1, <2>3
    <3>2. t[n - 1] = s[n] /\ E[s[i]].next # Nil  BY ZenonT(30), <1>1, <1>2, <1>4, <2>3, <3>1
    <3> QED  BY Zenon, <2>1, <3>1, <3>2
  <2> QED  BY Zenon, <2>2, <2>3
<1>10. ASSUME NEW m \in 1..(n - 1)
       PROVE  /\ D[t[m]].previous = IF m = 1 THEN Nil ELSE t[m - 1]
              /\ D[t[m]].next = IF m = n - 1 THEN Nil ELSE t[m + 1]
  <2> DEFINE a == IF m < i THEN m ELSE m + 1
  <2>1. a \in 1..n /\ a # i /\ t[m] = s[a]  BY <1>1, <1>2
  <2>2. /\ E[s[a]].previous = IF a = 1 THEN Nil ELSE s[a - 1]
        /\ E[s[a]].next = IF a = n THEN Nil ELSE s[a + 1]
    <3> HIDE DEF a
    <3> QED  BY Zenon, <2>1 DEF Chained
  <2>3. /\ D[s[a]].next = IF E[s[i]].previous = s[a] THEN E[s[i]].next ELSE E[s[a]].next
        /\ D[s[a]].previous = IF E[s[i]].next = s[a] THEN E[s[i]].previous ELSE E[s[a]].previous
    <3> HIDE DEF a
    <3>1. s[a] \in DOMAIN D  BY Zenon, <1>6, <2>1
    <3> QED  BY Zenon, <3>1
  <2>4. E[s[i]].previous = s[a] <=> i # 1 /\ a = i - 1
    <3> HIDE DEF a
    <3>1. CASE i = 1
      <4> QED  BY Zenon, <1>1, <1>4, <2>1, <3>1
    <3>2. CASE i # 1
      <4>1. i - 1 \in 1..n  BY <1>1, <3>2
      <4> QED  BY Zenon, <1>3, <1>4, <2>1, <3>2, <4>1
    <3> QED  BY Zenon, <3>1, <3>2
  <2>5. E[s[i]].next = s[a] <=> i # n /\ a = i + 1
    <3> HIDE DEF a
    <3>1. CASE i = n
      <4> QED  BY Zenon, <1>1, <1>4, <2>1, <3>1
    <3>2. CASE i # n
      <4>1. i + 1 \in 1..n  BY <1>1, <3>2
      <4> QED  BY Zenon, <1>3, <1>4, <2>1, <3>2, <4>1
    <3> QED  BY Zenon, <3>1, <3>2
  <2>6. D[s[a]].next = IF m = n - 1 THEN Nil ELSE t[m + 1]
    <3>1. CASE a = i - 1
      <4>1. m = i - 1 /\ i # 1 /\ a = m  BY <1>1, <2>1, <3>1
      <4>2. D[s[a]].next = IF i = n THEN Nil ELSE s[i + 1]
        <5> HIDE DEF a
        <5> QED  BY Zenon, <1>4, <2>3, <2>4, <3>1, <4>1
      <4>3. m = n - 1 <=> i = n  BY <1>1, <4>1
      <4>4. i # n => m + 1 \in 1..(n - 1) /\ m + 1 >= i /\ (m + 1) + 1 = i + 1  BY <1>1, <4>1
      <4>5. i # n => t[m + 1] = s[i + 1]  BY Zenon, <1>2, <4>4
      <4> QED  BY Zenon, <4>2, <4>3, <4>5
    <3>2. CASE a # i - 1
      <4>1. D[s[a]].next = IF a = n THEN Nil ELSE s[a + 1]
        <5> HIDE DEF a
        <5> QED  BY Zenon, <2>2, <2>3, <2>4, <3>2
      <4>2. (a = n <=> m = n - 1) /\ (m # n - 1 => t[m + 1] = s[a + 1])  BY <1>1, <1>2, <3>2
      <4> HIDE DEF a
      <4> QED  BY Zenon, <4>1, <4>2
    <3> QED  BY Zenon, <3>1, <3>2
  <2>7. D[s[a]].previous = IF m = 1 THEN Nil ELSE t[m - 1]
    <3>1. CASE a = i + 1
      <4>1. m = i /\ i # n  BY <1>1, <2>1, <3>1
      <4>2. D[s[a]].previous = IF i = 1 THEN Nil ELSE s[i - 1]
        <5> HIDE DEF a
        <5> QED  BY Zenon, <1>4, <2>3, <2>5, <3>1, <4>1
      <4>3. i # 1 => m - 1 \in 1..(n - 1) /\ m - 1 < i  BY <1>1, <4>1
      <4>4. i # 1 => t[m - 1] = s[i - 1]  BY Zenon, <1>2, <4>1, <4>3
      <4> QED  BY Zenon, <4>1, <4>2, <4>4
    <3>2. CASE a # i + 1
      <4>1. D[s[a]].previous = IF a = 1 THEN Nil ELSE s[a - 1]
        <5> HIDE DEF a
        <5> QED  BY Zenon, <2>2, <2>3, <2>5, <3>2
      <4>2. (a = 1 <=> m = 1) /\ (m # 1 => t[m - 1] = s[a - 1])  BY <1>1, <1>2, <2>1, <3>2
      <4> HIDE DEF a
      <4> QED  BY Zenon, <4>1, <4>2
    <3> QED  BY Zenon, <3>1, <3>2
  <2> HIDE DEF a
  <2> QED  BY Zenon, <2>1, <2>6, <2>7
<1> DEFINE r2 == IF E[s[i]].previous = Nil THEN E[s[i]].next ELSE r
           o2 == IF E[s[i]].next = Nil THEN E[s[i]].previous ELSE o
<1>11. r2 = (IF n - 1 = 0 THEN Nil ELSE t[1]) /\ o2 = (IF n - 1 = 0 THEN Nil ELSE t[n - 1])
  BY Zenon, <1>8, <1>9
<1> HIDE DEF r2, o2
<1>12. Chained(D, r2, o2, t)
  <2>1. \A m \in 1..Len(t) : t[m] \in DOMAIN D  BY Zenon, <1>2, <1>6
  <2>2. \A k \in DOMAIN D : \E m \in 1..Len(t) : t[m] = k  BY Zenon, <1>2, <1>7
  <2>3. \A a, b \in 1..Len(t) : t[a] = t[b] => a = b  BY Zenon, <1>2, <1>5
  <2>4. r2 = (IF Len(t) = 0 THEN Nil ELSE t[1]) /\ o2 = (IF Len(t) = 0 THEN Nil ELSE t[Len(t)])
    BY Zenon, <1>2, <1>11
  <2>5. \A m \in 1..Len(t) :
          /\ D[t[m]].previous = IF m = 1 THEN Nil ELSE t[m - 1]
          /\ D[t[m]].next = IF m = Len(t) THEN Nil ELSE t[m + 1]
    BY ZenonT(30), <1>2, <1>10
  <2> QED  BY Zenon, <1>2, <2>1, <2>2, <2>3, <2>4, <2>5 DEF Chained
<1> QED  BY Zenon, <1>12 DEF r2, o2, t

(* The list with a new entry in front of it, once the entry that was the   *)
(* most recent one points back to it: what pushing does in                 *)
(* markRecentLocked.                                                       *)
LEMMA Pushed ==
  ASSUME NEW E, NEW r, NEW o, NEW s, Chained(E, r, o, s), NEW k \in Keys, k \notin DOMAIN E,
         NEW D, DOMAIN D = DOMAIN E \cup {k}, D[k].previous = Nil, D[k].next = r,
         \A j \in DOMAIN E : /\ D[j].next = E[j].next
                             /\ D[j].previous = IF j = r THEN k ELSE E[j].previous
  PROVE  Chained(D, k, IF r = Nil THEN k ELSE o, Fronted(k, s))
<1> DEFINE t == Fronted(k, s)
           n == Len(s)
<1>1. s \in Seq(Keys) /\ n \in Nat /\ (\A m \in 1..n : s[m] \in Keys /\ s[m] # Nil) /\ k # Nil
  BY ShardAssumption DEF Chained
<1>2. /\ t \in Seq(Keys) /\ Len(t) = n + 1 /\ t[1] = k
      /\ \A m \in 1..n : t[m + 1] = s[m]
      /\ \A m \in 2..(n + 1) : t[m] = s[m - 1]
  BY ZenonT(30), <1>1, FrontedFacts
<1>3. /\ \A a, b \in 1..n : s[a] = s[b] => a = b
      /\ \A a \in 1..n : s[a] \in DOMAIN E /\ s[a] # k
  <2>1. /\ \A a, b \in 1..n : s[a] = s[b] => a = b
        /\ \A a \in 1..n : s[a] \in DOMAIN E
    BY Zenon DEF Chained
  <2>2. ASSUME NEW a \in 1..n  PROVE s[a] # k  BY Zenon, <2>1
  <2> QED  BY Zenon, <2>1, <2>2
<1>4. r = (IF n = 0 THEN Nil ELSE s[1]) /\ o = (IF n = 0 THEN Nil ELSE s[n])  BY Zenon DEF Chained
<1> HIDE DEF t
<1>5. \A m \in 1..Len(t) : m = 1 \/ (m \in 2..(n + 1) /\ m - 1 \in 1..n /\ t[m] = s[m - 1])
  BY <1>1, <1>2
<1>6. \A a, b \in 1..Len(t) : t[a] = t[b] => a = b  BY SMTT(30), <1>1, <1>2, <1>3, <1>5
<1>7. \A m \in 1..Len(t) : t[m] \in DOMAIN D  BY Zenon, <1>2, <1>3, <1>5
<1>8. ASSUME NEW j \in DOMAIN D  PROVE \E m \in 1..Len(t) : t[m] = j
  <2>1. CASE j = k
    <3>1. 1 \in 1..Len(t)  BY <1>1, <1>2
    <3> QED  BY Zenon, <1>2, <2>1, <3>1
  <2>2. CASE j # k
    <3>1. PICK a \in 1..n : s[a] = j  BY ZenonT(30), <2>2 DEF Chained
    <3>2. a + 1 \in 1..Len(t)  BY <1>1, <1>2
    <3> QED  BY Zenon, <1>2, <3>1, <3>2
  <2> QED  BY Zenon, <2>1, <2>2
<1>9. k = (IF Len(t) = 0 THEN Nil ELSE t[1])  BY <1>1, <1>2
<1> DEFINE o2 == IF r = Nil THEN k ELSE o
<1>10. o2 = (IF Len(t) = 0 THEN Nil ELSE t[Len(t)])
  <2>1. CASE n = 0
    <3> QED  BY <1>2, <1>4, <2>1
  <2>2. CASE n # 0
    <3>1. 1 \in 1..n /\ n \in 1..n /\ Len(t) # 0  BY <1>1, <1>2, <2>2
    <3>2. t[Len(t)] = s[n] /\ r # Nil  BY ZenonT(30), <1>1, <1>2, <1>4, <2>2, <3>1
    <3> QED  BY Zenon, <1>4, <2>2, <3>1, <3>2
  <2> QED  BY Zenon, <2>1, <2>2
<1>11. ASSUME NEW m \in 1..Len(t)
       PROVE  /\ D[t[m]].previous = IF m = 1 THEN Nil ELSE t[m - 1]
              /\ D[t[m]].next = IF m = Len(t) THEN Nil ELSE t[m + 1]
  <2>1. CASE m = 1
    <3>1. (1 = Len(t) <=> n = 0) /\ (n # 0 => 1 \in 1..n)  BY <1>1, <1>2
    <3>2. r = IF 1 = Len(t) THEN Nil ELSE t[1 + 1]  BY Zenon, <1>2, <1>4, <3>1
    <3> QED  BY Zenon, <1>2, <2>1, <3>2
  <2>2. CASE m # 1
    <3> DEFINE a == m - 1
    <3>1. a \in 1..n /\ t[m] = s[a] /\ (a = 1 <=> m = 2) /\ (a = n <=> m = Len(t))  BY <1>1, <1>2, <1>5, <2>2
    <3>2. /\ E[s[a]].previous = IF a = 1 THEN Nil ELSE s[a - 1]
          /\ E[s[a]].next = IF a = n THEN Nil ELSE s[a + 1]
      <4> HIDE DEF a
      <4> QED  BY Zenon, <3>1 DEF Chained
    <3>3. D[t[m]].next = IF m = Len(t) THEN Nil ELSE t[m + 1]
      <4>1. m # Len(t) => t[m + 1] = s[a + 1]  BY <1>1, <1>2, <3>1
      <4> HIDE DEF a
      <4> QED  BY ZenonT(30), <1>3, <3>1, <3>2, <4>1
    <3>4. s[a] = r <=> a = 1
      <4>1. n # 0 /\ 1 \in 1..n  BY <1>1, <3>1
      <4> HIDE DEF a
      <4> QED  BY Zenon, <1>3, <1>4, <3>1, <4>1
    <3>5. D[t[m]].previous = t[m - 1]
      <4>1. CASE a = 1
        <5>1. t[m - 1] = k  BY Zenon, <1>2, <4>1
        <5>2. D[t[m]].previous = k
          <6> HIDE DEF a
          <6> QED  BY Zenon, <1>3, <3>1, <3>4, <4>1
        <5> QED  BY Zenon, <5>1, <5>2
      <4>2. CASE a # 1
        <5>1. t[m - 1] = s[a - 1]  BY SMTT(30), <1>1, <1>2, <3>1, <4>2
        <5> HIDE DEF a
        <5> QED  BY Zenon, <1>3, <3>1, <3>2, <3>4, <4>2, <5>1
      <4> QED  BY Zenon, <4>1, <4>2
    <3> QED  BY Zenon, <2>2, <3>3, <3>5
  <2> QED  BY Zenon, <2>1, <2>2
<1> HIDE DEF o2
<1>12. Chained(D, k, o2, t)  BY Zenon, <1>2, <1>6, <1>7, <1>8, <1>9, <1>10, <1>11 DEF Chained
<1> QED  BY Zenon, <1>12 DEF o2, t

(* The entries of a shard are entries.                                     *)
Sound(E) == DOMAIN E \subseteq Keys /\ \A k \in DOMAIN E : E[k] \in Entry

(* Two maps of entries hold the same sizes and deadlines for the keys S.   *)
SameData(D, E, S) == \A j \in S : D[j].size = E[j].size /\ D[j].deadline = E[j].deadline

(* What the neighbours of k become.                                        *)
LEMMA UnlinkedFacts ==
  ASSUME NEW shard, Sound(shard.entries), NEW k \in DOMAIN shard.entries
  PROVE  LET E == shard.entries
             D == Unlinked(shard, k)
         IN  /\ DOMAIN D = DOMAIN E /\ Sound(D) /\ SameData(D, E, DOMAIN E)
             /\ \A j \in DOMAIN E :
                  /\ D[j].next = IF E[k].previous = j THEN E[k].next ELSE E[j].next
                  /\ D[j].previous = IF E[k].next = j THEN E[k].previous ELSE E[j].previous
<1> DEFINE E == shard.entries
           D == Unlinked(shard, k)
<1>1. DOMAIN D = DOMAIN E  BY Zenon DEF Unlinked
<1>2. ASSUME NEW j \in DOMAIN E
      PROVE  /\ D[j] \in Entry
             /\ D[j].next = IF E[k].previous = j THEN E[k].next ELSE E[j].next
             /\ D[j].previous = IF E[k].next = j THEN E[k].previous ELSE E[j].previous
             /\ D[j].size = E[j].size /\ D[j].deadline = E[j].deadline
  <2> DEFINE nx == IF E[k].previous = j THEN E[k].next ELSE E[j].next
             pr == IF E[k].next = j THEN E[k].previous ELSE E[j].previous
  <2>1. D[j] = [E[j] EXCEPT !.next = nx, !.previous = pr]  BY Zenon DEF Unlinked
  <2>2. E[j] \in Entry /\ E[k] \in Entry  BY Zenon DEF Sound
  <2> HIDE DEF D, E
  <2>3. nx \in Pointers /\ pr \in Pointers  BY <2>2 DEF Entry
  <2> HIDE DEF nx, pr
  <2>4. /\ D[j] \in Entry /\ D[j].next = nx /\ D[j].previous = pr
        /\ D[j].size = E[j].size /\ D[j].deadline = E[j].deadline
    BY ZenonT(30), <2>1, <2>2, <2>3 DEF Entry
  <2> QED  BY Zenon, <2>4 DEF nx, pr
<1> HIDE DEF D
<1> SUFFICES /\ DOMAIN D = DOMAIN E /\ Sound(D) /\ SameData(D, E, DOMAIN E)
             /\ \A j \in DOMAIN E :
                  /\ D[j].next = IF E[k].previous = j THEN E[k].next ELSE E[j].next
                  /\ D[j].previous = IF E[k].next = j THEN E[k].previous ELSE E[j].previous
  BY Zenon DEF D
<1> QED  BY Zenon, <1>1, <1>2 DEF Sound, SameData

(* removeEntryLocked takes k out of the list and its size off the charge,  *)
(* and touches the data of no other entry.                                 *)
LEMMA RemovedEntry ==
  ASSUME NEW shard, Sound(shard.entries), NEW s, Chained(shard.entries, shard.recent, shard.oldest, s),
         NEW i \in 1..Len(s)
  PROVE  LET R == removeEntry(shard, s[i])
         IN  /\ Chained(R.entries, R.recent, R.oldest, Without(s, i))
             /\ DOMAIN R.entries = DOMAIN shard.entries \ {s[i]}
             /\ Sound(R.entries) /\ SameData(R.entries, shard.entries, DOMAIN R.entries)
             /\ R.bytes = shard.bytes - shard.entries[s[i]].size
<1> DEFINE k == s[i]
           E == shard.entries
           L == Unlinked(shard, k)
           D == Restrict(L, DOMAIN E \ {k})
           R == removeEntry(shard, k)
<1>1. k \in DOMAIN E  BY Zenon DEF Chained
<1>2. /\ DOMAIN L = DOMAIN E /\ Sound(L) /\ SameData(L, E, DOMAIN E)
      /\ \A j \in DOMAIN E :
           /\ L[j].next = IF E[k].previous = j THEN E[k].next ELSE E[j].next
           /\ L[j].previous = IF E[k].next = j THEN E[k].previous ELSE E[j].previous
  <2> HIDE DEF k
  <2> QED  BY Zenon, <1>1, UnlinkedFacts
<1>3. /\ R.entries = D /\ R.recent = (IF E[k].previous = Nil THEN E[k].next ELSE shard.recent)
      /\ R.oldest = (IF E[k].next = Nil THEN E[k].previous ELSE shard.oldest)
      /\ R.bytes = shard.bytes - E[k].size
  <2> HIDE DEF k, D
  <2> QED  BY DEF removeEntry, D
<1> HIDE DEF L, R
<1>4. DOMAIN D = DOMAIN E \ {k} /\ \A j \in DOMAIN D : D[j] = L[j]  BY Zenon DEF Restrict
<1> HIDE DEF D
<1>5. /\ \A j \in DOMAIN D :
           /\ D[j].next = IF E[k].previous = j THEN E[k].next ELSE E[j].next
           /\ D[j].previous = IF E[k].next = j THEN E[k].previous ELSE E[j].previous
      /\ Sound(D) /\ SameData(D, E, DOMAIN D)
  <2> HIDE DEF k
  <2> QED  BY ZenonT(30), <1>2, <1>4 DEF Sound, SameData
<1>6. Chained(D, IF E[k].previous = Nil THEN E[k].next ELSE shard.recent,
                 IF E[k].next = Nil THEN E[k].previous ELSE shard.oldest, Without(s, i))
  BY Zenon, <1>4, <1>5, Bypassed
<1> SUFFICES /\ Chained(R.entries, R.recent, R.oldest, Without(s, i))
             /\ DOMAIN R.entries = DOMAIN E \ {k}
             /\ Sound(R.entries) /\ SameData(R.entries, E, DOMAIN R.entries)
             /\ R.bytes = shard.bytes - E[k].size
  BY Zenon DEF R
<1> QED  BY Zenon, <1>3, <1>4, <1>5, <1>6

(* The record of the four fields.                                          *)
Fields(E, r, o, b) == [entries |-> E, recent |-> r, oldest |-> o, bytes |-> b]

(* The second half of markRecentLocked: an entry that the others no longer *)
(* point to goes to the front.                                             *)
LEMMA PushedEntry ==
  ASSUME NEW E, NEW r, NEW o, NEW b, Sound(E), NEW k \in DOMAIN E, r # k, r \in Pointers, NEW t,
         Chained(Restrict(Unlinked(Fields(E, r, o, b), k), DOMAIN E \ {k}), r,
                 IF E[k].next = Nil /\ o = k THEN E[k].previous ELSE o, t)
  PROVE  LET R == markRecent(Fields(E, r, o, b), k)
         IN  /\ Chained(R.entries, R.recent, R.oldest, Fronted(k, t))
             /\ DOMAIN R.entries = DOMAIN E /\ Sound(R.entries) /\ SameData(R.entries, E, DOMAIN E)
             /\ R.recent = k /\ R.bytes = b
<1> DEFINE shard == Fields(E, r, o, b)
           L == Unlinked(shard, k)
           M == Restrict(L, DOMAIN E \ {k})
           last == IF E[k].next = Nil /\ o = k THEN E[k].previous ELSE o
           D == [j \in DOMAIN L |->
                   CASE j = k -> [E[k] EXCEPT !.previous = Nil, !.next = r]
                     [] j = r -> [L[j] EXCEPT !.previous = k]
                     [] OTHER -> L[j]]
           R == markRecent(shard, k)
<1>1. shard.entries = E /\ shard.recent = r /\ shard.oldest = o /\ shard.bytes = b  BY DEF Fields
<1>2. R.entries = D /\ R.recent = k /\ R.oldest = (IF r = Nil THEN k ELSE last) /\ R.bytes = b
  <2>1. R = [shard EXCEPT !.entries = D, !.recent = k, !.oldest = IF r = Nil THEN k ELSE last]
    BY Zenon, <1>1 DEF markRecent
  <2> HIDE DEF D, last, L, R
  <2> QED  BY <2>1 DEF Fields
<1>3. DOMAIN L = DOMAIN E /\ Sound(L) /\ SameData(L, E, DOMAIN E)
  <2>1. Sound(shard.entries) /\ k \in DOMAIN shard.entries  BY Zenon, <1>1
  <2> HIDE DEF shard
  <2> QED  BY Zenon, <1>1, <2>1, UnlinkedFacts
<1> HIDE DEF L, R
<1>4. DOMAIN M = DOMAIN E \ {k} /\ \A j \in DOMAIN M : M[j] = L[j]  BY Zenon DEF Restrict
<1>5. k \in Keys /\ k \in Pointers /\ Nil \in Pointers /\ Nil \notin Keys /\ k # Nil
  BY Zenon, ShardAssumption DEF Sound, Pointers
<1>6. ASSUME NEW j \in DOMAIN E
      PROVE  /\ D[j] \in Entry /\ D[j].size = E[j].size /\ D[j].deadline = E[j].deadline
             /\ j = k => D[j].previous = Nil /\ D[j].next = r
             /\ j # k => /\ D[j].next = L[j].next
                         /\ D[j].previous = IF j = r THEN k ELSE L[j].previous
  <2>1. /\ L[j] \in Entry /\ L[j].size = E[j].size /\ L[j].deadline = E[j].deadline
        /\ E[j] \in Entry
    BY Zenon, <1>3 DEF Sound, SameData
  <2>2. CASE j = k
    <3>1. D[j] = [E[j] EXCEPT !.previous = Nil, !.next = r]  BY Zenon, <1>3, <2>2
    <3> HIDE DEF D
    <3> QED  BY ZenonT(30), <1>5, <2>1, <2>2, <3>1 DEF Entry
  <2>3. CASE j # k /\ j = r
    <3>1. D[j] = [L[j] EXCEPT !.previous = k]  BY Zenon, <1>3, <2>3
    <3> HIDE DEF D
    <3> QED  BY <1>5, <2>1, <2>3, <3>1 DEF Entry
  <2>4. CASE j # k /\ j # r
    <3>1. D[j] = L[j]  BY Zenon, <1>3, <2>4
    <3> HIDE DEF D
    <3> QED  BY Zenon, <2>1, <2>4, <3>1
  <2> QED  BY Zenon, <2>2, <2>3, <2>4
<1>7. DOMAIN D = DOMAIN E  BY Zenon, <1>3
<1>8. DOMAIN D = DOMAIN M \cup {k}  BY Zenon, <1>4, <1>7
<1> HIDE DEF D
<1>9. /\ D[k].previous = Nil /\ D[k].next = r
      /\ \A j \in DOMAIN M : /\ D[j].next = M[j].next
                             /\ D[j].previous = IF j = r THEN k ELSE M[j].previous
  <2> HIDE DEF M
  <2> QED  BY Zenon, <1>4, <1>6
<1>10. Chained(M, r, last, t) /\ k \notin DOMAIN M  BY Zenon, <1>4 DEF L
<1> HIDE DEF M, last
<1>11. Chained(D, k, IF r = Nil THEN k ELSE last, Fronted(k, t))
  BY SMTT(30), <1>5, <1>8, <1>9, <1>10, Pushed
<1>12. Sound(D) /\ SameData(D, E, DOMAIN E)  BY Zenon, <1>6, <1>7 DEF Sound, SameData
<1> SUFFICES /\ Chained(R.entries, R.recent, R.oldest, Fronted(k, t))
             /\ DOMAIN R.entries = DOMAIN E /\ Sound(R.entries) /\ SameData(R.entries, E, DOMAIN E)
             /\ R.recent = k /\ R.bytes = b
  BY Zenon DEF R
<1> QED  BY Zenon, <1>2, <1>7, <1>11, <1>12

(* Taking out the first element and putting it back in front changes       *)
(* nothing.                                                                *)
LEMMA FirstInFront ==
  ASSUME NEW s \in Seq(Keys), Len(s) > 0
  PROVE  Fronted(s[1], Without(s, 1)) = s
<1> DEFINE u == Without(s, 1)
           n == Len(s)
<1>1. n \in Nat /\ 1 \in 1..n /\ s[1] \in Keys  OBVIOUS
<1>2. /\ u \in Seq(Keys) /\ Len(u) = n - 1
      /\ \A m \in 1..(n - 1) : m >= 1 => u[m] = s[m + 1]
  BY Zenon, <1>1, WithoutFacts
<1> HIDE DEF u
<1>3. /\ Fronted(s[1], u) \in Seq(Keys) /\ Len(Fronted(s[1], u)) = Len(u) + 1
      /\ Fronted(s[1], u)[1] = s[1]
      /\ \A m \in 2..(Len(u) + 1) : Fronted(s[1], u)[m] = u[m - 1]
  BY Zenon, <1>1, <1>2, FrontedFacts
<1> DEFINE t == Fronted(s[1], u)
<1>4. t \in Seq(Keys) /\ Len(t) = n /\ t[1] = s[1]  BY <1>1, <1>2, <1>3
<1>5. ASSUME NEW m \in 1..n  PROVE t[m] = s[m]
  <2>1. CASE m = 1
    <3> QED  BY Zenon, <1>4, <2>1
  <2>2. CASE m # 1
    <3>1. m \in 2..(Len(u) + 1) /\ m - 1 \in 1..(n - 1) /\ m - 1 >= 1 /\ (m - 1) + 1 = m
      BY <1>1, <1>2, <2>2
    <3> QED  BY Zenon, <1>2, <1>3, <3>1
  <2> QED  BY Zenon, <2>1, <2>2
<1> HIDE DEF t
<1>6. t = s  BY <1>4, <1>5
<1> QED  BY Zenon, <1>6 DEF t, u

(* markRecentLocked brings an entry of the list to its front.              *)
LEMMA MarkedRecent ==
  ASSUME NEW E, NEW r, NEW o, NEW b, Sound(E), NEW s, Chained(E, r, o, s), NEW i \in 1..Len(s)
  PROVE  LET R == markRecent(Fields(E, r, o, b), s[i])
         IN  /\ Chained(R.entries, R.recent, R.oldest, Fronted(s[i], Without(s, i)))
             /\ DOMAIN R.entries = DOMAIN E /\ Sound(R.entries) /\ SameData(R.entries, E, DOMAIN E)
             /\ R.recent = s[i] /\ R.bytes = b
<1> DEFINE shard == Fields(E, r, o, b)
           k == s[i]
           n == Len(s)
           R == markRecent(shard, k)
<1>1. /\ s \in Seq(Keys) /\ n \in Nat /\ n > 0 /\ 1 \in 1..n /\ n \in 1..n
      /\ \A m \in 1..n : s[m] \in Keys /\ s[m] # Nil
  BY ShardAssumption DEF Chained
<1>2. /\ \A a, c \in 1..n : s[a] = s[c] => a = c
      /\ k \in DOMAIN E
      /\ E[k].previous = (IF i = 1 THEN Nil ELSE s[i - 1])
      /\ E[k].next = (IF i = n THEN Nil ELSE s[i + 1])
  BY Zenon DEF Chained
<1>3. r = s[1] /\ o = s[n]  BY SMTT(30), <1>1 DEF Chained
<1>4. shard.entries = E /\ shard.recent = r /\ shard.oldest = o /\ shard.bytes = b  BY DEF Fields
<1> SUFFICES /\ Chained(R.entries, R.recent, R.oldest, Fronted(k, Without(s, i)))
             /\ DOMAIN R.entries = DOMAIN E /\ Sound(R.entries) /\ SameData(R.entries, E, DOMAIN E)
             /\ R.recent = k /\ R.bytes = b
  BY Zenon
<1>5. CASE r = k
  <2>1. R = shard  BY Zenon, <1>4, <1>5 DEF markRecent
  <2>2. i = 1  BY Zenon, <1>1, <1>2, <1>3, <1>5
  <2>3. Fronted(k, Without(s, i)) = s  BY Zenon, <1>1, <2>2, FirstInFront
  <2>4. SameData(E, E, DOMAIN E)  BY Zenon DEF SameData
  <2> HIDE DEF R, shard
  <2> QED  BY Zenon, <1>4, <1>5, <2>1, <2>3, <2>4
<1>6. CASE r # k
  <2> DEFINE L == Unlinked(shard, k)
             M == Restrict(L, DOMAIN E \ {k})
             last == IF E[k].next = Nil /\ o = k THEN E[k].previous ELSE o
  <2>1. i # 1 /\ E[k].previous # Nil
    <3>1. i # 1  BY Zenon, <1>3, <1>6
    <3>2. i - 1 \in 1..n  BY <1>1, <3>1
    <3> QED  BY Zenon, <1>1, <1>2, <3>1, <3>2
  <2>2. E[k].next = Nil <=> i = n
    <3>1. i # n => i + 1 \in 1..n  BY <1>1
    <3> QED  BY Zenon, <1>1, <1>2, <3>1
  <2>3. last = IF E[k].next = Nil THEN E[k].previous ELSE o
    <3> HIDE DEF k
    <3> QED  BY Zenon, <1>3, <2>2 DEF k
  <2>4. /\ DOMAIN L = DOMAIN E
        /\ \A j \in DOMAIN E :
             /\ L[j].next = IF E[k].previous = j THEN E[k].next ELSE E[j].next
             /\ L[j].previous = IF E[k].next = j THEN E[k].previous ELSE E[j].previous
    <3>1. Sound(shard.entries) /\ k \in DOMAIN shard.entries  BY Zenon, <1>2, <1>4
    <3> HIDE DEF k, shard
    <3>2. /\ DOMAIN L = DOMAIN shard.entries
          /\ \A j \in DOMAIN shard.entries :
               /\ L[j].next = IF shard.entries[k].previous = j THEN shard.entries[k].next
                              ELSE shard.entries[j].next
               /\ L[j].previous = IF shard.entries[k].next = j THEN shard.entries[k].previous
                                  ELSE shard.entries[j].previous
      BY Zenon, <3>1, UnlinkedFacts
    <3> QED  BY Zenon, <1>4, <3>2
  <2> HIDE DEF L
  <2>5. DOMAIN M = DOMAIN E \ {k} /\ \A j \in DOMAIN M : M[j] = L[j]  BY Zenon DEF Restrict
  <2> HIDE DEF M
  <2>6. \A j \in DOMAIN M :
          /\ M[j].next = IF E[k].previous = j THEN E[k].next ELSE E[j].next
          /\ M[j].previous = IF E[k].next = j THEN E[k].previous ELSE E[j].previous
    <3> HIDE DEF k
    <3> QED  BY Zenon, <2>4, <2>5
  <2>7. Chained(M, IF E[k].previous = Nil THEN E[k].next ELSE r,
                   IF E[k].next = Nil THEN E[k].previous ELSE o, Without(s, i))
    BY Zenon, <2>5, <2>6, Bypassed
  <2>8. Chained(M, r, last, Without(s, i))  BY Zenon, <2>1, <2>3, <2>7
  <2>9. r \in Pointers  BY Zenon, <1>1, <1>3 DEF Pointers
  <2> HIDE DEF k
  <2>10. Chained(Restrict(Unlinked(Fields(E, r, o, b), k), DOMAIN E \ {k}), r,
                 IF E[k].next = Nil /\ o = k THEN E[k].previous ELSE o, Without(s, i))
    BY Zenon, <2>8 DEF M, L
  <2>11. k \in DOMAIN E /\ r # k  BY Zenon, <1>2, <1>6
  <2> QED  BY SMTT(30), <2>9, <2>10, <2>11, PushedEntry
<1> QED  BY Zenon, <1>5, <1>6

(* The list depends on the pointers only.                                  *)
LEMMA SamePointers ==
  ASSUME NEW E, NEW r, NEW o, NEW s, Chained(E, r, o, s), NEW D, DOMAIN D = DOMAIN E,
         \A j \in DOMAIN E : D[j].previous = E[j].previous /\ D[j].next = E[j].next
  PROVE  Chained(D, r, o, s)
<1>1. \A i \in 1..Len(s) : s[i] \in DOMAIN E  BY Zenon DEF Chained
<1>2. ASSUME NEW i \in 1..Len(s)
      PROVE  /\ D[s[i]].previous = IF i = 1 THEN Nil ELSE s[i - 1]
             /\ D[s[i]].next = IF i = Len(s) THEN Nil ELSE s[i + 1]
  <2>1. D[s[i]].previous = E[s[i]].previous /\ D[s[i]].next = E[s[i]].next  BY Zenon, <1>1
  <2> QED  BY Zenon, <2>1 DEF Chained
<1> QED  BY Zenon, <1>2 DEF Chained

(* The ends of the list are entries, or nil when there is none.            *)
LEMMA ChainEnds ==
  ASSUME NEW E, NEW r, NEW o, NEW s, Chained(E, r, o, s)
  PROVE  /\ r \in Pointers /\ o \in Pointers
         /\ r # Nil => r \in DOMAIN E
         /\ o # Nil => o \in DOMAIN E
         /\ DOMAIN E # {} => r # Nil /\ o # Nil
         /\ DOMAIN E \subseteq Keys
<1>1. /\ s \in Seq(Keys) /\ Len(s) \in Nat
      /\ \A m \in 1..Len(s) : s[m] \in Keys /\ s[m] # Nil /\ s[m] \in DOMAIN E
  BY ShardAssumption DEF Chained
<1>2. Len(s) # 0 => 1 \in 1..Len(s) /\ Len(s) \in 1..Len(s)  BY <1>1
<1>3. /\ r = (IF Len(s) = 0 THEN Nil ELSE s[1]) /\ o = (IF Len(s) = 0 THEN Nil ELSE s[Len(s)])
      /\ \A k \in DOMAIN E : \E i \in 1..Len(s) : s[i] = k
  BY Zenon DEF Chained
<1>4. CASE Len(s) = 0
  <2>1. \A i \in 1..Len(s) : FALSE  BY <1>4
  <2> QED  BY Zenon, <1>1, <1>3, <1>4, <2>1 DEF Pointers
<1>5. CASE Len(s) # 0
  <2> QED  BY Zenon, <1>1, <1>2, <1>3, <1>5 DEF Pointers
<1> QED  BY Zenon, <1>4, <1>5

(* What a write replaces.                                                  *)
OldSize(E, k) == IF k \in DOMAIN E THEN E[k].size ELSE 0

(* The charge after a write.                                               *)
Recharged(E, b, k, size) == b - OldSize(E, k) + size

(* What a write leaves in the shard.                                       *)
Wrote(R, E, b, k, size, deadline) ==
  /\ DOMAIN R.entries = DOMAIN E \cup {k} /\ Sound(R.entries)
  /\ SameData(R.entries, E, DOMAIN E \ {k})
  /\ R.entries[k].size = size /\ R.entries[k].deadline = deadline
  /\ R.recent = k /\ R.bytes = Recharged(E, b, k, size)

(* The entries with the one a write works on: with the pointers it had or  *)
(* with none.                                                              *)
Current(E, k, size, deadline) ==
  LET old == IF k \in DOMAIN E THEN E[k]
             ELSE [size |-> 0, deadline |-> 0, previous |-> Nil, next |-> Nil]
      current == [old EXCEPT !.size = size, !.deadline = deadline]
  IN  [j \in DOMAIN E \cup {k} |-> IF j = k THEN current ELSE E[j]]

(* What the entry a write works on is.                                     *)
IsCurrent(D, E, k, size, deadline) ==
  /\ DOMAIN D = DOMAIN E \cup {k} /\ Sound(D)
  /\ \A j \in DOMAIN E \ {k} : D[j] = E[j]
  /\ D[k].size = size /\ D[k].deadline = deadline
  /\ k \in DOMAIN E => D[k].previous = E[k].previous /\ D[k].next = E[k].next
  /\ k \notin DOMAIN E => D[k].previous = Nil /\ D[k].next = Nil

(* The entry a write works on.                                             *)
LEMMA CurrentEntry ==
  ASSUME NEW E, Sound(E), NEW k \in Keys, NEW size \in Sizes, NEW deadline \in Deadlines
  PROVE  IsCurrent(Current(E, k, size, deadline), E, k, size, deadline)
<1> DEFINE old == IF k \in DOMAIN E THEN E[k]
                  ELSE [size |-> 0, deadline |-> 0, previous |-> Nil, next |-> Nil]
           current == [old EXCEPT !.size = size, !.deadline = deadline]
           D == Current(E, k, size, deadline)
<1>1. D = [j \in DOMAIN E \cup {k} |-> IF j = k THEN current ELSE E[j]]  BY Zenon DEF Current
<1>2. /\ current.size = size /\ current.deadline = deadline
      /\ current.previous = old.previous /\ current.next = old.next
      /\ current \in Entry
      /\ k \notin DOMAIN E => old.previous = Nil /\ old.next = Nil
  <2>1. CASE k \in DOMAIN E
    <3>1. old = E[k] /\ E[k] \in Entry  BY Zenon, <2>1 DEF Sound
    <3> HIDE DEF old
    <3> QED  BY ZenonT(30), <2>1, <3>1 DEF Entry
  <2>2. CASE k \notin DOMAIN E
    <3>1. old = [size |-> 0, deadline |-> 0, previous |-> Nil, next |-> Nil]  BY Zenon, <2>2
    <3> HIDE DEF old
    <3> QED  BY ZenonT(30), <2>2, <3>1 DEF Entry, Pointers
  <2> QED  BY Zenon, <2>1, <2>2
<1> HIDE DEF current, D
<1>3. DOMAIN D = DOMAIN E \cup {k} /\ D[k] = current /\ \A j \in DOMAIN E \ {k} : D[j] = E[j]
  BY Zenon, <1>1
<1>4. Sound(D)
  <2>1. DOMAIN E \subseteq Keys /\ \A j \in DOMAIN E : E[j] \in Entry  BY Zenon DEF Sound
  <2>2. ASSUME NEW j \in DOMAIN D  PROVE D[j] \in Entry /\ j \in Keys
    <3>1. CASE j = k
      <4> QED  BY Zenon, <1>2, <1>3, <3>1
    <3>2. CASE j # k
      <4> QED  BY Zenon, <1>3, <2>1, <3>2
    <3> QED  BY Zenon, <3>1, <3>2
  <2> QED  BY Zenon, <2>2 DEF Sound
<1>5. k \in DOMAIN E => D[k].previous = E[k].previous /\ D[k].next = E[k].next  BY Zenon, <1>2, <1>3
<1>6. k \notin DOMAIN E => D[k].previous = Nil /\ D[k].next = Nil  BY Zenon, <1>2, <1>3
<1>7. D[k].size = size /\ D[k].deadline = deadline  BY Zenon, <1>2, <1>3
<1> QED  BY Zenon, <1>3, <1>4, <1>5, <1>6, <1>7 DEF D, IsCurrent

(* setEntryLocked fills in the entry and then marks it recent.             *)
LEMMA SetMarksRecent ==
  ASSUME NEW E, NEW r, NEW o, NEW b, NEW k, NEW size, NEW deadline
  PROVE  setEntry(Fields(E, r, o, b), k, size, deadline)
           = markRecent(Fields(Current(E, k, size, deadline), r, o, Recharged(E, b, k, size)), k)
<1> DEFINE shard == Fields(E, r, o, b)
           old == IF k \in DOMAIN E THEN E[k]
                  ELSE [size |-> 0, deadline |-> 0, previous |-> Nil, next |-> Nil]
           D == Current(E, k, size, deadline)
           c == Recharged(E, b, k, size)
           u == [shard EXCEPT !.entries = D, !.bytes = c]
           v == Fields(D, r, o, c)
<1>1. shard.entries = E /\ shard.bytes = b  BY DEF Fields
<1>2. old.size = OldSize(E, k)
  <2>1. CASE k \in DOMAIN E
    <3> QED  BY Zenon, <2>1 DEF OldSize
  <2>2. CASE k \notin DOMAIN E
    <3>1. old = [size |-> 0, deadline |-> 0, previous |-> Nil, next |-> Nil]  BY Zenon, <2>2
    <3> HIDE DEF old
    <3> QED  BY <2>2, <3>1 DEF OldSize
  <2> QED  BY Zenon, <2>1, <2>2
<1>3. setEntry(shard, k, size, deadline)
        = markRecent([shard EXCEPT !.entries = D, !.bytes = b - old.size + size], k)
  BY Zenon, <1>1 DEF setEntry, Current
<1>4. b - old.size + size = c  BY Zenon, <1>2 DEF Recharged
<1> HIDE DEF old, c, D
<1>5. u = v
  <2>1. /\ DOMAIN u = {"entries", "recent", "oldest", "bytes"}
        /\ DOMAIN v = {"entries", "recent", "oldest", "bytes"}
        /\ u.entries = v.entries /\ u.recent = v.recent /\ u.oldest = v.oldest /\ u.bytes = v.bytes
    BY DEF Fields
  <2>2. u = [x \in DOMAIN u |-> u[x]] /\ v = [x \in DOMAIN v |-> v[x]]  BY ZenonT(30) DEF Fields
  <2> HIDE DEF u, v
  <2>3. \A x \in DOMAIN u : u[x] = v[x]  BY <2>1
  <2> QED  BY Zenon, <2>1, <2>2, <2>3
<1> QED  BY Zenon, <1>3, <1>4, <1>5 DEF D, c

(* A write of a key that is held brings its entry to the front.            *)
LEMMA Overwritten ==
  ASSUME NEW E, NEW r, NEW o, NEW b, Sound(E), NEW s, Chained(E, r, o, s), NEW i \in 1..Len(s),
         NEW size \in Sizes, NEW deadline \in Deadlines
  PROVE  LET R == setEntry(Fields(E, r, o, b), s[i], size, deadline)
         IN  /\ Chained(R.entries, R.recent, R.oldest, Fronted(s[i], Without(s, i)))
             /\ Wrote(R, E, b, s[i], size, deadline)
<1> DEFINE k == s[i]
           c == Recharged(E, b, k, size)
           R == setEntry(Fields(E, r, o, b), k, size, deadline)
<1>1. k \in DOMAIN E /\ k \in Keys  BY Zenon DEF Chained, Sound
<1> DEFINE D == Current(E, k, size, deadline)
<1>2. /\ R = markRecent(Fields(D, r, o, c), k)
      /\ DOMAIN D = DOMAIN E \cup {k} /\ Sound(D)
      /\ \A j \in DOMAIN E \ {k} : D[j] = E[j]
      /\ D[k].size = size /\ D[k].deadline = deadline
      /\ k \in DOMAIN E => D[k].previous = E[k].previous /\ D[k].next = E[k].next
  <2> HIDE DEF k
  <2>1. R = markRecent(Fields(D, r, o, c), k)  BY SMTT(30), SetMarksRecent
  <2>2. IsCurrent(D, E, k, size, deadline)  BY SMTT(30), <1>1, CurrentEntry
  <2> QED  BY Zenon, <1>1, <2>1, <2>2 DEF IsCurrent
<1> HIDE DEF D
<1>3. DOMAIN D = DOMAIN E  BY Zenon, <1>1, <1>2
<1>4. \A j \in DOMAIN E : D[j].previous = E[j].previous /\ D[j].next = E[j].next
  <2> HIDE DEF k
  <2> QED  BY Zenon, <1>1, <1>2
<1>5. Chained(D, r, o, s)  BY Zenon, <1>3, <1>4, SamePointers
<1>6. /\ Chained(R.entries, R.recent, R.oldest, Fronted(k, Without(s, i)))
      /\ DOMAIN R.entries = DOMAIN D /\ Sound(R.entries) /\ SameData(R.entries, D, DOMAIN D)
      /\ R.recent = k /\ R.bytes = c
  <2>1. Sound(D)  BY Zenon, <1>2
  <2>2. LET Q == markRecent(Fields(D, r, o, c), s[i])
        IN  /\ Chained(Q.entries, Q.recent, Q.oldest, Fronted(s[i], Without(s, i)))
            /\ DOMAIN Q.entries = DOMAIN D /\ Sound(Q.entries) /\ SameData(Q.entries, D, DOMAIN D)
            /\ Q.recent = s[i] /\ Q.bytes = c
    <3> HIDE DEF c
    <3> QED  BY SMTT(30), <1>5, <2>1, MarkedRecent
  <2> QED  BY Zenon, <1>2, <2>2
<1> HIDE DEF R
<1>7. Wrote(R, E, b, k, size, deadline)
  <2>1. SameData(R.entries, E, DOMAIN E \ {k}) /\ R.entries[k].size = size /\ R.entries[k].deadline = deadline
    <3> HIDE DEF k
    <3> QED  BY Zenon, <1>1, <1>2, <1>3, <1>6 DEF SameData
  <2>2. DOMAIN R.entries = DOMAIN E \cup {k}  BY Zenon, <1>2, <1>6
  <2> QED  BY Zenon, <1>6, <2>1, <2>2 DEF Wrote
<1> QED  BY Zenon, <1>6, <1>7 DEF R

(* A write of a new key puts a new entry in front of the list.             *)
LEMMA Inserted ==
  ASSUME NEW E, NEW r, NEW o, NEW b, Sound(E), NEW s, Chained(E, r, o, s), NEW k \in Keys \ DOMAIN E,
         NEW size \in Sizes, NEW deadline \in Deadlines
  PROVE  LET R == setEntry(Fields(E, r, o, b), k, size, deadline)
         IN  /\ Chained(R.entries, R.recent, R.oldest, Fronted(k, s))
             /\ Wrote(R, E, b, k, size, deadline)
<1> DEFINE c == Recharged(E, b, k, size)
           R == setEntry(Fields(E, r, o, b), k, size, deadline)
<1>1. k \in Keys /\ k \notin DOMAIN E /\ k # Nil  BY Zenon, ShardAssumption
<1> DEFINE D == Current(E, k, size, deadline)
<1>2. /\ R = markRecent(Fields(D, r, o, c), k)
      /\ DOMAIN D = DOMAIN E \cup {k} /\ Sound(D)
      /\ \A j \in DOMAIN E \ {k} : D[j] = E[j]
      /\ D[k].size = size /\ D[k].deadline = deadline
      /\ D[k].previous = Nil /\ D[k].next = Nil
  <2>1. R = markRecent(Fields(D, r, o, c), k)  BY SMTT(30), SetMarksRecent
  <2>2. IsCurrent(D, E, k, size, deadline)  BY SMTT(30), <1>1, CurrentEntry
  <2> QED  BY Zenon, <1>1, <2>1, <2>2 DEF IsCurrent
<1> HIDE DEF D
<1>3. r # k /\ o # k /\ r \in Pointers /\ DOMAIN E \subseteq Keys  BY Zenon, <1>1, ChainEnds
<1> DEFINE shard == Fields(D, r, o, c)
           L == Unlinked(shard, k)
           M == Restrict(L, DOMAIN D \ {k})
<1>4. shard.entries = D  BY DEF Fields
<1>5. /\ DOMAIN L = DOMAIN D
      /\ \A j \in DOMAIN D :
           /\ L[j].next = IF D[k].previous = j THEN D[k].next ELSE D[j].next
           /\ L[j].previous = IF D[k].next = j THEN D[k].previous ELSE D[j].previous
  <2>1. Sound(shard.entries) /\ k \in DOMAIN shard.entries  BY Zenon, <1>2, <1>4
  <2> HIDE DEF shard
  <2>2. /\ DOMAIN L = DOMAIN shard.entries
        /\ \A j \in DOMAIN shard.entries :
             /\ L[j].next = IF shard.entries[k].previous = j THEN shard.entries[k].next
                            ELSE shard.entries[j].next
             /\ L[j].previous = IF shard.entries[k].next = j THEN shard.entries[k].previous
                                ELSE shard.entries[j].previous
    BY Zenon, <2>1, UnlinkedFacts
  <2> QED  BY Zenon, <1>4, <2>2
<1> HIDE DEF L
<1>6. DOMAIN M = DOMAIN D \ {k} /\ \A j \in DOMAIN M : M[j] = L[j]  BY Zenon DEF Restrict
<1> HIDE DEF M
<1>7. DOMAIN M = DOMAIN E  BY Zenon, <1>1, <1>2, <1>6
<1>8. ASSUME NEW j \in DOMAIN E  PROVE M[j].previous = E[j].previous /\ M[j].next = E[j].next
  <2>1. j # k /\ j # Nil /\ j \in DOMAIN D /\ D[j] = E[j] /\ M[j] = L[j]
    BY Zenon, <1>1, <1>2, <1>3, <1>6, <1>7, ShardAssumption
  <2> QED  BY Zenon, <1>1, <1>2, <1>5, <2>1
<1>9. Chained(M, r, o, s)  BY Zenon, <1>7, <1>8, SamePointers
<1>10. Chained(Restrict(Unlinked(Fields(D, r, o, c), k), DOMAIN D \ {k}), r,
               IF D[k].next = Nil /\ o = k THEN D[k].previous ELSE o, s)
  BY Zenon, <1>3, <1>9 DEF M, L
<1>11. /\ Chained(R.entries, R.recent, R.oldest, Fronted(k, s))
       /\ DOMAIN R.entries = DOMAIN D /\ Sound(R.entries) /\ SameData(R.entries, D, DOMAIN D)
       /\ R.recent = k /\ R.bytes = c
  <2>1. Sound(D) /\ k \in DOMAIN D  BY Zenon, <1>2
  <2>2. LET Q == markRecent(Fields(D, r, o, c), k)
        IN  /\ Chained(Q.entries, Q.recent, Q.oldest, Fronted(k, s))
            /\ DOMAIN Q.entries = DOMAIN D /\ Sound(Q.entries) /\ SameData(Q.entries, D, DOMAIN D)
            /\ Q.recent = k /\ Q.bytes = c
    <3> HIDE DEF c
    <3> QED  BY SMTT(30), <1>3, <1>10, <2>1, PushedEntry
  <2> QED  BY Zenon, <1>2, <2>2
<1> HIDE DEF R
<1>12. Wrote(R, E, b, k, size, deadline)
  <2>1. SameData(R.entries, E, DOMAIN E \ {k}) /\ R.entries[k].size = size /\ R.entries[k].deadline = deadline
    BY Zenon, <1>2, <1>11 DEF SameData
  <2>2. DOMAIN R.entries = DOMAIN E \cup {k}  BY Zenon, <1>2, <1>11
  <2> QED  BY Zenon, <1>11, <2>1, <2>2 DEF Wrote
<1> QED  BY Zenon, <1>11, <1>12 DEF R

-----------------------------------------------------------------------------
(* Sums.                                                                   *)

(* The recursion by which the fold adds up the values of f: g[s] is the    *)
(* sum over s.                                                             *)
Chosen(s) == CHOOSE x \in s : TRUE
Adds(g, f, T) ==
  g = [s \in SUBSET T |-> IF s = {} THEN 0 ELSE f[Chosen(s)] + g[s \ {Chosen(s)}]]

-----------------------------------------------------------------------------
(* The four fields together.                                               *)

Charges(E) == [k \in DOMAIN E |-> E[k].size]

(* The entries are sound, s lists them and b is what they weigh.           *)
Whole(E, r, o, b, s) == Sound(E) /\ Chained(E, r, o, s) /\ b = SumFunction(Charges(E)) /\ b \in Nat
WholeShard(R, s) == Whole(R.entries, R.recent, R.oldest, R.bytes, s)

(* Charges add up: an entry weighs something, and what is left without it  *)
(* weighs so much less; nothing weighs nothing.                            *)
ChargesAdd ==
  /\ \A f : DOMAIN f = {} => SumFunction(f) = 0
  /\ \A E, D : \A k \in DOMAIN E :
       Sound(E) /\ DOMAIN D = DOMAIN E \ {k} /\ (\A j \in DOMAIN D : D[j].size = E[j].size)
         => /\ SumFunction(Charges(E)) = E[k].size + SumFunction(Charges(D))
            /\ SumFunction(Charges(E)) \in Nat /\ SumFunction(Charges(D)) \in Nat
            /\ E[k].size \in Nat /\ E[k].size > 0

(* The charge depends on the sizes only.                                   *)
LEMMA SameCharges ==
  ASSUME NEW E, NEW D, DOMAIN D = DOMAIN E, \A j \in DOMAIN E : D[j].size = E[j].size
  PROVE  Charges(D) = Charges(E)
  BY Zenon DEF Charges

(* removeEntryLocked keeps the shard whole.                                *)
LEMMA RemovedWhole ==
  ASSUME ChargesAdd, NEW E, NEW r, NEW o, NEW b, NEW s, Whole(E, r, o, b, s), NEW i \in 1..Len(s)
  PROVE  LET R == removeEntry(Fields(E, r, o, b), s[i])
         IN  /\ WholeShard(R, Without(s, i))
             /\ DOMAIN R.entries = DOMAIN E \ {s[i]} /\ SameData(R.entries, E, DOMAIN R.entries)
             /\ b = E[s[i]].size + R.bytes /\ E[s[i]].size \in Nat /\ E[s[i]].size > 0
             /\ s[i] \in DOMAIN E
<1> DEFINE shard == Fields(E, r, o, b)
           k == s[i]
           R == removeEntry(shard, k)
<1>1. shard.entries = E /\ shard.recent = r /\ shard.oldest = o /\ shard.bytes = b  BY DEF Fields
<1>2. /\ Sound(E) /\ Chained(E, r, o, s) /\ b = SumFunction(Charges(E)) /\ b \in Nat /\ k \in DOMAIN E
  BY Zenon DEF Whole, Chained
<1>3. /\ Chained(R.entries, R.recent, R.oldest, Without(s, i))
      /\ DOMAIN R.entries = DOMAIN E \ {k}
      /\ Sound(R.entries) /\ SameData(R.entries, E, DOMAIN R.entries)
      /\ R.bytes = b - E[k].size
  <2>1. Sound(shard.entries) /\ Chained(shard.entries, shard.recent, shard.oldest, s)  BY ZenonT(30), <1>1, <1>2
  <2> HIDE DEF shard
  <2>2. /\ Chained(R.entries, R.recent, R.oldest, Without(s, i))
        /\ DOMAIN R.entries = DOMAIN shard.entries \ {k}
        /\ Sound(R.entries) /\ SameData(R.entries, shard.entries, DOMAIN R.entries)
        /\ R.bytes = shard.bytes - shard.entries[k].size
    BY SMTT(30), <2>1, RemovedEntry
  <2> QED  BY Zenon, <1>1, <2>2
<1> HIDE DEF R, k
<1>4. /\ SumFunction(Charges(E)) = E[k].size + SumFunction(Charges(R.entries))
      /\ SumFunction(Charges(R.entries)) \in Nat /\ E[k].size \in Nat /\ E[k].size > 0
  <2>1. \A j \in DOMAIN R.entries : R.entries[j].size = E[j].size  BY Zenon, <1>3 DEF SameData
  <2> DEFINE D == R.entries
  <2>2. DOMAIN D = DOMAIN E \ {k} /\ \A j \in DOMAIN D : D[j].size = E[j].size  BY Zenon, <1>3, <2>1
  <2> HIDE DEF D
  <2>3. /\ SumFunction(Charges(E)) = E[k].size + SumFunction(Charges(D))
        /\ SumFunction(Charges(D)) \in Nat /\ E[k].size \in Nat /\ E[k].size > 0
    BY ZenonT(30), <1>2, <2>2 DEF ChargesAdd
  <2> QED  BY Zenon, <2>3 DEF D
<1>5. R.bytes = SumFunction(Charges(R.entries)) /\ b = E[k].size + R.bytes
  <2> DEFINE x == SumFunction(Charges(E))
             y == SumFunction(Charges(R.entries))
             z == E[k].size
  <2>1. b = x /\ x = z + y /\ y \in Nat /\ z \in Nat /\ R.bytes = b - z  BY Zenon, <1>2, <1>3, <1>4
  <2> HIDE DEF x, y, z
  <2>2. R.bytes = y /\ b = z + R.bytes  BY <2>1
  <2> QED  BY Zenon, <2>2 DEF y, z
<1>6. WholeShard(R, Without(s, i))  BY Zenon, <1>3, <1>4, <1>5 DEF WholeShard, Whole
<1> QED  BY Zenon, <1>2, <1>3, <1>4, <1>5, <1>6 DEF R, k

(* The shard after markRecentLocked of the entry at place i: whole, with   *)
(* that entry in front.                                                    *)
Marked(E, r, o, b, s, i) ==
  LET R == markRecent(Fields(E, r, o, b), s[i])
  IN  /\ WholeShard(R, Fronted(s[i], Without(s, i)))
      /\ DOMAIN R.entries = DOMAIN E /\ SameData(R.entries, E, DOMAIN E)
      /\ R.recent = s[i] /\ R.bytes = b

(* markRecentLocked keeps the shard whole.                                 *)
LEMMA MarkedWhole ==
  ASSUME NEW E, NEW r, NEW o, NEW b, NEW s, Whole(E, r, o, b, s), NEW i \in 1..Len(s)
  PROVE  Marked(E, r, o, b, s, i)
<1> DEFINE R == markRecent(Fields(E, r, o, b), s[i])
<1>1. Sound(E) /\ Chained(E, r, o, s) /\ b = SumFunction(Charges(E)) /\ b \in Nat  BY ZenonT(30) DEF Whole
<1>2. /\ Chained(R.entries, R.recent, R.oldest, Fronted(s[i], Without(s, i)))
      /\ DOMAIN R.entries = DOMAIN E /\ Sound(R.entries) /\ SameData(R.entries, E, DOMAIN E)
      /\ R.recent = s[i] /\ R.bytes = b
  BY SMTT(30), <1>1, MarkedRecent
<1> HIDE DEF R
<1>3. Charges(R.entries) = Charges(E)  BY Zenon, <1>2, SameCharges DEF SameData
<1>4. WholeShard(R, Fronted(s[i], Without(s, i)))  BY Zenon, <1>1, <1>2, <1>3 DEF WholeShard, Whole
<1> QED  BY Zenon, <1>2, <1>4 DEF R, Marked

(* The list without the entry of k, if it has one.                         *)
Rest(s, k) ==
  LET p == CHOOSE i \in 1..Len(s) : s[i] = k
  IN  IF \E i \in 1..Len(s) : s[i] = k THEN Without(s, p) ELSE s

(* Rest takes one element out of a list that holds k, and is the list if   *)
(* it does not.                                                            *)
LEMMA RestFacts ==
  ASSUME NEW E, NEW r, NEW o, NEW s, Chained(E, r, o, s), NEW k
  PROVE  /\ k \notin DOMAIN E => Rest(s, k) = s
         /\ k \in DOMAIN E => \E i \in 1..Len(s) : s[i] = k /\ Rest(s, k) = Without(s, i)
<1>1. ASSUME k \notin DOMAIN E  PROVE Rest(s, k) = s
  <2>1. \A i \in 1..Len(s) : s[i] \in DOMAIN E  BY Zenon DEF Chained
  <2>2. ~ \E i \in 1..Len(s) : s[i] = k  BY Zenon, <1>1, <2>1
  <2> QED  BY Zenon, <2>2 DEF Rest
<1>2. ASSUME k \in DOMAIN E
      PROVE  \E i \in 1..Len(s) : s[i] = k /\ Rest(s, k) = Without(s, i)
  <2> DEFINE p == CHOOSE i \in 1..Len(s) : s[i] = k
  <2>1. \E i \in 1..Len(s) : s[i] = k  BY Zenon, <1>2 DEF Chained
  <2>2. p \in 1..Len(s) /\ s[p] = k  BY Zenon, <2>1
  <2>3. Rest(s, k) = Without(s, p)  BY Zenon, <2>1 DEF Rest
  <2> QED  BY Zenon, <2>2, <2>3
<1> QED  BY Zenon, <1>1, <1>2

(* setEntryLocked keeps the shard whole.                                   *)
LEMMA WrittenWhole ==
  ASSUME ChargesAdd, NEW E, NEW r, NEW o, NEW b, NEW s, Whole(E, r, o, b, s), NEW k \in Keys,
         NEW size \in Sizes, NEW deadline \in Deadlines
  PROVE  LET R == setEntry(Fields(E, r, o, b), k, size, deadline)
         IN  WholeShard(R, Fronted(k, Rest(s, k))) /\ Wrote(R, E, b, k, size, deadline) /\ R.bytes <= b + size
<1> DEFINE R == setEntry(Fields(E, r, o, b), k, size, deadline)
<1>1. Sound(E) /\ Chained(E, r, o, s) /\ b = SumFunction(Charges(E)) /\ b \in Nat  BY Zenon DEF Whole
<1>2. Chained(R.entries, R.recent, R.oldest, Fronted(k, Rest(s, k))) /\ Wrote(R, E, b, k, size, deadline)
  <2>1. CASE k \in DOMAIN E
    <3>1. PICK i \in 1..Len(s) : s[i] = k /\ Rest(s, k) = Without(s, i)  BY SMTT(30), <1>1, <2>1, RestFacts
    <3>2. LET Q == setEntry(Fields(E, r, o, b), s[i], size, deadline)
          IN  /\ Chained(Q.entries, Q.recent, Q.oldest, Fronted(s[i], Without(s, i)))
              /\ Wrote(Q, E, b, s[i], size, deadline)
      BY SMTT(30), <1>1, Overwritten
    <3> QED  BY ZenonT(30), <3>1, <3>2
  <2>2. CASE k \notin DOMAIN E
    <3>1. Rest(s, k) = s  BY SMTT(30), <1>1, <2>2, RestFacts
    <3>2. Chained(R.entries, R.recent, R.oldest, Fronted(k, s)) /\ Wrote(R, E, b, k, size, deadline)
      <4>1. k \in Keys \ DOMAIN E  BY Zenon, <2>2
      <4> QED  BY SMTT(30), <1>1, <4>1, Inserted
    <3> QED  BY ZenonT(30), <3>1, <3>2
  <2> QED  BY Zenon, <2>1, <2>2
<1> HIDE DEF R
<1>3. /\ DOMAIN R.entries = DOMAIN E \cup {k} /\ Sound(R.entries)
      /\ SameData(R.entries, E, DOMAIN E \ {k}) /\ R.entries[k].size = size
      /\ R.bytes = b - OldSize(E, k) + size
  BY Zenon, <1>2 DEF Wrote, Recharged
<1> DEFINE D == [j \in DOMAIN E \ {k} |-> E[j]]
           x == SumFunction(Charges(R.entries))
           y == SumFunction(Charges(D))
<1>4. DOMAIN D = DOMAIN E \ {k} /\ \A j \in DOMAIN D : D[j] = E[j]  BY Zenon
<1> HIDE DEF D
<1>5. x = size + y /\ y \in Nat /\ size \in Nat
  <2> DEFINE C == R.entries
  <2>1. /\ Sound(C) /\ k \in DOMAIN C /\ DOMAIN D = DOMAIN C \ {k}
        /\ \A j \in DOMAIN D : D[j].size = C[j].size
    BY Zenon, <1>3, <1>4 DEF SameData
  <2>2. C[k].size = size  BY Zenon, <1>3
  <2> HIDE DEF C
  <2>3. /\ SumFunction(Charges(C)) = C[k].size + SumFunction(Charges(D))
        /\ SumFunction(Charges(D)) \in Nat /\ C[k].size \in Nat
    BY ZenonT(30), <2>1 DEF ChargesAdd
  <2> QED  BY Zenon, <2>2, <2>3 DEF C
<1>6. b = OldSize(E, k) + y /\ OldSize(E, k) \in Nat
  <2>1. CASE k \in DOMAIN E
    <3>1. \A j \in DOMAIN D : D[j].size = E[j].size  BY Zenon, <1>4
    <3>2. /\ SumFunction(Charges(E)) = E[k].size + SumFunction(Charges(D)) /\ E[k].size \in Nat
      BY ZenonT(30), <1>1, <1>4, <2>1, <3>1 DEF ChargesAdd
    <3> QED  BY Zenon, <1>1, <2>1, <3>2 DEF OldSize
  <2>2. CASE k \notin DOMAIN E
    <3>1. DOMAIN D = DOMAIN E /\ \A j \in DOMAIN E : D[j].size = E[j].size  BY Zenon, <1>4, <2>2
    <3>2. Charges(D) = Charges(E)  BY Zenon, <3>1, SameCharges
    <3>3. OldSize(E, k) = 0 /\ b = y  BY Zenon, <1>1, <2>2, <3>2 DEF OldSize
    <3> HIDE DEF y
    <3> QED  BY SMTT(30), <1>1, <3>3
  <2> QED  BY Zenon, <2>1, <2>2
<1>7. R.bytes = x /\ x \in Nat /\ R.bytes <= b + size
  <2> DEFINE z == OldSize(E, k)
  <2>1. /\ x = size + y /\ y \in Nat /\ size \in Nat /\ b = z + y /\ z \in Nat
        /\ R.bytes = b - z + size
    BY Zenon, <1>3, <1>5, <1>6
  <2> HIDE DEF x, y, z
  <2> QED  BY SMTT(30), <2>1
<1>8. WholeShard(R, Fronted(k, Rest(s, k)))  BY Zenon, <1>2, <1>3, <1>7 DEF WholeShard, Whole
<1> QED  BY Zenon, <1>2, <1>7, <1>8 DEF R

-----------------------------------------------------------------------------
(* The inductive invariant.                                                *)

Fcn(f) == f = [x \in DOMAIN f |-> f[x]]

(* The shard is a map with its list and its charge.                        *)
ListInv == Fcn(entries) /\ \E s : Whole(entries, recent, oldest, bytes, s)

(* The rest of the state has its type, and no time that a critical section *)
(* or the sweep works with is ahead of the clock.                          *)
Control ==
  /\ phase \in Opening \cup {"free", "applied", "evict", "sweep"}
  /\ stamp \in Time /\ now \in Time /\ stamp <= now
  /\ sweep \in {"idle", "waiting", "again"} /\ sweepNow \in Time /\ sweepNow <= now
  /\ sampled \subseteq Keys /\ reclaimed \in Nat
  /\ requests \in Seq(Request) /\ Len(requests) <= QueueBound
  /\ counted \subseteq {"hits", "misses", "expiries", "evictions"}

(* What validateEntrySize has let through fits by itself.                  *)
Queued ==
  \A i \in 1..Len(requests) :
    requests[i].op = "set" => requests[i].size \in Sizes /\ requests[i].size <= Capacity

(* An open shard fits, but for the entry that was just written, which fits *)
(* by itself and stays the most recent one until the eviction has ended.   *)
Phased ==
  /\ phase \in {"free", "sweep"} => bytes <= Capacity
  /\ phase \in {"applied", "evict"} => recent \in DOMAIN entries /\ entries[recent].size <= Capacity
  /\ phase = "applied" => bytes <= Capacity + entries[recent].size

Inv == ListInv /\ Control /\ Queued /\ Phased

(* The operations build maps.                                              *)
LEMMA StillMaps ==
  ASSUME NEW E, NEW r, NEW o, NEW b, NEW k, Fcn(E)
  PROVE  /\ Fcn(removeEntry(Fields(E, r, o, b), k).entries)
         /\ Fcn(markRecent(Fields(E, r, o, b), k).entries)
         /\ \A size, deadline : Fcn(setEntry(Fields(E, r, o, b), k, size, deadline).entries)
<1>1. Fcn(removeEntry(Fields(E, r, o, b), k).entries)
  <2> DEFINE shard == Fields(E, r, o, b)
             D == Restrict(Unlinked(shard, k), DOMAIN shard.entries \ {k})
  <2>1. Fcn(D)  BY Zenon DEF Fcn, Restrict
  <2> HIDE DEF D
  <2>2. removeEntry(shard, k).entries = D
    <3> HIDE DEF shard
    <3> QED  BY DEF removeEntry, D
  <2> QED  BY Zenon, <2>1, <2>2
<1>2. ASSUME NEW F, NEW c, Fcn(F)  PROVE Fcn(markRecent(Fields(F, r, o, c), k).entries)
  <2> DEFINE shard == Fields(F, r, o, c)
             e == shard.entries[k]
             L == Unlinked(shard, k)
             last == IF e.next = Nil /\ shard.oldest = k THEN e.previous ELSE shard.oldest
             G(j) == CASE j = k -> [e EXCEPT !.previous = Nil, !.next = shard.recent]
                       [] j = shard.recent -> [L[j] EXCEPT !.previous = k]
                       [] OTHER -> L[j]
             D == [j \in DOMAIN L |-> G(j)]
             z == IF shard.recent = Nil THEN k ELSE last
  <2>1. shard.entries = F  BY DEF Fields
  <2>2. Fcn(D)
    <3> HIDE DEF G, L
    <3> QED  BY Zenon DEF Fcn
  <2>3. CASE shard.recent = k
    <3>1. markRecent(shard, k) = shard  BY Zenon, <2>3 DEF markRecent
    <3> QED  BY Zenon, <1>2, <2>1, <3>1
  <2>4. CASE shard.recent # k
    <3>1. markRecent(shard, k) = [shard EXCEPT !.entries = D, !.recent = k, !.oldest = z]
      BY Zenon, <2>4 DEF markRecent
    <3> HIDE DEF D, z
    <3>2. markRecent(shard, k).entries = D  BY ZenonT(30), <3>1 DEF Fields
    <3> QED  BY Zenon, <2>2, <3>2
  <2> QED  BY Zenon, <2>3, <2>4
<1>3. ASSUME NEW size, NEW deadline  PROVE Fcn(setEntry(Fields(E, r, o, b), k, size, deadline).entries)
  <2>1. Fcn(Current(E, k, size, deadline))  BY Zenon DEF Fcn, Current
  <2>2. setEntry(Fields(E, r, o, b), k, size, deadline)
          = markRecent(Fields(Current(E, k, size, deadline), r, o, Recharged(E, b, k, size)), k)
    BY SMTT(30), SetMarksRecent
  <2> QED  BY Zenon, <1>2, <2>1, <2>2
<1> QED  BY Zenon, <1>2, <1>3, <1>1

(* A map with its list has the types of the four fields.                   *)
LEMMA WholeTypes ==
  ASSUME NEW E, NEW r, NEW o, NEW b, NEW s, Whole(E, r, o, b, s), Fcn(E)
  PROVE  /\ DOMAIN E \subseteq Keys /\ E \in [DOMAIN E -> Entry]
         /\ r \in Pointers /\ o \in Pointers /\ b \in Nat
<1>1. Sound(E) /\ Chained(E, r, o, s) /\ b \in Nat  BY Zenon DEF Whole
<1>2. r \in Pointers /\ o \in Pointers  BY Zenon, <1>1, ChainEnds
<1>3. E \in [DOMAIN E -> Entry]  BY Zenon, <1>1 DEF Sound, Fcn
<1> QED  BY Zenon, <1>1, <1>2, <1>3 DEF Sound

(* The invariant gives every variable its type.                            *)
LEMMA InvTypes == Inv => TypeOK
<1> SUFFICES ASSUME Inv PROVE TypeOK  BY Zenon
<1>1. PICK s : Whole(entries, recent, oldest, bytes, s)  BY Zenon DEF Inv, ListInv
<1>2. Fcn(entries)  BY Zenon DEF Inv, ListInv
<1>3. /\ DOMAIN entries \subseteq Keys /\ entries \in [DOMAIN entries -> Entry]
      /\ recent \in Pointers /\ oldest \in Pointers /\ bytes \in Nat
  BY Zenon, <1>1, <1>2, WholeTypes
<1> QED  BY Zenon, <1>3 DEF Inv, Control, TypeOK

-----------------------------------------------------------------------------
(* What the operations do to the state.                                    *)

(* s lists the shard before the step, and t after it.                      *)
Now(s) == Whole(entries, recent, oldest, bytes, s)
Then(t) == Whole(entries', recent', oldest', bytes', t)

(* Removing an entry.                                                      *)
LEMMA Removal ==
  ASSUME ChargesAdd, ListInv, NEW s, Now(s), NEW k \in DOMAIN entries, Becomes(removeEntry(Shard, k))
  PROVE  /\ Then(Rest(s, k)) /\ ListInv'
         /\ DOMAIN entries' = DOMAIN entries \ {k}
         /\ SameData(entries', entries, DOMAIN entries')
         /\ bytes = entries[k].size + bytes' /\ entries[k].size \in Nat /\ bytes' \in Nat
         /\ recent # k => recent' = recent
<1> DEFINE R == removeEntry(Shard, k)
<1>1. entries' = R.entries /\ recent' = R.recent /\ oldest' = R.oldest /\ bytes' = R.bytes
  BY Zenon DEF Becomes
<1>2. Shard = Fields(entries, recent, oldest, bytes)  BY Zenon DEF Shard, Fields
<1>3. Whole(entries, recent, oldest, bytes, s) /\ Chained(entries, recent, oldest, s)  BY Zenon DEF Now, Whole
<1>4. PICK i \in 1..Len(s) : s[i] = k /\ Rest(s, k) = Without(s, i)  BY SMTT(30), <1>3, RestFacts
<1>5. /\ WholeShard(R, Rest(s, k))
      /\ DOMAIN R.entries = DOMAIN entries \ {k} /\ SameData(R.entries, entries, DOMAIN R.entries)
      /\ bytes = entries[k].size + R.bytes /\ entries[k].size \in Nat
  <2>1. LET Q == removeEntry(Fields(entries, recent, oldest, bytes), s[i])
        IN  /\ WholeShard(Q, Without(s, i))
            /\ DOMAIN Q.entries = DOMAIN entries \ {s[i]} /\ SameData(Q.entries, entries, DOMAIN Q.entries)
            /\ bytes = entries[s[i]].size + Q.bytes /\ entries[s[i]].size \in Nat
    BY SMTT(30), <1>3, RemovedWhole
  <2> QED  BY ZenonT(30), <1>2, <1>4, <2>1
<1>6. Fcn(R.entries)
  <2>1. Fcn(entries)  BY Zenon DEF ListInv
  <2> QED  BY Zenon, <1>2, <2>1, StillMaps
<1>7. recent # k => R.recent = recent
  <2>1. R.recent = IF entries[k].previous = Nil THEN entries[k].next ELSE recent
    BY DEF removeEntry, Shard
  <2>2. recent # k => entries[k].previous # Nil
    <3>1. /\ s \in Seq(Keys) /\ recent = (IF Len(s) = 0 THEN Nil ELSE s[1])
          /\ entries[s[i]].previous = (IF i = 1 THEN Nil ELSE s[i - 1])
      BY ZenonT(30), <1>3 DEF Chained
    <3>2. Len(s) # 0 /\ (i # 1 => s[i - 1] \in Keys)  BY SMTT(30), <3>1
    <3>3. Nil \notin Keys  BY Zenon, ShardAssumption
    <3> QED  BY Zenon, <1>4, <3>1, <3>2, <3>3
  <2> QED  BY ZenonT(30), <2>1, <2>2
<1> HIDE DEF R
<1>8. Then(Rest(s, k)) /\ bytes' \in Nat  BY Zenon, <1>1, <1>5 DEF Then, WholeShard, Whole
<1>9. ListInv'  BY Zenon, <1>1, <1>6, <1>8 DEF ListInv, Then
<1> QED  BY ZenonT(30), <1>1, <1>5, <1>7, <1>8, <1>9

(* Marking an entry recent.                                                *)
LEMMA Marking ==
  ASSUME ListInv, NEW s, Now(s), NEW k \in DOMAIN entries, Becomes(markRecent(Shard, k))
  PROVE  /\ Then(Fronted(k, Rest(s, k))) /\ ListInv'
         /\ DOMAIN entries' = DOMAIN entries /\ SameData(entries', entries, DOMAIN entries)
         /\ bytes' = bytes
<1> DEFINE R == markRecent(Shard, k)
<1>1. entries' = R.entries /\ recent' = R.recent /\ oldest' = R.oldest /\ bytes' = R.bytes
  BY Zenon DEF Becomes
<1>2. Shard = Fields(entries, recent, oldest, bytes)  BY Zenon DEF Shard, Fields
<1>3. Whole(entries, recent, oldest, bytes, s) /\ Chained(entries, recent, oldest, s)  BY ZenonT(30) DEF Now, Whole
<1>4. PICK i \in 1..Len(s) : s[i] = k /\ Rest(s, k) = Without(s, i)  BY SMTT(30), <1>3, RestFacts
<1>5. /\ WholeShard(R, Fronted(k, Rest(s, k)))
      /\ DOMAIN R.entries = DOMAIN entries /\ SameData(R.entries, entries, DOMAIN entries)
      /\ R.bytes = bytes
  <2>1. Marked(entries, recent, oldest, bytes, s, i)  BY Zenon, <1>3, MarkedWhole
  <2> QED  BY Zenon, <1>2, <1>4, <2>1 DEF Marked
<1>6. Fcn(R.entries)
  <2>1. Fcn(entries)  BY Zenon DEF ListInv
  <2> QED  BY Zenon, <1>2, <2>1, StillMaps
<1> HIDE DEF R
<1>7. Then(Fronted(k, Rest(s, k)))  BY Zenon, <1>1, <1>5 DEF Then, WholeShard
<1>8. ListInv'  BY Zenon, <1>1, <1>6, <1>7 DEF ListInv, Then
<1> QED  BY ZenonT(30), <1>1, <1>5, <1>7, <1>8

(* Writing an entry.                                                       *)
LEMMA Writing ==
  ASSUME ChargesAdd, ListInv, NEW s, Now(s), NEW k \in Keys, NEW size \in Sizes, NEW deadline \in Deadlines,
         Becomes(setEntry(Shard, k, size, deadline))
  PROVE  /\ Then(Fronted(k, Rest(s, k))) /\ ListInv'
         /\ DOMAIN entries' = DOMAIN entries \cup {k}
         /\ SameData(entries', entries, DOMAIN entries \ {k})
         /\ entries'[k].size = size /\ entries'[k].deadline = deadline
         /\ recent' = k /\ bytes' <= bytes + size
<1> DEFINE R == setEntry(Shard, k, size, deadline)
<1>1. entries' = R.entries /\ recent' = R.recent /\ oldest' = R.oldest /\ bytes' = R.bytes
  BY Zenon DEF Becomes
<1>2. Shard = Fields(entries, recent, oldest, bytes)  BY Zenon DEF Shard, Fields
<1>3. /\ WholeShard(R, Fronted(k, Rest(s, k))) /\ Wrote(R, entries, bytes, k, size, deadline)
      /\ R.bytes <= bytes + size
  <2>1. Whole(entries, recent, oldest, bytes, s)  BY Zenon DEF Now
  <2>2. LET Q == setEntry(Fields(entries, recent, oldest, bytes), k, size, deadline)
        IN  /\ WholeShard(Q, Fronted(k, Rest(s, k))) /\ Wrote(Q, entries, bytes, k, size, deadline)
            /\ Q.bytes <= bytes + size
    BY ZenonT(30), <2>1, WrittenWhole
  <2> QED  BY Zenon, <1>2, <2>2
<1>4. Fcn(R.entries)
  <2>1. Fcn(entries)  BY Zenon DEF ListInv
  <2> QED  BY Zenon, <1>2, <2>1, StillMaps
<1> HIDE DEF R
<1>5. Then(Fronted(k, Rest(s, k)))  BY Zenon, <1>1, <1>3 DEF Then, WholeShard
<1>6. ListInv'  BY Zenon, <1>1, <1>4, <1>5 DEF ListInv, Then
<1> QED  BY ZenonT(30), <1>1, <1>3, <1>5, <1>6 DEF Wrote

-----------------------------------------------------------------------------
(* The invariant is inductive.                                             *)

(* The list exists.                                                        *)
LEMMA HasList == Inv => \E s : Now(s)
  BY Zenon DEF Inv, ListInv, Now

(* A step that leaves the four fields alone.                               *)
LEMMA KeptList ==
  ASSUME ListInv, UNCHANGED list
  PROVE  ListInv'
<1>1. entries' = entries /\ recent' = recent /\ oldest' = oldest /\ bytes' = bytes  BY Zenon DEF list
<1> QED  BY Zenon, <1>1 DEF ListInv

(* A step that leaves the queue alone.                                     *)
LEMMA KeptQueue ==
  ASSUME Queued, requests' = requests
  PROVE  Queued'
  BY Zenon DEF Queued

(* int64 arithmetic stays in int64.                                        *)
LEMMA WrapType ==
  ASSUME NEW n \in Int
  PROVE  Wrap(n) \in Deadlines
<1> DEFINE M == MaxInt + 1
<1>1. MaxInt \in Nat  BY ShardAssumption
<1>2. \A a \in Int, m \in Nat \ {0} : a % m \in 0..(m - 1)  OBVIOUS
<1>3. 2 * M \in Nat \ {0} /\ n + MaxInt + 1 \in Int /\ M \in Int  BY <1>1
<1>4. (n + MaxInt + 1) % (2 * M) \in 0..(2 * M - 1)  BY Zenon, <1>2, <1>3
<1> DEFINE q == (n + MaxInt + 1) % (2 * M)
<1>5. Wrap(n) = q - M  BY Zenon DEF Wrap
<1> HIDE DEF q
<1>6. q \in 0..(2 * M - 1)  BY Zenon, <1>4 DEF q
<1>7. q - M \in (-(MaxInt + 1))..MaxInt  BY SMTT(30), <1>1, <1>6
<1> QED  BY Zenon, <1>5, <1>7 DEF Deadlines

(* Deadlines of the log and of callers are int64.                          *)
LEMMA DeadlineTypes ==
  ASSUME now \in Time
  PROVE  /\ RecoveredDeadlines \subseteq Deadlines /\ 0 \in Deadlines
         /\ \A ttl \in TTLs : Wrap(now + ttl) \in Deadlines
<1>1. MaxInt \in Nat /\ MaxTime \in Int /\ TTLs \subseteq Int /\ now \in Int  BY ShardAssumption DEF Time
<1>2. \A t \in 0..now, ttl \in TTLs : t + ttl \in Int  BY <1>1
<1>3. \A t \in 0..now, ttl \in TTLs : Wrap(t + ttl) \in Deadlines  BY Zenon, <1>2, WrapType
<1>4. 0 \in Deadlines  BY <1>1 DEF Deadlines
<1>5. \A ttl \in TTLs : now + ttl \in Int  BY <1>1
<1>6. \A ttl \in TTLs : Wrap(now + ttl) \in Deadlines  BY Zenon, <1>5, WrapType
<1>7. ASSUME NEW d \in RecoveredDeadlines  PROVE d \in Deadlines
  <2>1. d = 0 \/ \E t \in 0..now, ttl \in TTLs : d = Wrap(t + ttl)  BY SMT DEF RecoveredDeadlines
  <2> QED  BY Zenon, <1>3, <1>4, <2>1
<1> QED  BY Zenon, <1>4, <1>6, <1>7

(* A shard that is over its capacity has an oldest entry, and it is not    *)
(* the one just written, which fits by itself.                             *)
LEMMA OverCapacity ==
  ASSUME ChargesAdd, Inv, bytes > Capacity
  PROVE  oldest \in DOMAIN entries /\ (phase = "evict" => oldest # recent)
<1>1. PICK s : Now(s)  BY Zenon, HasList
<1>2. /\ Sound(entries) /\ Chained(entries, recent, oldest, s)
      /\ bytes = SumFunction(Charges(entries)) /\ bytes \in Nat
  BY Zenon, <1>1 DEF Now, Whole
<1>3. Capacity \in Nat  BY Zenon, ShardAssumption
<1>4. DOMAIN entries # {}
  <2> SUFFICES ASSUME DOMAIN entries = {} PROVE FALSE  BY Zenon
  <2>1. DOMAIN Charges(entries) = {}  BY Zenon DEF Charges
  <2>2. bytes = 0  BY Zenon, <1>2, <2>1 DEF ChargesAdd
  <2> QED  BY SMTT(30), <1>3, <2>2
<1>5. oldest \in DOMAIN entries  BY Zenon, <1>2, <1>4, ChainEnds
<1>6. ASSUME phase = "evict", oldest = recent  PROVE FALSE
  <2> DEFINE n == Len(s)
  <2>1. s \in Seq(Keys) /\ n \in Nat  BY <1>2 DEF Chained
  <2>2. /\ \A i, j \in 1..n : s[i] = s[j] => i = j
        /\ \A k \in DOMAIN entries : \E i \in 1..n : s[i] = k
        /\ recent = (IF n = 0 THEN Nil ELSE s[1]) /\ oldest = (IF n = 0 THEN Nil ELSE s[n])
    BY Zenon, <1>2 DEF Chained
  <2>3. n # 0
    <3>1. \E i \in 1..n : TRUE  BY Zenon, <1>4, <2>2
    <3> QED  BY SMTT(30), <2>1, <3>1
  <2>4. 1 \in 1..n /\ n \in 1..n  BY SMTT(30), <2>1, <2>3
  <2>5. n = 1
    <3>1. s[1] = s[n]  BY Zenon, <1>6, <2>2, <2>3
    <3> HIDE DEF n
    <3> QED  BY Zenon, <2>2, <2>4, <3>1
  <2>6. \A i \in 1..n : i = 1  BY <2>5
  <2>7. DOMAIN entries = {recent}
    <3>1. recent = s[1] /\ recent \in DOMAIN entries  BY Zenon, <1>5, <1>6, <2>2, <2>3
    <3>2. \A k \in DOMAIN entries : k = s[1]  BY Zenon, <2>2, <2>6
    <3> QED  BY Zenon, <3>1, <3>2
  <2> DEFINE D == [j \in {} |-> entries[j]]
  <2>8. DOMAIN D = {} /\ DOMAIN Charges(D) = {}  BY Zenon DEF Charges
  <2> HIDE DEF D
  <2>9. SumFunction(Charges(D)) = 0  BY Zenon, <2>8 DEF ChargesAdd
  <2>10. /\ recent \in DOMAIN entries /\ DOMAIN D = DOMAIN entries \ {recent}
         /\ \A j \in DOMAIN D : D[j].size = entries[j].size
    BY Zenon, <2>7, <2>8
  <2>11. /\ SumFunction(Charges(entries)) = entries[recent].size + SumFunction(Charges(D))
         /\ entries[recent].size \in Nat
    BY ZenonT(30), <1>2, <2>10 DEF ChargesAdd
  <2>12. bytes = entries[recent].size + 0  BY Zenon, <1>2, <2>9, <2>11
  <2>13. entries[recent].size <= Capacity  BY Zenon, <1>6 DEF Inv, Phased
  <2> QED  BY SMTT(30), <1>2, <1>3, <2>11, <2>12, <2>13
<1> QED  BY Zenon, <1>5, <1>6

(* The empty shard.                                                        *)
LEMMA InitInv == ChargesAdd /\ Init => Inv
<1> SUFFICES ASSUME ChargesAdd, Init PROVE Inv  BY Zenon
<1>1. MaxTime \in Nat /\ QueueBound \in Nat /\ Capacity \in Nat  BY ShardAssumption
<1>2. Whole(entries, recent, oldest, bytes, <<>>)
  <2>1. entries = <<>> /\ recent = Nil /\ oldest = Nil /\ bytes = 0  BY Zenon DEF Init
  <2>2. DOMAIN entries = {} /\ <<>> \in Seq(Keys) /\ Len(<<>>) = 0 /\ \A i \in 1..0 : FALSE  BY <2>1
  <2>3. Sound(entries)  BY Zenon, <2>2 DEF Sound
  <2>4. Chained(entries, recent, oldest, <<>>)  BY Zenon, <2>1, <2>2 DEF Chained
  <2>5. DOMAIN Charges(entries) = {}  BY Zenon, <2>2 DEF Charges
  <2>6. bytes = SumFunction(Charges(entries))  BY Zenon, <2>1, <2>5 DEF ChargesAdd
  <2>7. bytes \in Nat  BY <2>1
  <2> QED  BY Zenon, <2>3, <2>4, <2>6, <2>7 DEF Whole
<1>3. Fcn(entries)
  <2>1. entries = <<>>  BY Zenon DEF Init
  <2> QED  BY <2>1 DEF Fcn
<1>4. Control
  <2>1. /\ phase = "replay" /\ stamp = 0 /\ sweep = "idle" /\ sweepNow = 0 /\ sampled = {} /\ reclaimed = 0
        /\ requests = <<>> /\ now \in Time /\ counted = {}
    BY Zenon DEF Init
  <2>2. 0 \in Time /\ 0 <= now /\ 0 \in Nat /\ requests \in Seq(Request) /\ Len(requests) <= QueueBound
    BY SMTT(30), <1>1, <2>1 DEF Time
  <2> QED  BY Zenon, <2>1, <2>2 DEF Control, Opening
<1>5. Queued
  <2>1. requests = <<>>  BY Zenon DEF Init
  <2>2. \A i \in 1..Len(requests) : FALSE  BY SMTT(30), <2>1
  <2> QED  BY Zenon, <2>2 DEF Queued
<1>6. Phased
  <2>1. phase = "replay"  BY Zenon DEF Init
  <2> QED  BY <2>1 DEF Phased
<1> QED  BY Zenon, <1>2, <1>3, <1>4, <1>5, <1>6 DEF Inv, ListInv

(* A step of recovery.                                                     *)
LEMMA RecoverStep ==
  ASSUME ChargesAdd, Inv, Recover
  PROVE  Inv'
<1>1. PICK s : Now(s)  BY Zenon, HasList
<1>2. ListInv /\ Control /\ Queued /\ Phased  BY Zenon DEF Inv
<1>3. ASSUME ListInv', phase' \in Opening, stamp' \in Time, stamp' <= now,
             UNCHANGED <<sweeper, requests, now>>,
             counted' \subseteq {"hits", "misses", "expiries", "evictions"}
      PROVE  Inv'
  <2>1. /\ sweep' = sweep /\ sweepNow' = sweepNow /\ sampled' = sampled /\ reclaimed' = reclaimed
        /\ requests' = requests /\ now' = now
    BY Zenon, <1>3 DEF sweeper
  <2>2. Control'  BY Zenon, <1>2, <1>3, <2>1 DEF Control
  <2>3. Queued'  BY Zenon, <1>2, <2>1, KeptQueue
  <2>4. phase' \notin {"free", "sweep", "applied", "evict"}  BY Zenon, <1>3 DEF Opening
  <2>5. Phased'  BY Zenon, <2>4 DEF Phased
  <2> QED  BY Zenon, <1>3, <2>2, <2>3, <2>5 DEF Inv
<1>4. stamp \in Time /\ stamp <= now /\ now \in Time  BY Zenon, <1>2 DEF Control
<1>5. now <= now  BY <1>4 DEF Time
<1>6. ASSUME NEW k \in Keys, NEW size \in Sizes, NEW deadline \in RecoveredDeadlines,
             applyRecoveredSet(k, size, deadline)
      PROVE  Inv'
  <2>1. deadline \in Deadlines  BY Zenon, <1>4, DeadlineTypes
  <2>2. /\ Becomes(setEntry(Shard, k, size, deadline)) /\ phase' = "replay" /\ stamp' = stamp
        /\ UNCHANGED <<sweeper, requests, now>> /\ counted' = {}
    BY Zenon, <1>6 DEF applyRecoveredSet
  <2>3. ListInv'  BY ZenonT(30), <1>1, <1>2, <2>1, <2>2, Writing
  <2> QED  BY Zenon, <1>3, <1>4, <2>2, <2>3 DEF Opening
<1>7. ASSUME NEW k \in Keys, RecoverDelete(k)  PROVE Inv'
  <2>1. /\ k \in DOMAIN entries /\ Becomes(removeEntry(Shard, k)) /\ phase' = "replay" /\ stamp' = stamp
        /\ UNCHANGED <<sweeper, requests, now>> /\ counted' = {}
    BY Zenon, <1>7 DEF RecoverDelete, Remove
  <2>2. ListInv'  BY ZenonT(30), <1>1, <1>2, <2>1, Removal
  <2> QED  BY Zenon, <1>3, <1>4, <2>1, <2>2 DEF Opening
<1>8. ASSUME NEW k \in Keys, reclaimExpired(k)  PROVE Inv'
  <2>1. /\ k \in DOMAIN entries /\ Becomes(removeEntry(Shard, k)) /\ phase' = "reclaim" /\ stamp' = stamp
        /\ UNCHANGED <<sweeper, requests, now>> /\ counted' = {"expiries"}
    BY Zenon, <1>8 DEF reclaimExpired, Reclaimable, Remove
  <2>2. ListInv'  BY ZenonT(30), <1>1, <1>2, <2>1, Removal
  <2> QED  BY Zenon, <1>3, <1>4, <2>1, <2>2 DEF Opening
<1>9. ASSUME enforceRecoveredState  PROVE Inv'
  <2>1. /\ UNCHANGED list /\ phase' = "reclaim" /\ stamp' = now
        /\ UNCHANGED <<sweeper, requests, now>> /\ counted' = {}
    BY Zenon, <1>9 DEF enforceRecoveredState
  <2>2. ListInv'  BY Zenon, <1>2, <2>1, KeptList
  <2> QED  BY ZenonT(30), <1>3, <1>4, <1>5, <2>1, <2>2 DEF Opening
<1>10. ASSUME ReclaimEnds  PROVE Inv'
  <2>1. /\ UNCHANGED list /\ phase' = "shrink" /\ stamp' = stamp
        /\ UNCHANGED <<sweeper, requests, now>> /\ counted' = {}
    BY Zenon, <1>10 DEF ReclaimEnds
  <2>2. ListInv'  BY Zenon, <1>2, <2>1, KeptList
  <2> QED  BY Zenon, <1>3, <1>4, <2>1, <2>2 DEF Opening
<1> QED  BY Zenon, <1>6, <1>7, <1>8, <1>9, <1>10 DEF Recover

(* A caller's write is accepted.                                           *)
LEMMA AcceptStep ==
  ASSUME Inv, NEW op \in {"set", "delete"}, NEW k \in Keys, NEW size \in Sizes \cup {0},
         NEW deadline \in Deadlines, Accept(op, k, size, deadline),
         op = "set" => size \in Sizes /\ size <= Capacity
  PROVE  Inv'
<1> DEFINE r == [op |-> op, key |-> k, size |-> size, deadline |-> deadline]
<1>1. ListInv /\ Control /\ Queued /\ Phased  BY Zenon DEF Inv
<1>2. /\ Len(requests) < QueueBound /\ requests' = Append(requests, r) /\ counted' = {}
      /\ UNCHANGED <<list, phase, stamp, sweeper, now>>
  BY Zenon DEF Accept
<1>3. r \in Request /\ r.op = op /\ r.size = size  BY DEF Request
<1> HIDE DEF r
<1>4. /\ entries' = entries /\ recent' = recent /\ oldest' = oldest /\ bytes' = bytes
      /\ phase' = phase /\ stamp' = stamp /\ now' = now
      /\ sweep' = sweep /\ sweepNow' = sweepNow /\ sampled' = sampled /\ reclaimed' = reclaimed
  BY Zenon, <1>2 DEF list, sweeper
<1>5. requests \in Seq(Request) /\ QueueBound \in Nat  BY Zenon, <1>1, ShardAssumption DEF Control
<1>6. /\ requests' \in Seq(Request) /\ Len(requests') <= QueueBound
      /\ \A i \in 1..Len(requests') :
           \/ i \in 1..Len(requests) /\ requests'[i] = requests[i]
           \/ requests'[i] = r
  BY SMTT(30), <1>2, <1>3, <1>5
<1>7. ListInv'  BY Zenon, <1>1, <1>2, KeptList
<1>8. Control'  BY Zenon, <1>1, <1>2, <1>4, <1>6 DEF Control
<1>9. Queued'  BY Zenon, <1>1, <1>3, <1>6 DEF Queued
<1>10. Phased'  BY Zenon, <1>1, <1>4 DEF Phased
<1> QED  BY Zenon, <1>7, <1>8, <1>9, <1>10 DEF Inv

(* Set, SetTTL and Delete.                                                 *)
LEMMA SubmitStep ==
  ASSUME Inv, Submit
  PROVE  Inv'
<1>1. PICK k \in Keys : \/ \E size \in Sizes : Set(k, size) \/ \E ttl \in TTLs : SetTTL(k, size, ttl)
                        \/ Delete(k)
  BY Zenon DEF Submit
<1>2. /\ 0 \in Deadlines /\ \A ttl \in TTLs : Wrap(now + ttl) \in Deadlines
  BY Zenon, DeadlineTypes DEF Inv, Control
<1>3. ASSUME NEW size \in Sizes, Set(k, size)  PROVE Inv'
  <2>1. size <= Capacity /\ Accept("set", k, size, 0)  BY Zenon, <1>3 DEF Set
  <2> QED  BY SMTT(30), <1>2, <2>1, AcceptStep
<1>4. ASSUME NEW size \in Sizes, NEW ttl \in TTLs, SetTTL(k, size, ttl)  PROVE Inv'
  <2>1. size <= Capacity /\ Accept("set", k, size, Wrap(now + ttl))  BY Zenon, <1>4 DEF SetTTL
  <2> QED  BY SMTT(30), <1>2, <2>1, AcceptStep
<1>5. ASSUME Delete(k)  PROVE Inv'
  <2>1. Accept("delete", k, 0, 0)  BY Zenon, <1>5 DEF Delete
  <2> QED  BY SMTT(30), <1>2, <2>1, AcceptStep
<1> QED  BY Zenon, <1>1, <1>3, <1>4, <1>5

(* What the writer takes from the queue, and what it leaves.               *)
LEMMA FirstRequest ==
  ASSUME Control, Queued, requests # <<>>, requests' = Tail(requests)
  PROVE  /\ Head(requests) \in Request
         /\ Head(requests).op = "set" => Head(requests).size \in Sizes /\ Head(requests).size <= Capacity
         /\ Queued' /\ requests' \in Seq(Request) /\ Len(requests') <= QueueBound
<1>1. requests \in Seq(Request) /\ QueueBound \in Nat /\ Len(requests) <= QueueBound
  BY Zenon, ShardAssumption DEF Control
<1>2. /\ Head(requests) \in Request /\ Head(requests) = requests[1] /\ 1 \in 1..Len(requests)
      /\ requests' \in Seq(Request) /\ Len(requests') <= QueueBound
      /\ \A i \in 1..Len(requests') : i + 1 \in 1..Len(requests) /\ requests'[i] = requests[i + 1]
  BY SMTT(30), <1>1
<1>3. Queued'  BY Zenon, <1>2 DEF Queued
<1> QED  BY Zenon, <1>2, <1>3 DEF Queued

(* The control of a step that leaves the sweep and the clock alone.        *)
LEMMA KeptControl ==
  ASSUME Control, phase' \in {"free", "applied", "evict", "sweep"} \cup Opening,
         stamp' \in {stamp, now}, UNCHANGED <<sweeper, now>>,
         requests' \in Seq(Request), Len(requests') <= QueueBound,
         counted' \subseteq {"hits", "misses", "expiries", "evictions"}
  PROVE  Control'
<1>1. /\ sweep' = sweep /\ sweepNow' = sweepNow /\ sampled' = sampled /\ reclaimed' = reclaimed
      /\ now' = now
  BY Zenon DEF sweeper
<1>2. stamp \in Time /\ now \in Time /\ stamp <= now  BY Zenon DEF Control
<1>3. now <= now  BY <1>2 DEF Time
<1>4. stamp' \in Time /\ stamp' <= now'  BY Zenon, <1>1, <1>2, <1>3
<1> QED  BY Zenon, <1>1, <1>4 DEF Control

(* The first half of applySet.                                             *)
LEMMA SetStep ==
  ASSUME ChargesAdd, Inv, applySet
  PROVE  Inv'
<1>1. PICK s : Now(s)  BY Zenon, HasList
<1>2. ListInv /\ Control /\ Queued /\ Phased  BY Zenon DEF Inv
<1> DEFINE r == Head(requests)
<1>3. /\ phase = "free" /\ requests # <<>> /\ r.op = "set"
      /\ Becomes(setEntry(Shard, r.key, r.size, r.deadline)) /\ requests' = Tail(requests)
      /\ phase' = "applied" /\ counted' = {} /\ stamp' = stamp /\ UNCHANGED <<sweeper, now>>
  BY Zenon DEF applySet
<1>4. /\ r \in Request /\ r.size \in Sizes /\ r.size <= Capacity
      /\ Queued' /\ requests' \in Seq(Request) /\ Len(requests') <= QueueBound
  BY Zenon, <1>2, <1>3, FirstRequest
<1> HIDE DEF r
<1>5. r.key \in Keys /\ r.deadline \in Deadlines  BY <1>4 DEF Request
<1> DEFINE k == r.key
           size == r.size
           deadline == r.deadline
<1>6. k \in Keys /\ size \in Sizes /\ deadline \in Deadlines /\ Becomes(setEntry(Shard, k, size, deadline))
  BY Zenon, <1>3, <1>4, <1>5
<1>7. size <= Capacity  BY Zenon, <1>4
<1> HIDE DEF k, size, deadline
<1>8. /\ ListInv' /\ DOMAIN entries' = DOMAIN entries \cup {k} /\ entries'[k].size = size
      /\ recent' = k /\ bytes' <= bytes + size
  BY ZenonT(30), <1>1, <1>2, <1>6, Writing
<1>9. Control'  BY ZenonT(30), <1>2, <1>3, <1>4, KeptControl
<1>10. bytes' <= Capacity + size
  <2>1. bytes <= Capacity  BY Zenon, <1>2, <1>3 DEF Phased
  <2>2. bytes \in Nat /\ size \in Nat /\ Capacity \in Nat
    BY Zenon, <1>1, <1>6, ShardAssumption DEF Now, Whole
  <2>3. bytes' \in Int
    <3>1. \E t : Whole(entries', recent', oldest', bytes', t)  BY Zenon, <1>8 DEF ListInv
    <3>2. bytes' \in Nat  BY Zenon, <3>1 DEF Whole
    <3> QED  BY <3>2
  <2> QED  BY SMTT(30), <1>8, <2>1, <2>2, <2>3
<1>11. Phased'
  <2>1. phase' \notin {"free", "sweep"}  BY Zenon, <1>3
  <2>2. recent' \in DOMAIN entries' /\ entries'[recent'].size = size  BY Zenon, <1>8
  <2> QED  BY Zenon, <1>7, <1>10, <2>1, <2>2 DEF Phased
<1> QED  BY ZenonT(30), <1>4, <1>8, <1>9, <1>11 DEF Inv

(* Removing an entry from an open shard that fits, but perhaps for the     *)
(* entry that is removed.                                                  *)
LEMMA RemovalFits ==
  ASSUME ChargesAdd, Inv, NEW k \in DOMAIN entries, Becomes(removeEntry(Shard, k)),
         bytes <= Capacity \/ bytes <= Capacity + entries[k].size
  PROVE  ListInv' /\ bytes' <= Capacity
<1>1. PICK s : Now(s)  BY Zenon, HasList
<1>2. ListInv  BY Zenon DEF Inv
<1>3. /\ ListInv' /\ bytes = entries[k].size + bytes' /\ entries[k].size \in Nat /\ bytes' \in Nat
  BY ZenonT(30), <1>1, <1>2, Removal
<1>4. Capacity \in Nat  BY Zenon, ShardAssumption
<1>5. bytes' <= Capacity
  <2> DEFINE z == entries[k].size
  <2>1. bytes = z + bytes' /\ z \in Nat /\ (bytes <= Capacity \/ bytes <= Capacity + z)  BY Zenon, <1>3
  <2> HIDE DEF z
  <2> QED  BY SMTT(30), <1>3, <1>4, <2>1
<1> QED  BY Zenon, <1>3, <1>5

(* The second half of applySet.                                            *)
LEMMA AppliedStep ==
  ASSUME ChargesAdd, Inv, AppliedExpired \/ AppliedLive
  PROVE  Inv'
<1>1. ListInv /\ Control /\ Queued /\ Phased  BY Zenon DEF Inv
<1>2. requests \in Seq(Request) /\ Len(requests) <= QueueBound  BY Zenon, <1>1 DEF Control
<1>3. phase = "applied"  BY Zenon DEF AppliedExpired, AppliedLive
<1>4. /\ recent \in DOMAIN entries /\ entries[recent].size <= Capacity
      /\ bytes <= Capacity + entries[recent].size
  BY Zenon, <1>1, <1>3 DEF Phased
<1>5. CASE AppliedExpired
  <2>1. /\ Becomes(removeEntry(Shard, recent)) /\ counted' = {"expiries"} /\ phase' = "free"
        /\ stamp' = stamp /\ requests' = requests /\ UNCHANGED <<sweeper, now>>
    BY Zenon, <1>5 DEF AppliedExpired, Remove
  <2>2. ListInv' /\ bytes' <= Capacity  BY Zenon, <1>4, <2>1, RemovalFits
  <2>3. Control'  BY Zenon, <1>1, <1>2, <2>1, KeptControl
  <2>4. Queued'  BY Zenon, <1>1, <2>1, KeptQueue
  <2>5. phase' \notin {"applied", "evict"}  BY Zenon, <2>1
  <2>6. Phased'  BY Zenon, <2>2, <2>5 DEF Phased
  <2> QED  BY Zenon, <2>2, <2>3, <2>4, <2>6 DEF Inv
<1>6. CASE AppliedLive
  <2>1. /\ UNCHANGED list /\ counted' = {} /\ phase' = (IF bytes > Capacity THEN "evict" ELSE "free")
        /\ stamp' = now /\ requests' = requests /\ UNCHANGED <<sweeper, now>>
    BY Zenon, <1>6 DEF AppliedLive
  <2>2. /\ entries' = entries /\ recent' = recent /\ oldest' = oldest /\ bytes' = bytes
    BY Zenon, <2>1 DEF list
  <2>3. ListInv'  BY Zenon, <1>1, <2>1, KeptList
  <2>4. phase' \in {"evict", "free"} /\ (phase' = "free" => ~(bytes > Capacity))  BY Zenon, <2>1
  <2>5. Control'  BY ZenonT(30), <1>1, <1>2, <2>1, <2>4, KeptControl
  <2>6. Queued'  BY Zenon, <1>1, <2>1, KeptQueue
  <2>7. ~(bytes > Capacity) => bytes <= Capacity
    <3>1. \E s : Now(s)  BY Zenon, HasList
    <3>2. bytes \in Nat /\ Capacity \in Nat  BY Zenon, <3>1, ShardAssumption DEF Now, Whole
    <3> QED  BY <3>2
  <2>8. phase' # "applied" /\ (phase' = "evict" => phase' \notin {"free", "sweep"})  BY Zenon, <2>4
  <2>9. Phased'  BY ZenonT(30), <1>4, <2>2, <2>4, <2>7, <2>8 DEF Phased
  <2> QED  BY Zenon, <2>3, <2>5, <2>6, <2>9 DEF Inv
<1> QED  BY Zenon, <1>5, <1>6

(* The deletion of a key by the writer.                                    *)
LEMMA DeleteStep ==
  ASSUME ChargesAdd, Inv, applyDelete
  PROVE  Inv'
<1>1. ListInv /\ Control /\ Queued /\ Phased  BY Zenon DEF Inv
<1> DEFINE k == Head(requests).key
<1>2. /\ phase = "free" /\ requests # <<>> /\ requests' = Tail(requests)
      /\ (k \in DOMAIN entries /\ Becomes(removeEntry(Shard, k))) \/ UNCHANGED list
      /\ counted' = {} /\ phase' = phase /\ stamp' = stamp /\ UNCHANGED <<sweeper, now>>
  BY Zenon DEF applyDelete, Remove
<1> HIDE DEF k
<1>3. Queued' /\ requests' \in Seq(Request) /\ Len(requests') <= QueueBound  BY Zenon, <1>1, <1>2, FirstRequest
<1>4. Control'  BY Zenon, <1>1, <1>2, <1>3, KeptControl
<1>5. bytes <= Capacity  BY Zenon, <1>1, <1>2 DEF Phased
<1>6. ListInv' /\ bytes' <= Capacity
  <2>1. CASE k \in DOMAIN entries /\ Becomes(removeEntry(Shard, k))  BY ZenonT(30), <1>5, <2>1, RemovalFits
  <2>2. CASE UNCHANGED list
    <3>1. ListInv'  BY ZenonT(30), <1>1, <2>2, KeptList
    <3>2. bytes' = bytes  BY Zenon, <2>2 DEF list
    <3> QED  BY ZenonT(30), <1>5, <3>1, <3>2
  <2> QED  BY Zenon, <1>2, <2>1, <2>2
<1>7. phase' \notin {"applied", "evict"}  BY Zenon, <1>2
<1>8. Phased'  BY ZenonT(30), <1>6, <1>7 DEF Phased
<1> QED  BY ZenonT(30), <1>3, <1>4, <1>6, <1>8 DEF Inv

(* The eviction loop.                                                      *)
LEMMA EvictStep ==
  ASSUME ChargesAdd, Inv, evictToCapacity \/ EvictionEnds
  PROVE  Inv'
<1>1. ListInv /\ Control /\ Queued /\ Phased  BY Zenon DEF Inv
<1>2. requests \in Seq(Request) /\ Len(requests) <= QueueBound  BY Zenon, <1>1 DEF Control
<1>3. CASE evictToCapacity
  <2>1. /\ phase \in {"shrink", "evict"} /\ bytes > Capacity /\ Becomes(removeEntry(Shard, oldest))
        /\ counted' \in {{"expiries"}, {"evictions"}}
        /\ phase' = phase /\ stamp' = stamp /\ requests' = requests /\ UNCHANGED <<sweeper, now>>
    BY Zenon, <1>3 DEF evictToCapacity, Remove
  <2>2. oldest \in DOMAIN entries /\ (phase = "evict" => oldest # recent)  BY ZenonT(30), <2>1, OverCapacity
  <2>3. PICK s : Now(s)  BY Zenon, HasList
  <2>4. /\ ListInv' /\ DOMAIN entries' = DOMAIN entries \ {oldest}
        /\ SameData(entries', entries, DOMAIN entries') /\ (recent # oldest => recent' = recent)
    BY ZenonT(30), <1>1, <2>1, <2>2, <2>3, Removal
  <2>5. counted' \subseteq {"hits", "misses", "expiries", "evictions"} /\ phase' \in {"evict"} \cup Opening
    BY Zenon, <2>1 DEF Opening
  <2>6. Control'  BY ZenonT(30), <1>1, <1>2, <2>1, <2>5, KeptControl
  <2>7. Queued'  BY Zenon, <1>1, <2>1, KeptQueue
  <2>8. phase' \notin {"free", "sweep", "applied"}  BY Zenon, <2>1
  <2>9. ASSUME phase' = "evict"  PROVE recent' \in DOMAIN entries' /\ entries'[recent'].size <= Capacity
    <3>1. recent \in DOMAIN entries /\ entries[recent].size <= Capacity  BY Zenon, <1>1, <2>1, <2>9 DEF Phased
    <3>2. recent' = recent /\ recent \in DOMAIN entries'  BY ZenonT(30), <2>1, <2>2, <2>4, <2>9, <3>1
    <3>3. entries'[recent].size = entries[recent].size  BY Zenon, <2>4, <3>2 DEF SameData
    <3> QED  BY Zenon, <3>1, <3>2, <3>3
  <2>10. Phased'  BY Zenon, <2>8, <2>9 DEF Phased
  <2> QED  BY ZenonT(30), <2>4, <2>6, <2>7, <2>10 DEF Inv
<1>4. CASE EvictionEnds
  <2>1. /\ bytes <= Capacity /\ UNCHANGED list /\ counted' = {} /\ phase' = "free"
        /\ stamp' = stamp /\ requests' = requests /\ UNCHANGED <<sweeper, now>>
    BY Zenon, <1>4 DEF EvictionEnds
  <2>2. ListInv' /\ bytes' = bytes  BY Zenon, <1>1, <2>1, KeptList DEF list
  <2>3. Control'  BY Zenon, <1>1, <1>2, <2>1, KeptControl
  <2>4. Queued'  BY Zenon, <1>1, <2>1, KeptQueue
  <2>5. phase' \notin {"applied", "evict"}  BY Zenon, <2>1
  <2>6. Phased'  BY Zenon, <2>1, <2>2, <2>5 DEF Phased
  <2> QED  BY ZenonT(30), <2>2, <2>3, <2>4, <2>6 DEF Inv
<1> QED  BY Zenon, <1>3, <1>4

(* A read: absent, expired, or found and marked recent.                    *)
LEMMA ReadStep ==
  ASSUME ChargesAdd, Inv, NEW k \in Keys, getInto(k)
  PROVE  Inv'
<1>1. ListInv /\ Control /\ Queued /\ Phased  BY Zenon DEF Inv
<1>2. requests \in Seq(Request) /\ Len(requests) <= QueueBound  BY Zenon, <1>1 DEF Control
<1>3. /\ phase = "free" /\ phase' = phase /\ stamp' = stamp /\ requests' = requests /\ UNCHANGED <<sweeper, now>>
      /\ \/ UNCHANGED list
         \/ k \in DOMAIN entries /\ Becomes(removeEntry(Shard, k))
         \/ k \in DOMAIN entries /\ Becomes(markRecent(Shard, k))
      /\ counted' \in {{"misses"}, {"expiries", "misses"}, {"hits"}}
  BY Zenon DEF getInto, Remove
<1>4. counted' \subseteq {"hits", "misses", "expiries", "evictions"}  BY Zenon, <1>3
<1>5. Control'  BY ZenonT(30), <1>1, <1>2, <1>3, <1>4, KeptControl
<1>6. Queued'  BY Zenon, <1>1, <1>3, KeptQueue
<1>7. bytes <= Capacity  BY Zenon, <1>1, <1>3 DEF Phased
<1>8. ListInv' /\ bytes' <= Capacity
  <2>1. CASE UNCHANGED list
    <3>1. ListInv' /\ bytes' = bytes  BY Zenon, <1>1, <2>1, KeptList DEF list
    <3> QED  BY Zenon, <1>7, <3>1
  <2>2. CASE k \in DOMAIN entries /\ Becomes(removeEntry(Shard, k))  BY ZenonT(30), <1>7, <2>2, RemovalFits
  <2>3. CASE k \in DOMAIN entries /\ Becomes(markRecent(Shard, k))
    <3>1. PICK s : Now(s)  BY Zenon, HasList
    <3>2. ListInv' /\ bytes' = bytes  BY ZenonT(30), <1>1, <2>3, <3>1, Marking
    <3> QED  BY Zenon, <1>7, <3>2
  <2> QED  BY Zenon, <1>3, <2>1, <2>2, <2>3
<1>9. phase' \notin {"applied", "evict"}  BY Zenon, <1>3
<1>10. Phased'  BY Zenon, <1>8, <1>9 DEF Phased
<1> QED  BY Zenon, <1>5, <1>6, <1>8, <1>10 DEF Inv

(* A step of the sweep, or of the clock.                                   *)
LEMMA SweepStep ==
  ASSUME ChargesAdd, Inv, Sweep \/ Tick
  PROVE  Inv'
<1>1. ListInv /\ Control /\ Queued /\ Phased  BY Zenon DEF Inv
<1>2. /\ now \in Time /\ stamp \in Time /\ sweepNow \in Time /\ reclaimed \in Nat /\ sampled \subseteq Keys
      /\ stamp <= now /\ sweepNow <= now
  BY Zenon, <1>1 DEF Control
<1>3. MaxTime \in Nat  BY SMTT(30), ShardAssumption
<1>4. now <= now /\ 0 <= now /\ 0 \in Time /\ 0 \in Nat /\ reclaimed + 1 \in Nat  BY SMTT(30), <1>2, <1>3 DEF Time
<1>5. ASSUME UNCHANGED list, stamp' = stamp, requests' = requests, phase' = phase \/ phase' \in {"free", "sweep"},
             phase' # phase => phase \in {"free", "sweep"},
             now' \in Time, now <= now', sweep' \in {"idle", "waiting", "again"},
             sweepNow' \in Time, sweepNow' <= now', sampled' \subseteq Keys, reclaimed' \in Nat, counted' = {}
      PROVE  Inv'
  <2>1. /\ entries' = entries /\ recent' = recent /\ oldest' = oldest /\ bytes' = bytes  BY Zenon, <1>5 DEF list
  <2>2. ListInv' /\ Queued'  BY ZenonT(30), <1>1, <1>5, KeptList, KeptQueue
  <2>3. stamp' <= now'
    <3>1. stamp \in Int /\ now \in Int /\ now' \in Int  BY SMTT(30), <1>2, <1>3, <1>5 DEF Time
    <3> QED  BY SMTT(30), <1>2, <1>5, <3>1
  <2>4. Control'  BY Zenon, <1>1, <1>5, <2>3 DEF Control
  <2>5. Phased'
    <3>1. CASE phase' = phase  BY Zenon, <1>1, <2>1, <3>1 DEF Phased
    <3>2. CASE phase' # phase
      <4>1. phase \in {"free", "sweep"} /\ phase' \notin {"applied", "evict"}  BY Zenon, <1>5, <3>2
      <4> QED  BY Zenon, <1>1, <2>1, <4>1 DEF Phased
    <3> QED  BY Zenon, <3>1, <3>2
  <2> QED  BY Zenon, <2>2, <2>4, <2>5 DEF Inv
<1>6. CASE SweepBegins
  BY Zenon, <1>2, <1>4, <1>5, <1>6 DEF SweepBegins
<1>7. CASE SweepLocks
  BY ZenonT(30), <1>1, <1>2, <1>4, <1>5, <1>7 DEF SweepLocks, sweeper, Control
<1>8. CASE SweepUnlocks
  <2>1. {} \subseteq Keys  BY Zenon
  <2> QED  BY Zenon, <1>2, <1>4, <1>5, <1>8, <2>1 DEF SweepUnlocks
<1>9. CASE Tick
  <2>1. /\ UNCHANGED list /\ stamp' = stamp /\ requests' = requests /\ phase' = phase /\ counted' = {}
        /\ now' = now + 1 /\ now < MaxTime
        /\ sweep' = sweep /\ sweepNow' = sweepNow /\ sampled' = sampled /\ reclaimed' = reclaimed
    BY Zenon, <1>9 DEF Tick, sweeper
  <2>2. sweep \in {"idle", "waiting", "again"}  BY Zenon, <1>1 DEF Control
  <2>3. now' \in Time /\ now <= now' /\ sweepNow' <= now'  BY SMTT(30), <1>2, <1>3, <2>1 DEF Time
  <2> QED  BY ZenonT(30), <1>2, <1>5, <2>1, <2>2, <2>3
<1>10. ASSUME NEW k \in Keys, SweepVisits(k)  PROVE Inv'
  <2>1. /\ phase = "sweep" /\ k \in DOMAIN entries /\ sampled' = sampled \cup {k}
        /\ phase' = phase /\ stamp' = stamp /\ sweep' = sweep /\ sweepNow' = sweepNow
        /\ requests' = requests /\ now' = now
        /\ \/ Becomes(removeEntry(Shard, k)) /\ counted' = {"expiries"} /\ reclaimed' = reclaimed + 1
           \/ UNCHANGED list /\ reclaimed' = reclaimed /\ counted' = {}
    BY Zenon, <1>10 DEF SweepVisits, Remove
  <2>2. bytes <= Capacity  BY Zenon, <1>1, <2>1 DEF Phased
  <2>3. ListInv' /\ bytes' <= Capacity
    <3>1. CASE UNCHANGED list
      <4>1. ListInv' /\ bytes' = bytes  BY Zenon, <1>1, <3>1, KeptList DEF list
      <4> QED  BY Zenon, <2>2, <4>1
    <3>2. CASE Becomes(removeEntry(Shard, k))  BY Zenon, <2>1, <2>2, <3>2, RemovalFits
    <3> QED  BY Zenon, <2>1, <3>1, <3>2
  <2>4. /\ sampled' \subseteq Keys /\ reclaimed' \in Nat
        /\ counted' \subseteq {"hits", "misses", "expiries", "evictions"}
    BY Zenon, <1>2, <1>4, <2>1
  <2>5. Control'  BY Zenon, <1>1, <2>1, <2>4 DEF Control
  <2>6. Queued'  BY Zenon, <1>1, <2>1, KeptQueue
  <2>7. phase' \notin {"applied", "evict"}  BY Zenon, <2>1
  <2>8. Phased'  BY Zenon, <2>3, <2>7 DEF Phased
  <2> QED  BY Zenon, <2>3, <2>5, <2>6, <2>8 DEF Inv
<1> QED  BY ZenonT(30), <1>6, <1>7, <1>8, <1>9, <1>10 DEF Sweep

(* Every step keeps the invariant.                                         *)
LEMMA StepInv ==
  ASSUME ChargesAdd, Inv, [Next]_vars
  PROVE  Inv'
<1>1. CASE Next
  <2>1. ASSUME Apply  PROVE Inv'
    BY ZenonT(30), <2>1, SetStep, AppliedStep, DeleteStep, EvictStep DEF Apply
  <2>2. ASSUME NEW k \in Keys, getInto(k)  PROVE Inv'  BY Zenon, <2>2, ReadStep
  <2> QED  BY ZenonT(30), <1>1, <2>1, <2>2, RecoverStep, SubmitStep, SweepStep DEF Next
<1>2. CASE UNCHANGED vars
  <2>1. /\ UNCHANGED list /\ requests' = requests /\ entries' = entries /\ recent' = recent /\ bytes' = bytes
        /\ phase' = phase /\ stamp' = stamp /\ now' = now /\ counted' = counted
        /\ sweep' = sweep /\ sweepNow' = sweepNow /\ sampled' = sampled /\ reclaimed' = reclaimed
    BY Zenon, <1>2 DEF vars, list, sweeper
  <2>2. ListInv' /\ Queued'  BY ZenonT(30), <2>1, KeptList, KeptQueue DEF Inv
  <2>3. Control' /\ Phased'  BY Zenon, <2>1 DEF Inv, Control, Phased
  <2> QED  BY ZenonT(30), <2>2, <2>3 DEF Inv
<1> QED  BY Zenon, <1>1, <1>2

-----------------------------------------------------------------------------
(* The shard implements the recency order.                                 *)

(* The remainder of what is less than the modulus.                         *)
LEMMA ModSmall == \A a \in Nat, m \in Nat \ {0} : a < m => a % m = a
  OBVIOUS

(* A remainder of what is at least the modulus and less than twice it.     *)
LEMMA ModNext == \A a \in Nat, m \in Nat \ {0} : m <= a /\ a < 2 * m => a % m = a - m
  OBVIOUS

(* The sum of a time and a TTL can be told from the int64 it wraps to.     *)
LEMMA AskedBack ==
  ASSUME NEW n \in 1..(2 * MaxInt)
  PROVE  Asked(Wrap(n)) = n
<1> DEFINE m == 2 * (MaxInt + 1)
           q == (n + MaxInt + 1) % m
<1>1. MaxInt \in Nat /\ n \in Nat  BY ShardAssumption
<1>2. m \in Nat \ {0} /\ n + MaxInt + 1 \in Nat  BY <1>1
<1>3. Wrap(n) = q - (MaxInt + 1)  BY Zenon DEF Wrap
<1>4. CASE n <= MaxInt
  <2>1. n + MaxInt + 1 < m  BY <1>1, <1>4
  <2> HIDE DEF m
  <2>2. q = n + MaxInt + 1  BY Zenon, <1>2, <2>1, ModSmall
  <2> QED  BY <1>1, <1>3, <2>2 DEF Asked
<1>5. CASE ~(n <= MaxInt)
  <2>1. m <= n + MaxInt + 1 /\ n + MaxInt + 1 < 2 * m  BY <1>1, <1>5
  <2>0. m = 2 * (MaxInt + 1) OBVIOUS
  <2> HIDE DEF m
  <2>2. q = (n + MaxInt + 1) - m  BY Zenon, <1>2, <2>1, ModNext
  <2> QED  BY <1>1, <1>3, <1>5, <2>0, <2>2 DEF Asked
<1> QED  BY <1>4, <1>5

(* What is asked for is a number that twice an int64 holds.                *)
LEMMA AskedTypes ==
  /\ \A d \in Deadlines : Asked(d) \in 0..(2 * MaxInt + 1)
  /\ Asked(0) = 0
  /\ \A t \in Time, ttl \in TTLs : Asked(Wrap(t + ttl)) = t + ttl
<1>1. MaxInt \in Nat /\ MaxTime \in 0..MaxInt /\ TTLs \subseteq 1..MaxInt  BY Zenon, ShardAssumption
<1>2. \A d \in Deadlines : Asked(d) \in 0..(2 * MaxInt + 1)  BY SMTT(30), <1>1 DEF Deadlines, Asked
<1>3. Asked(0) = 0  BY <1>1 DEF Asked
<1>4. \A t \in Time, ttl \in TTLs : t + ttl \in 1..(2 * MaxInt)  BY SMTT(30), <1>1 DEF Time
<1>5. \A t \in Time, ttl \in TTLs : Asked(Wrap(t + ttl)) = t + ttl  BY Zenon, <1>4, AskedBack
<1> QED  BY Zenon, <1>2, <1>3, <1>5

(* The requests of s, with the deadlines that were asked for.              *)
AskedFor(s) == [i \in 1..Len(s) |-> AsAsked(s[i])]

(* The first of them, and the rest.                                        *)
LEMMA AskedTail ==
  ASSUME NEW R, NEW s \in Seq(R), s # <<>>
  PROVE  /\ AskedFor(s) # <<>> /\ Head(AskedFor(s)) = AsAsked(Head(s))
         /\ AskedFor(Tail(s)) = Tail(AskedFor(s))
<1> DEFINE T == {AsAsked(r) : r \in R}
<1>1. Len(s) \in Nat \ {0} /\ \A i \in 1..Len(s) : s[i] \in R  BY SMTT(30)
<1>2. AskedFor(s) \in Seq(T) /\ Len(AskedFor(s)) = Len(s)
  <2>1. AskedFor(s) \in [1..Len(s) -> T]  BY Zenon, <1>1 DEF AskedFor
  <2> HIDE DEF T
  <2> QED  BY SMTT(30), <1>1, <2>1
<1>3. \A i \in 1..Len(s) : AskedFor(s)[i] = AsAsked(s[i])  BY Zenon DEF AskedFor
<1>4. Tail(s) \in Seq(R) /\ Len(Tail(s)) = Len(s) - 1 /\ \A i \in 1..(Len(s) - 1) : Tail(s)[i] = s[i + 1] /\ i + 1 \in 1..Len(s)
  BY SMTT(30), <1>1
<1> DEFINE u == AskedFor(Tail(s))
           v == Tail(AskedFor(s))
<1>5. \A i \in 1..(Len(s) - 1) : u[i] = AsAsked(s[i + 1])  BY Zenon, <1>4 DEF AskedFor
<1>6. v \in Seq(T) /\ Len(v) = Len(s) - 1 /\ \A i \in 1..(Len(s) - 1) : v[i] = AskedFor(s)[i + 1]
  <2> HIDE DEF T
  <2> QED  BY SMTT(30), <1>1, <1>2
<1>7. v = [i \in 1..(Len(s) - 1) |-> v[i]]  
  <2> HIDE DEF v, T
  <2> QED BY SMTT(30), <1>6, <1>1
<1>8. u = [i \in 1..(Len(s) - 1) |-> u[i]]  BY Zenon, <1>4 DEF AskedFor
<1>9. \A i \in 1..(Len(s) - 1) : u[i] = v[i]  BY Zenon, <1>3, <1>4, <1>5, <1>6
<1> HIDE DEF u, v
<1>10. u = v  BY Zenon, <1>7, <1>8, <1>9
<1>11. AskedFor(s) # <<>> /\ Head(AskedFor(s)) = AskedFor(s)[1] /\ Head(s) = s[1] /\ 1 \in 1..Len(s)
  <2> HIDE DEF T
  <2> QED BY SMTT(30), <1>1, <1>2
<1> QED  BY Zenon, <1>3, <1>10, <1>11 DEF u, v

(* One more of them.                                                       *)
LEMMA AskedAppend ==
  ASSUME NEW R, NEW s \in Seq(R), NEW r \in R
  PROVE  AskedFor(Append(s, r)) = Append(AskedFor(s), AsAsked(r))
<1> DEFINE T == {AsAsked(x) : x \in R}
           n == Len(s) + 1
           u == AskedFor(Append(s, r))
           v == Append(AskedFor(s), AsAsked(r))
<1>1. /\ Len(s) \in Nat /\ (\A i \in 1..Len(s) : s[i] \in R)
      /\ Len(Append(s, r)) = n
      /\ \A i \in 1..n : IF i = n THEN Append(s, r)[i] = r ELSE i \in 1..Len(s) /\ Append(s, r)[i] = s[i]
  BY SMTT(30)
<1>2. AskedFor(s) \in Seq(T) /\ Len(AskedFor(s)) = Len(s) /\ AsAsked(r) \in T
  <2>1. AskedFor(s) \in [1..Len(s) -> T] /\ AsAsked(r) \in T  BY Zenon, <1>1 DEF AskedFor
  <2> HIDE DEF T
  <2> QED  BY SMTT(30), <1>1, <2>1
<1>3. /\ v \in Seq(T) /\ Len(v) = n
      /\ \A i \in 1..n : v[i] = IF i = n THEN AsAsked(r) ELSE AskedFor(s)[i]
  <2> HIDE DEF T
  <2> QED  BY SMTT(30), <1>1, <1>2
<1>4. u = [i \in 1..n |-> AsAsked(Append(s, r)[i])]  BY Zenon, <1>1 DEF AskedFor
<1>5. \A i \in 1..n : v[i] = AsAsked(Append(s, r)[i])
  <2>1. \A i \in 1..Len(s) : AskedFor(s)[i] = AsAsked(s[i])  BY Zenon DEF AskedFor
  <2> HIDE DEF v, n
  <2> QED  BY Zenon, <1>1, <1>3, <2>1
<1>6. v = [i \in 1..n |-> v[i]]
  <2> HIDE DEF v, T, n
  <2> QED  BY SMTT(30), <1>3
<1> HIDE DEF u, v, n
<1>7. u = v  BY Zenon, <1>4, <1>5, <1>6
<1> QED  BY Zenon, <1>7 DEF u, v

(* The accepted writes are the requests.                                   *)
LEMMA AcceptedIs == Accepted = AskedFor(requests) /\ Accepted' = AskedFor(requests')
  BY Zenon DEF Accepted, AskedFor

(* A step that accepts nothing, applies nothing and does not end replay.   *)
Rests == requests' = requests /\ (phase' = "replay" <=> phase = "replay")

(* It leaves the accepted writes and the stage alone.                      *)
LEMMA StillAccepted ==
  ASSUME Rests
  PROVE  Accepted' = Accepted /\ Stage' = Stage
<1>1. Accepted' = Accepted  BY Zenon, AcceptedIs DEF Rests
<1>2. Stage' = Stage  BY Zenon DEF Rests, Stage
<1> QED  BY Zenon, <1>1, <1>2

(* The writer takes the oldest accepted write.                             *)
LEMMA Takes ==
  ASSUME Inv, requests # <<>>, requests' = Tail(requests)
  PROVE  /\ Accepted # <<>> /\ Head(Accepted) = AsAsked(Head(requests))
         /\ Accepted' = Tail(Accepted)
<1>1. requests \in Seq(Request)  BY Zenon DEF Inv, Control
<1> QED  BY ZenonT(30), <1>1, AskedTail, AcceptedIs

(* A list without a key is a list of keys.                                 *)
LEMMA RestTypes ==
  ASSUME NEW E, NEW r, NEW o, NEW s, Chained(E, r, o, s), NEW k
  PROVE  Rest(s, k) \in Seq(Keys)
<1>1. s \in Seq(Keys)  BY Zenon DEF Chained
<1>2. CASE k \notin DOMAIN E
  <2>1. Rest(s, k) = s  BY SMTT(30), <1>2, RestFacts
  <2> QED  BY Zenon, <1>1, <2>1
<1>3. CASE k \in DOMAIN E
  <2>1. PICK i \in 1..Len(s) : Rest(s, k) = Without(s, i)  BY SMTT(30), <1>3, RestFacts
  <2>2. Without(s, i) \in Seq(Keys)  BY Zenon, <1>1, WithoutFacts
  <2> QED  BY ZenonT(30), <2>1, <2>2
<1> QED  BY Zenon, <1>2, <1>3

(* Order is the list.                                                      *)
OrderIs == \A s : Chained(entries, recent, oldest, s) => Order = s

(* Held is the entries without their pointers.                             *)
HeldIs == /\ DOMAIN Held = DOMAIN entries /\ Fcn(Held)
          /\ \A k \in DOMAIN entries : Held[k] = [size |-> entries[k].size, deadline |-> Asked(entries[k].deadline)]

(* What is held is what the map holds.                                     *)
LEMMA HeldHere == HeldIs
  BY Zenon DEF HeldIs, Held, Fcn

(* What is held after a step is what the map then holds.                   *)
LEMMA HeldThere == HeldIs'
  BY HeldHere, PTL

(* The abstract order without a key is the list without it.                *)
LEMMA SameRest == ASSUME NEW s, NEW k PROVE Abstract!Without(s, k) = Rest(s, k)
  BY Zenon DEF Abstract!Without, Rest, Without

(* The abstract charge is the charge.                                      *)
LEMMA SameSum == ASSUME NEW f PROVE Abstract!SumFunction(f) = SumFunction(f)
<1>1. SumFunction(f) = (CHOOSE g : Adds(g, f, DOMAIN f))[DOMAIN f]
  BY Zenon DEF SumFunction, SumFunctionOnSet, FoldFunctionOnSet, MapThenFoldSet, Adds, Chosen
<1>2. Abstract!SumFunction(f) = (CHOOSE g : Adds(g, f, DOMAIN f))[DOMAIN f]
  BY Zenon DEF Abstract!SumFunction, Abstract!SumFunctionOnSet, Abstract!FoldFunctionOnSet,
               Abstract!MapThenFoldSet, Adds, Chosen
<1> QED  BY Zenon, <1>1, <1>2

(* A key in front of a sequence, as the abstract order writes it.          *)
LEMMA FrontedIs ==
  ASSUME NEW s \in Seq(Keys), NEW k \in Keys
  PROVE  <<k>> \o s = Fronted(k, s)
<1> DEFINE t == <<k>> \o s
           u == Fronted(k, s)
<1>1. /\ t \in Seq(Keys) /\ Len(t) = Len(s) + 1 /\ Len(s) \in Nat
      /\ \A m \in 1..(Len(s) + 1) : t[m] = IF m = 1 THEN k ELSE s[m - 1]
  OBVIOUS
<1>2. u \in Seq(Keys) /\ Len(u) = Len(s) + 1  BY Zenon, FrontedFacts
<1>3. \A m \in 1..(Len(s) + 1) : u[m] = IF m = 1 THEN k ELSE s[m - 1]  BY Zenon DEF Fronted
<1> HIDE DEF t, u
<1>4. /\ t = [m \in 1..(Len(s) + 1) |-> t[m]] /\ u = [m \in 1..(Len(s) + 1) |-> u[m]]
  BY SMTT(30), <1>1, <1>2
<1>5. \A m \in 1..(Len(s) + 1) : t[m] = u[m]  BY Zenon, <1>1, <1>3
<1>6. t = u  BY Zenon, <1>4, <1>5
<1> QED  BY Zenon, <1>6 DEF t, u

(* Two maps that hold the same under the same keys are equal.              *)
LEMMA SameFcn ==
  ASSUME NEW f, NEW g, Fcn(f), Fcn(g), DOMAIN f = DOMAIN g, \A x \in DOMAIN f : f[x] = g[x]
  PROVE  f = g
<1>1. f = [x \in DOMAIN f |-> f[x]] /\ g = [x \in DOMAIN f |-> g[x]]  BY Zenon DEF Fcn
<1> QED  BY Zenon, <1>1

(* A removal drops the entry from the abstract order.                      *)
LEMMA Drops ==
  ASSUME ChargesAdd, OrderIs, OrderIs', Inv, NEW k \in DOMAIN entries, Becomes(removeEntry(Shard, k))
  PROVE  Abstract!Drop(k)
<1>1. PICK s : Now(s)  BY Zenon, HasList
<1>2. /\ Then(Rest(s, k)) /\ DOMAIN entries' = DOMAIN entries \ {k}
      /\ SameData(entries', entries, DOMAIN entries')
  BY ZenonT(30), <1>1, Removal DEF Inv
<1>3. Order = s /\ Order' = Rest(s, k)
  BY ZenonT(30), <1>1, <1>2 DEF OrderIs, Now, Then, Whole
<1>4. Order' = Abstract!Others(k)  BY Zenon, <1>3, SameRest DEF Abstract!Others
<1>5. Held' = Abstract!Restrict(Held, DOMAIN Held \ {k})
  <2> DEFINE g == Abstract!Restrict(Held, DOMAIN Held \ {k})
  <2>1. DOMAIN g = DOMAIN Held \ {k} /\ Fcn(g) /\ \A x \in DOMAIN g : g[x] = Held[x]
    BY Zenon DEF Abstract!Restrict, Fcn
  <2> HIDE DEF g
  <2>2. Fcn(Held') /\ DOMAIN Held' = DOMAIN g  BY ZenonT(30), <1>2, <2>1, HeldHere, HeldThere DEF HeldIs
  <2>3. ASSUME NEW x \in DOMAIN g  PROVE Held'[x] = g[x]
    <3>1. x \in DOMAIN entries /\ x \in DOMAIN entries'  BY Zenon, <1>2, <2>1, HeldHere DEF HeldIs
    <3>2. /\ Held'[x] = [size |-> entries'[x].size, deadline |-> Asked(entries'[x].deadline)]
          /\ Held[x] = [size |-> entries[x].size, deadline |-> Asked(entries[x].deadline)]
      BY Zenon, <3>1, HeldHere, HeldThere DEF HeldIs
    <3>3. entries'[x].size = entries[x].size /\ entries'[x].deadline = entries[x].deadline
      BY Zenon, <1>2, <3>1 DEF SameData
    <3> QED  BY ZenonT(30), <2>1, <3>2, <3>3
  <2>4. Held' = g  BY ZenonT(30), <2>1, <2>2, <2>3, SameFcn
  <2> QED  BY Zenon, <2>4 DEF g
<1> QED  BY Zenon, <1>4, <1>5 DEF Abstract!Drop

(* A write brings its key to the front.                                    *)
LEMMA Writes ==
  ASSUME ChargesAdd, OrderIs, OrderIs', Inv, NEW k \in Keys, NEW size \in Sizes, NEW deadline \in Deadlines,
         Becomes(setEntry(Shard, k, size, deadline))
  PROVE  Abstract!Write(k, size, Asked(deadline))
<1>1. PICK s : Now(s)  BY Zenon, HasList
<1>2. /\ Then(Fronted(k, Rest(s, k))) /\ DOMAIN entries' = DOMAIN entries \cup {k}
      /\ SameData(entries', entries, DOMAIN entries \ {k})
      /\ entries'[k].size = size /\ entries'[k].deadline = deadline
  BY ZenonT(30), <1>1, Writing DEF Inv
<1>3. Order = s /\ Order' = Fronted(k, Rest(s, k))
  BY ZenonT(30), <1>1, <1>2 DEF OrderIs, Now, Then, Whole
<1>4. Chained(entries, recent, oldest, s)  BY Zenon, <1>1 DEF Now, Whole
<1>5. Order' = <<k>> \o Abstract!Others(k)
  <2>1. Rest(s, k) \in Seq(Keys)  BY SMTT(30), <1>4, RestTypes
  <2> QED  BY ZenonT(30), <1>3, <2>1, SameRest, FrontedIs DEF Abstract!Others
<1> DEFINE e == [size |-> size, deadline |-> Asked(deadline)]
           g == [j \in DOMAIN Held \cup {k} |-> IF j = k THEN e ELSE Held[j]]
<1> HIDE DEF e
<1>7. DOMAIN g = DOMAIN Held \cup {k} /\ Fcn(g) /\ g[k] = e /\ \A x \in DOMAIN Held \ {k} : g[x] = Held[x]
  BY Zenon DEF Fcn
<1> HIDE DEF g
<1>8. Fcn(Held') /\ DOMAIN Held' = DOMAIN g  BY ZenonT(30), <1>2, <1>7, HeldHere, HeldThere DEF HeldIs
<1>9. ASSUME NEW x \in DOMAIN g  PROVE Held'[x] = g[x]
  <2>1. x \in DOMAIN entries' /\ (x # k => x \in DOMAIN entries)  BY ZenonT(30), <1>2, <1>7, HeldHere DEF HeldIs
  <2>2. /\ Held'[x] = [size |-> entries'[x].size, deadline |-> Asked(entries'[x].deadline)]
        /\ x # k => Held[x] = [size |-> entries[x].size, deadline |-> Asked(entries[x].deadline)]
    BY ZenonT(30), <2>1, HeldHere, HeldThere DEF HeldIs
  <2>3. CASE x = k  BY ZenonT(30), <1>2, <1>7, <2>2, <2>3 DEF e
  <2>4. CASE x # k
    <3>1. entries'[x].size = entries[x].size /\ entries'[x].deadline = entries[x].deadline
      BY ZenonT(30), <1>2, <2>1, <2>4 DEF SameData
    <3>2. g[x] = Held[x]  BY ZenonT(30), <1>7, <2>1, <2>4, HeldHere DEF HeldIs
    <3> QED  BY ZenonT(30), <2>2, <2>4, <3>1, <3>2
  <2> QED  BY Zenon, <2>3, <2>4
<1>10. Held' = g  BY ZenonT(30), <1>7, <1>8, <1>9, SameFcn
<1> QED  BY Zenon, <1>5, <1>10 DEF Abstract!Write, g, e

(* A hit brings its key to the front and leaves what is held alone.        *)
LEMMA Hits ==
  ASSUME OrderIs, OrderIs', Inv, NEW k \in DOMAIN entries, Becomes(markRecent(Shard, k))
  PROVE  Order' = <<k>> \o Abstract!Others(k) /\ Held' = Held
<1>1. PICK s : Now(s)  BY Zenon, HasList
<1>2. /\ Then(Fronted(k, Rest(s, k))) /\ DOMAIN entries' = DOMAIN entries
      /\ SameData(entries', entries, DOMAIN entries)
  BY ZenonT(30), <1>1, Marking DEF Inv
<1>3. Order = s /\ Order' = Fronted(k, Rest(s, k))
  BY ZenonT(30), <1>1, <1>2 DEF OrderIs, Now, Then, Whole
<1>4. Chained(entries, recent, oldest, s) /\ k \in Keys  BY Zenon, <1>1 DEF Now, Whole, Sound
<1>5. Order' = <<k>> \o Abstract!Others(k)
  <2>1. Rest(s, k) \in Seq(Keys)  BY SMTT(30), <1>4, RestTypes
  <2> QED  BY ZenonT(30), <1>3, <1>4, <2>1, SameRest, FrontedIs DEF Abstract!Others
<1>6. Held' = Held
  <2>1. Fcn(Held') /\ Fcn(Held) /\ DOMAIN Held' = DOMAIN Held  BY ZenonT(30), <1>2, HeldHere, HeldThere DEF HeldIs
  <2>2. ASSUME NEW x \in DOMAIN Held'  PROVE Held'[x] = Held[x]
    <3>1. x \in DOMAIN entries /\ x \in DOMAIN entries'  BY Zenon, <1>2, HeldThere DEF HeldIs
    <3>2. /\ Held'[x] = [size |-> entries'[x].size, deadline |-> Asked(entries'[x].deadline)]
          /\ Held[x] = [size |-> entries[x].size, deadline |-> Asked(entries[x].deadline)]
      BY Zenon, <3>1, HeldHere, HeldThere DEF HeldIs
    <3>3. entries'[x].size = entries[x].size /\ entries'[x].deadline = entries[x].deadline
      BY Zenon, <1>2, <3>1 DEF SameData
    <3> QED  BY Zenon, <3>2, <3>3
  <2> QED  BY Zenon, <2>1, <2>2, SameFcn
<1> QED  BY Zenon, <1>5, <1>6

(* A step that leaves the fields alone leaves the order and what is held   *)
(* alone.                                                                  *)
LEMMA Keeps ==
  ASSUME OrderIs, OrderIs', Inv, UNCHANGED list
  PROVE  Order' = Order /\ Held' = Held
<1>1. entries' = entries /\ recent' = recent /\ oldest' = oldest  BY Zenon DEF list
<1>2. PICK s : Chained(entries, recent, oldest, s)  BY Zenon, HasList DEF Now, Whole
<1>3. Chained(entries', recent', oldest', s)  BY Zenon, <1>1, <1>2
<1>4. Order = s /\ Order' = s  BY ZenonT(30), <1>2, <1>3 DEF OrderIs
<1>5. Held' = Held  BY Zenon, <1>1 DEF Held
<1> QED  BY Zenon, <1>4, <1>5

(* Nobody but callers can see that time passes.                            *)
LEMMA Passes ==
  ASSUME OrderIs, OrderIs', Inv, UNCHANGED list, counted' = {}, now' >= now, Rests
  PROVE  Abstract!Next
<1>1. Order' = Order /\ Held' = Held /\ Accepted' = Accepted /\ Stage' = Stage  BY Zenon, Keeps, StillAccepted
<1>2. Abstract!Pass  BY Zenon, <1>1 DEF Abstract!Pass
<1> QED  BY Zenon, <1>2 DEF Abstract!Next

(* An entry past its deadline at a time that is not ahead of the clock is  *)
(* past the deadline asked for, or that one has no int64; and an entry that*)
(* is not at the time of the clock has not expired.                        *)
LEMMA Expiry ==
  ASSUME Inv, NEW k \in DOMAIN entries
  PROVE  /\ \A t \in Time : t <= now /\ deadlinePassed(entries[k].deadline, t) => Abstract!Expired(k)
         /\ ~deadlinePassed(entries[k].deadline, now) => ~Abstract!Expired(k)
<1> DEFINE d == entries[k].deadline
           a == Asked(d)
<1>1. Held[k].deadline = a
  <2>1. Held[k] = [size |-> entries[k].size, deadline |-> a]  BY Zenon, HeldHere DEF HeldIs
  <2> HIDE DEF a
  <2> QED  BY SMTT(30), <2>1
<1>2. Abstract!Expired(k) <=> a # 0 /\ (a <= now \/ a > MaxInt)  BY Zenon, <1>1 DEF Abstract!Expired
<1>3. d \in Deadlines
  <2>1. \E s : Now(s)  BY Zenon, HasList
  <2>2. entries[k] \in Entry  BY Zenon, <2>1 DEF Now, Whole, Sound
  <2> QED  BY SMTT(30), <2>2 DEF Entry
<1>4. MaxInt \in Nat /\ MaxTime \in Nat /\ MaxTime <= MaxInt /\ now \in Time
  BY SMTT(30), ShardAssumption DEF Inv, Control
<1>5. a = IF d < 0 THEN d + 2 * (MaxInt + 1) ELSE d  BY Zenon DEF Asked
<1> HIDE DEF d, a
<1>6. /\ \A t \in Time : t <= now /\ d # 0 /\ t >= d => a # 0 /\ (a <= now \/ a > MaxInt)
      /\ ~(d # 0 /\ now >= d) => ~(a # 0 /\ (a <= now \/ a > MaxInt))
  BY SMTT(30), <1>3, <1>4, <1>5 DEF Time, Deadlines
<1> QED  BY Zenon, <1>2, <1>6 DEF deadlinePassed, d

(* A removal that counts is the expiry of an entry past its deadline.      *)
LEMMA Expires ==
  ASSUME ChargesAdd, OrderIs, OrderIs', Inv, NEW k \in DOMAIN entries, Becomes(removeEntry(Shard, k)),
         now' = now, Rests, counted' \in {{"expiries"}, {"expiries", "misses"}},
         \E t \in Time : t <= now /\ deadlinePassed(entries[k].deadline, t)
  PROVE  Abstract!Next
<1>1. Abstract!Drop(k)  BY Zenon, Drops
<1>2. k \in DOMAIN Held  BY Zenon, HeldHere DEF HeldIs
<1>3. Abstract!Expired(k)  BY Zenon, Expiry
<1>4. Accepted' = Accepted /\ Stage' = Stage  BY Zenon, StillAccepted
<1>5. Abstract!Expire(k)  BY Zenon, <1>1, <1>3, <1>4 DEF Abstract!Expire
<1> QED  BY Zenon, <1>2, <1>5 DEF Abstract!Next

(* A delete drops its key, also when the shard does not hold it.           *)
LEMMA Deletes ==
  ASSUME ChargesAdd, OrderIs, OrderIs', Inv, NEW k,
         \/ k \in DOMAIN entries /\ Becomes(removeEntry(Shard, k))
         \/ k \notin DOMAIN entries /\ UNCHANGED list
  PROVE  Abstract!Drop(k)
<1>1. CASE k \in DOMAIN entries  BY Zenon, <1>1, Drops
<1>2. CASE k \notin DOMAIN entries
  <2>1. Order' = Order /\ Held' = Held  BY Zenon, <1>2, Keeps
  <2>2. PICK s : Chained(entries, recent, oldest, s)  BY Zenon, HasList DEF Now, Whole
  <2>3. Abstract!Others(k) = Order
    <3>1. Order = s  BY Zenon, <2>2 DEF OrderIs
    <3>2. Rest(s, k) = s  BY SMTT(30), <1>2, <2>2, RestFacts
    <3> QED  BY Zenon, <3>1, <3>2, SameRest DEF Abstract!Others
  <2>4. Abstract!Restrict(Held, DOMAIN Held \ {k}) = Held
    <3>1. DOMAIN Held = DOMAIN entries /\ Held = [x \in DOMAIN Held |-> Held[x]]
      BY Zenon, HeldHere DEF HeldIs, Fcn
    <3>2. DOMAIN Held \ {k} = DOMAIN Held  BY Zenon, <1>2, <3>1
    <3> QED  BY Zenon, <3>1, <3>2 DEF Abstract!Restrict
  <2> QED  BY Zenon, <2>1, <2>3, <2>4 DEF Abstract!Drop
<1> QED  BY Zenon, <1>1, <1>2

(* The eviction loop removes what is at the back of the order while there  *)
(* is too much.                                                            *)
LEMMA Evicts ==
  ASSUME ChargesAdd, OrderIs, OrderIs', Inv, evictToCapacity
  PROVE  Abstract!Next
<1>1. /\ bytes > Capacity /\ Becomes(removeEntry(Shard, oldest)) /\ now' = now /\ Rests
      /\ counted' = IF deadlinePassed(entries[oldest].deadline, stamp) THEN {"expiries"} ELSE {"evictions"}
  BY Zenon DEF evictToCapacity, Remove, Rests
<1>2. oldest \in DOMAIN entries  BY Zenon, <1>1, OverCapacity
<1>3. stamp \in Time /\ stamp <= now  BY Zenon DEF Inv, Control
<1>4. CASE deadlinePassed(entries[oldest].deadline, stamp)
  <2>1. counted' = {"expiries"}  BY Zenon, <1>1, <1>4
  <2> QED  BY ZenonT(30), <1>1, <1>2, <1>3, <1>4, <2>1, Expires
<1>5. CASE ~deadlinePassed(entries[oldest].deadline, stamp)
  <2>1. counted' = {"evictions"}  BY ZenonT(30), <1>1, <1>5
  <2>2. PICK s : Now(s)  BY Zenon, HasList
  <2>3. Chained(entries, recent, oldest, s) /\ bytes = SumFunction(Charges(entries))  BY Zenon, <2>2 DEF Now, Whole
  <2>4. Order = s  BY Zenon, <2>3 DEF OrderIs
  <2>5. Len(s) # 0
    <3>1. s \in Seq(Keys) /\ \E i \in 1..Len(s) : TRUE  BY Zenon, <1>2, <2>3 DEF Chained
    <3> QED  BY SMTT(30), <3>1
  <2>6. oldest = Order[Len(Order)] /\ Order # <<>>
    <3>1. oldest = s[Len(s)]  BY Zenon, <2>3, <2>5 DEF Chained
    <3>2. s # <<>>  BY SMTT(30), <2>5
    <3> QED  BY ZenonT(30), <2>4, <3>1, <3>2
  <2>7. Abstract!Charged = bytes
    <3>1. \A k \in DOMAIN entries : Held[k].size = entries[k].size
      <4> TAKE k \in DOMAIN entries
      <4>1. Held[k] = [size |-> entries[k].size, deadline |-> Asked(entries[k].deadline)]  BY Zenon, HeldHere DEF HeldIs
      <4> QED  BY SMTT(30), <4>1
    <3>2. DOMAIN Held = DOMAIN entries  BY Zenon, HeldHere DEF HeldIs
    <3>3. [k \in DOMAIN Held |-> Held[k].size] = Charges(entries)  BY Zenon, <3>1, <3>2 DEF Charges
    <3>4. Abstract!Charged = Abstract!SumFunction(Charges(entries))  BY Zenon, <3>3 DEF Abstract!Charged
    <3> QED  BY ZenonT(30), <2>3, <3>4, SameSum
  <2>8. Abstract!Drop(Order[Len(Order)])  BY ZenonT(30), <1>1, <1>2, <2>6, Drops
  <2>9. Abstract!Evict
    <3>1. Accepted' = Accepted /\ Stage' = Stage  BY Zenon, <1>1, StillAccepted
    <3> QED  BY ZenonT(30), <1>1, <2>1, <2>6, <2>7, <2>8, <3>1 DEF Abstract!Evict
  <2> QED  BY Zenon, <2>9 DEF Abstract!Next
<1> QED  BY Zenon, <1>4, <1>5

(* A record of the log is replayed.                                        *)
LEMMA Replays ==
  ASSUME ChargesAdd, OrderIs, OrderIs', Inv, NEW k \in Keys,
         \/ \E size \in Sizes, deadline \in RecoveredDeadlines : applyRecoveredSet(k, size, deadline)
         \/ RecoverDelete(k)
  PROVE  Abstract!Next
<1>1. /\ phase = "replay" /\ counted' = {} /\ now' = now /\ Rests
      /\ \/ \E size \in Sizes, deadline \in RecoveredDeadlines : Becomes(setEntry(Shard, k, size, deadline))
         \/ k \in DOMAIN entries /\ Becomes(removeEntry(Shard, k))
  BY Zenon DEF applyRecoveredSet, RecoverDelete, Remove, Rests
<1>2. now \in Time  BY Zenon DEF Inv, Control
<1>3. \/ Abstract!Drop(k)
      \/ \E size \in Sizes, deadline \in 0..(2 * MaxInt + 1) : Abstract!Write(k, size, deadline)
  <2>1. ASSUME NEW size \in Sizes, NEW deadline \in RecoveredDeadlines,
               Becomes(setEntry(Shard, k, size, deadline))
        PROVE  /\ Abstract!Write(k, size, Asked(deadline)) /\ Asked(deadline) \in 0..(2 * MaxInt + 1)
    <3>1. deadline \in Deadlines  BY Zenon, <1>2, DeadlineTypes
    <3>2. Asked(deadline) \in 0..(2 * MaxInt + 1)  BY Zenon, <3>1, AskedTypes
    <3> QED  BY ZenonT(30), <2>1, <3>1, <3>2, Writes
  <2> QED  BY ZenonT(30), <1>1, <2>1, Drops
<1>4. Stage = "opening" /\ Accepted' = Accepted /\ Stage' = Stage  BY Zenon, <1>1, StillAccepted DEF Stage
<1>5. Abstract!Replay  BY ZenonT(30), <1>1, <1>3, <1>4 DEF Abstract!Replay
<1> QED  BY Zenon, <1>5 DEF Abstract!Next

(* A write is accepted with the deadline that its caller asked for.        *)
LEMMA Accepts ==
  ASSUME OrderIs, OrderIs', Inv, Submit
  PROVE  Abstract!Next
<1>1. now \in Time  BY Zenon DEF Inv, Control
<1>2. PICK k \in Keys :
        \/ \E size \in Sizes : Set(k, size) \/ \E ttl \in TTLs : SetTTL(k, size, ttl)
        \/ Delete(k)
  BY Zenon DEF Submit
<1>3. ASSUME NEW op, NEW size, NEW deadline, Accept(op, k, size, deadline),
             [op |-> op, key |-> k, size |-> size, deadline |-> deadline] \in Request
      PROVE  /\ Stage = "open" /\ counted' = {} /\ now' = now
             /\ Order' = Order /\ Held' = Held /\ Stage' = Stage
             /\ Accepted' = Append(Accepted, [op |-> op, key |-> k, size |-> size, deadline |-> Asked(deadline)])
  <2> DEFINE r == [op |-> op, key |-> k, size |-> size, deadline |-> deadline]
  <2>1. /\ phase \notin Opening /\ requests' = Append(requests, r) /\ counted' = {}
        /\ UNCHANGED list /\ phase' = phase /\ now' = now
    BY Zenon, <1>3 DEF Accept
  <2>2. Stage = "open" /\ Stage' = Stage  BY Zenon, <2>1 DEF Stage, Opening
  <2>3. Order' = Order /\ Held' = Held  BY Zenon, <2>1, Keeps
  <2>4. requests \in Seq(Request)  BY Zenon DEF Inv, Control
  <2>5. AsAsked(r) = [op |-> op, key |-> k, size |-> size, deadline |-> Asked(deadline)]  BY Zenon DEF AsAsked
  <2>6. r \in Request  BY Zenon, <1>3
  <2> HIDE DEF r
  <2>7. Accepted' = Append(Accepted, AsAsked(r))  BY ZenonT(30), <2>1, <2>4, <2>6, AskedAppend, AcceptedIs
  <2> QED  BY Zenon, <2>1, <2>2, <2>3, <2>5, <2>7
<1>4. ASSUME NEW op \in {"set", "delete"}, NEW size \in Sizes \cup {0}, NEW deadline \in Deadlines
      PROVE  [op |-> op, key |-> k, size |-> size, deadline |-> deadline] \in Request
  BY Zenon DEF Request
<1>5. 0 \in Deadlines /\ \A ttl \in TTLs : Wrap(now + ttl) \in Deadlines  BY Zenon, <1>1, DeadlineTypes
<1>6. Asked(0) = 0 /\ \A ttl \in TTLs : Asked(Wrap(now + ttl)) = now + ttl  BY Zenon, <1>1, AskedTypes
<1>7. ASSUME NEW size \in Sizes, NEW deadline \in Deadlines, Accept("set", k, size, deadline), size <= Capacity,
             Asked(deadline) \in {0} \cup {now + ttl : ttl \in TTLs}
      PROVE  Abstract!Accept
  BY ZenonT(30), <1>3, <1>4, <1>7 DEF Abstract!Accept
<1>8. ASSUME NEW size \in Sizes, Set(k, size)  PROVE Abstract!Accept
  BY ZenonT(30), <1>5, <1>6, <1>7, <1>8 DEF Set
<1>9. ASSUME NEW size \in Sizes, NEW ttl \in TTLs, SetTTL(k, size, ttl)  PROVE Abstract!Accept
  BY ZenonT(30), <1>5, <1>6, <1>7, <1>9 DEF SetTTL
<1>10. ASSUME Delete(k)  PROVE Abstract!Accept
  <2>1. Accept("delete", k, 0, 0)  BY Zenon, <1>10 DEF Delete
  <2> QED  BY ZenonT(30), <1>3, <1>4, <1>5, <1>6, <2>1 DEF Abstract!Accept
<1>11. Abstract!Accept  BY Zenon, <1>2, <1>8, <1>9, <1>10
<1> QED  BY Zenon, <1>11 DEF Abstract!Next

(* The oldest accepted write is applied.                                   *)
LEMMA Applies ==
  ASSUME ChargesAdd, OrderIs, OrderIs', Inv, applySet \/ applyDelete
  PROVE  Abstract!Next
<1> DEFINE r == Head(requests)
           a == AsAsked(r)
<1>1. /\ requests # <<>> /\ requests' = Tail(requests) /\ counted' = {} /\ now' = now
      /\ phase = "free" /\ phase' # "replay"
  BY Zenon DEF applySet, applyDelete, Remove
<1>2. r \in Request /\ (r.op = "set" => r.size \in Sizes)  BY Zenon, <1>1, FirstRequest DEF Inv
<1>3. Accepted # <<>> /\ Head(Accepted) = a /\ Accepted' = Tail(Accepted)  BY Zenon, <1>1, Takes
<1>4. Stage' = Stage  BY Zenon, <1>1 DEF Stage
<1>5. a.op = r.op /\ a.key = r.key /\ a.size = r.size /\ a.deadline = Asked(r.deadline)  BY Zenon DEF AsAsked
<1>6. (a.op = "set" /\ Abstract!Write(a.key, a.size, a.deadline)) \/ (a.op = "delete" /\ Abstract!Drop(a.key))
  <2>1. CASE applySet
    <3>1. Becomes(setEntry(Shard, r.key, r.size, r.deadline)) /\ r.op = "set"  BY Zenon, <2>1 DEF applySet
    <3>2. r.key \in Keys /\ r.deadline \in Deadlines
      <4> HIDE DEF r
      <4> QED  BY SMTT(30), <1>2 DEF Request
    <3> HIDE DEF r, a
    <3>3. Abstract!Write(r.key, r.size, Asked(r.deadline))  BY ZenonT(30), <1>2, <3>1, <3>2, Writes
    <3> QED  BY Zenon, <1>5, <3>1, <3>3
  <2>2. CASE applyDelete
    <3>1. /\ r.op = "delete"
          /\ \/ r.key \in DOMAIN entries /\ Becomes(removeEntry(Shard, r.key))
             \/ r.key \notin DOMAIN entries /\ UNCHANGED list
      BY Zenon, <2>2 DEF applyDelete, Remove
    <3> HIDE DEF r, a
    <3>2. Abstract!Drop(r.key)  BY ZenonT(30), <3>1, Deletes
    <3> QED  BY Zenon, <1>5, <3>1, <3>2
  <2> QED  BY Zenon, <2>1, <2>2
<1> HIDE DEF a
<1>7. Abstract!Apply  BY ZenonT(30), <1>1, <1>3, <1>4, <1>6 DEF Abstract!Apply
<1> QED  BY Zenon, <1>7 DEF Abstract!Next

(* Every step of the shard is a step of the recency order, or none.        *)
LEMMA StepOrder ==
  ASSUME ChargesAdd, OrderIs, OrderIs', Inv, [Next]_vars
  PROVE  [Abstract!Next]_(Abstract!vars)
<1>1. now \in Time /\ sweepNow \in Time /\ sweepNow <= now /\ stamp \in Time /\ stamp <= now
  BY Zenon DEF Inv, Control
<1>2. now \in Int /\ now >= now /\ now <= now  BY SMTT(30), <1>1, ShardAssumption DEF Time
<1>3. ASSUME UNCHANGED list, counted' = {}, now' = now, Rests  PROVE Abstract!Next
  BY Zenon, <1>2, <1>3, Passes
<1>4. CASE Recover
  <2>1. ASSUME NEW k \in Keys, reclaimExpired(k)  PROVE Abstract!Next
    <3>1. /\ k \in DOMAIN entries /\ Becomes(removeEntry(Shard, k)) /\ counted' = {"expiries"} /\ now' = now
          /\ deadlinePassed(entries[k].deadline, stamp) /\ Rests
      BY Zenon, <2>1 DEF reclaimExpired, Reclaimable, Remove, Rests
    <3> QED  BY ZenonT(30), <1>1, <3>1, Expires
  <2>2. CASE enforceRecoveredState
    <3>1. /\ UNCHANGED list /\ counted' = {} /\ now' = now /\ requests' = requests
          /\ phase = "replay" /\ phase' = "reclaim"
      BY Zenon, <2>2 DEF enforceRecoveredState
    <3>2. Order' = Order /\ Held' = Held /\ Accepted' = Accepted
      BY Zenon, <3>1, Keeps, AcceptedIs
    <3>3. Stage = "opening" /\ Stage' = "open"  BY Zenon, <3>1 DEF Stage
    <3>4. Abstract!Opened  BY Zenon, <3>1, <3>2, <3>3 DEF Abstract!Opened
    <3> QED  BY Zenon, <3>4 DEF Abstract!Next
  <2>3. CASE ReclaimEnds
    <3>1. UNCHANGED list /\ counted' = {} /\ now' = now /\ Rests  BY Zenon, <2>3 DEF ReclaimEnds, Rests
    <3> QED  BY Zenon, <1>3, <3>1
  <2> QED  BY ZenonT(30), <1>4, <2>1, <2>2, <2>3, Replays DEF Recover
<1>5. CASE Submit  BY Zenon, <1>5, Accepts
<1>6. CASE Apply
  <2>1. CASE AppliedExpired
    <3>1. /\ Becomes(removeEntry(Shard, recent)) /\ counted' = {"expiries"} /\ now' = now
          /\ deadlinePassed(entries[recent].deadline, now) /\ recent \in DOMAIN entries /\ Rests
      BY ZenonT(30), <2>1 DEF AppliedExpired, Remove, Inv, Phased, Rests
    <3> QED  BY ZenonT(30), <1>1, <1>2, <3>1, Expires
  <2>2. CASE AppliedLive
    <3>1. UNCHANGED list /\ counted' = {} /\ now' = now /\ Rests  BY Zenon, <2>2 DEF AppliedLive, Rests
    <3> QED  BY Zenon, <1>3, <3>1
  <2>3. CASE EvictionEnds
    <3>1. UNCHANGED list /\ counted' = {} /\ now' = now /\ Rests  BY Zenon, <2>3 DEF EvictionEnds, Rests
    <3> QED  BY Zenon, <1>3, <3>1
  <2> QED  BY ZenonT(30), <1>6, <2>1, <2>2, <2>3, Applies, Evicts DEF Apply
<1>7. CASE Sweep
  <2>1. CASE SweepBegins \/ SweepLocks \/ SweepUnlocks
    <3>1. UNCHANGED list /\ counted' = {} /\ now' = now /\ Rests
      BY Zenon, <2>1 DEF SweepBegins, SweepLocks, SweepUnlocks, Rests
    <3> QED  BY Zenon, <1>3, <3>1
  <2>2. ASSUME NEW k \in Keys, SweepVisits(k)  PROVE Abstract!Next
    <3>1. /\ now' = now /\ k \in DOMAIN entries /\ Rests
          /\ \/ UNCHANGED list /\ counted' = {}
             \/ /\ Becomes(removeEntry(Shard, k)) /\ counted' = {"expiries"}
                /\ deadlinePassed(entries[k].deadline, sweepNow)
      BY Zenon, <2>2 DEF SweepVisits, Remove, Rests
    <3> QED  BY ZenonT(30), <1>1, <1>3, <3>1, Expires
  <2> QED  BY ZenonT(30), <1>7, <2>1, <2>2 DEF Sweep
<1>8. CASE Tick
  <2>1. UNCHANGED list /\ counted' = {} /\ now' = now + 1 /\ Rests  BY Zenon, <1>8 DEF Tick, Rests
  <2>2. now' >= now  BY SMTT(30), <1>2, <2>1
  <2> QED  BY Zenon, <2>1, <2>2, Passes
<1>9. ASSUME NEW k \in Keys, getInto(k)  PROVE Abstract!Next
  <2>1. now' = now /\ Rests  BY Zenon, <1>9 DEF getInto, Rests
  <2>2. CASE k \notin DOMAIN entries
    <3>1. counted' = {"misses"} /\ UNCHANGED list  BY Zenon, <1>9, <2>2 DEF getInto
    <3>2. Order' = Order /\ Held' = Held /\ k \notin DOMAIN Held /\ Accepted' = Accepted /\ Stage' = Stage
      BY ZenonT(30), <2>1, <2>2, <3>1, Keeps, StillAccepted, HeldHere DEF HeldIs
    <3>3. Abstract!Miss(k)  BY Zenon, <2>1, <3>1, <3>2 DEF Abstract!Miss
    <3> QED  BY Zenon, <3>3 DEF Abstract!Next
  <2>3. CASE k \in DOMAIN entries /\ deadlinePassed(entries[k].deadline, now)
    <3>1. Becomes(removeEntry(Shard, k)) /\ counted' = {"expiries", "misses"}
      BY Zenon, <1>9, <2>3 DEF getInto, Remove
    <3> QED  BY ZenonT(30), <1>1, <1>2, <2>1, <2>3, <3>1, Expires
  <2>4. CASE k \in DOMAIN entries /\ ~deadlinePassed(entries[k].deadline, now)
    <3>1. Becomes(markRecent(Shard, k)) /\ counted' = {"hits"}  BY Zenon, <1>9, <2>4 DEF getInto
    <3>2. Order' = <<k>> \o Abstract!Others(k) /\ Held' = Held  BY Zenon, <2>4, <3>1, Hits
    <3>3. ~Abstract!Expired(k) /\ k \in DOMAIN Held  BY Zenon, <2>4, Expiry, HeldHere DEF HeldIs
    <3>4. Accepted' = Accepted /\ Stage' = Stage  BY Zenon, <2>1, StillAccepted
    <3>5. Abstract!Hit(k)  BY Zenon, <2>1, <3>1, <3>2, <3>3, <3>4 DEF Abstract!Hit
    <3> QED  BY Zenon, <3>3, <3>5 DEF Abstract!Next
  <2> QED  BY Zenon, <2>2, <2>3, <2>4
<1>10. CASE UNCHANGED vars
  <2>1. UNCHANGED list /\ counted' = counted /\ now' = now /\ Rests  BY Zenon, <1>10 DEF vars, Rests
  <2>2. Order' = Order /\ Held' = Held /\ Accepted' = Accepted /\ Stage' = Stage
    BY Zenon, <2>1, Keeps, StillAccepted
  <2> QED  BY Zenon, <2>1, <2>2 DEF Abstract!vars
<1> QED  BY ZenonT(30), <1>4, <1>5, <1>6, <1>7, <1>8, <1>9, <1>10 DEF Next

(* The empty shard is the empty order.                                     *)
LEMMA InitOrder == ChargesAdd /\ OrderIs /\ Init => Abstract!Init
<1> SUFFICES ASSUME ChargesAdd, OrderIs, Init PROVE Abstract!Init  BY Zenon
<1>1. entries = <<>> /\ counted = {}  BY Zenon DEF Init
<1>2. PICK s : Now(s)  BY Zenon, InitInv, HasList
<1>3. Chained(entries, recent, oldest, s)  BY Zenon, <1>2 DEF Now, Whole
<1>4. DOMAIN entries = {}  BY <1>1
<1>5. Order = <<>>
  <2>1. Order = s  BY Zenon, <1>3 DEF OrderIs
  <2>2. s \in Seq(Keys) /\ \A i \in 1..Len(s) : s[i] \in {}  BY Zenon, <1>3, <1>4 DEF Chained
  <2>3. s = <<>>  BY SMTT(30), <2>2
  <2> QED  BY Zenon, <2>1, <2>3
<1>6. Held = <<>>
  <2>1. DOMAIN Held = {} /\ Held = [x \in {} |-> Held[x]]  BY Zenon, <1>4, HeldHere DEF HeldIs, Fcn
  <2>2. <<>> = [x \in {} |-> Held[x]]  OBVIOUS
  <2> QED  BY ZenonT(30), <2>1, <2>2
<1>7. Accepted = <<>> /\ Stage = "opening"
  <2>1. requests = <<>> /\ phase = "replay"  BY Zenon DEF Init
  <2>2. 1..Len(requests) = {}  BY <2>1
  <2>3. Accepted = [i \in {} |-> AsAsked(requests[i])]  BY Zenon, <2>2 DEF Accepted
  <2>4. <<>> = [i \in {} |-> AsAsked(requests[i])]  OBVIOUS
  <2>5. Stage = "opening"  BY Zenon, <2>1 DEF Stage
  <2> QED  BY Zenon, <2>3, <2>4, <2>5
<1> QED  BY Zenon, <1>1, <1>5, <1>6, <1>7 DEF Abstract!Init

-----------------------------------------------------------------------------
(* Sums over the entries.                                                  *)

INSTANCE FiniteSetTheorems

(* A family of subsets of a finite set has a minimal member.               *)
LEMMA MinimalSubset ==
  ASSUME NEW T, IsFiniteSet(T), NEW A, A \subseteq SUBSET T, A # {}
  PROVE  \E V \in A : \A W \in A : W \subseteq V => W = V
<1> DEFINE R == StrictSubsetOrdering(T)
<1>1. IsWellFoundedOn(R, SUBSET T)
  BY Zenon, FS_StrictSubsetOrderingWellFounded, FS_FiniteSubsetsOfFinite
<1>2. PICK V \in A : \A W \in A : ~ (<<W, V>> \in R)
  <2> HIDE DEF R
  <2> QED  BY Zenon, <1>1, WFMin
<1>3. ASSUME NEW W \in A, W \subseteq V, W # V  PROVE FALSE
  <2>1. <<W, V>> \in R  BY <1>3 DEF StrictSubsetOrdering
  <2> QED  BY Zenon, <1>2, <1>3, <2>1
<1> QED  BY Zenon, <1>3

(* One step of the recursion.                                              *)
LEMMA AddsFacts ==
  ASSUME NEW g, NEW f, NEW T, Adds(g, f, T), NEW s \in SUBSET T
  PROVE  /\ s = {} => g[s] = 0
         /\ s # {} => /\ Chosen(s) \in s /\ s \ {Chosen(s)} \in SUBSET T /\ s \ {Chosen(s)} # s
                      /\ g[s] = f[Chosen(s)] + g[s \ {Chosen(s)}]
<1>1. s # {} => Chosen(s) \in s  BY Zenon DEF Chosen
<1>2. s # {} => s \ {Chosen(s)} \in SUBSET T /\ s \ {Chosen(s)} # s  BY Zenon, <1>1
<1>3. g[s] = IF s = {} THEN 0 ELSE f[Chosen(s)] + g[s \ {Chosen(s)}]  BY Zenon DEF Adds
<1> QED  BY Zenon, <1>1, <1>2, <1>3

(* The recursion has one solution, and the values outside do not matter.   *)
LEMMA AddsOnce ==
  ASSUME NEW g, NEW f, NEW T, Adds(g, f, T), NEW h, NEW e, NEW R, Adds(h, e, R),
         NEW U, IsFiniteSet(U), U \subseteq T, U \subseteq R, \A x \in U : f[x] = e[x]
  PROVE  g[U] = h[U]
<1> DEFINE A == {V \in SUBSET U : g[V] # h[V]}
<1> SUFFICES ASSUME A # {} PROVE FALSE  BY Zenon
<1>1. PICK V \in A : \A W \in A : W \subseteq V => W = V
  <2>1. A \subseteq SUBSET U  BY Zenon
  <2> HIDE DEF A
  <2> QED  BY SMTT(30), <2>1, MinimalSubset
<1>2. V \in SUBSET U /\ V \in SUBSET T /\ V \in SUBSET R  BY Zenon
<1>3. g[V] # h[V]  BY Zenon
<1>4. V # {}  BY ZenonT(30), <1>2, <1>3, AddsFacts
<1> DEFINE p == Chosen(V)
<1>5. /\ p \in V /\ V \ {p} # V
      /\ g[V] = f[p] + g[V \ {p}] /\ h[V] = e[p] + h[V \ {p}]
  BY SMTT(30), <1>2, <1>4, AddsFacts
<1>6. V \ {p} \in SUBSET U /\ V \ {p} \subseteq V  BY Zenon, <1>2
<1>7. g[V \ {p}] = h[V \ {p}]  BY ZenonT(30), <1>1, <1>5, <1>6
<1>8. f[p] = e[p]  BY Zenon, <1>2, <1>5
<1> QED  BY ZenonT(30), <1>3, <1>5, <1>7, <1>8

(* The recursion has a solution.                                           *)
LEMMA AddsExists ==
  ASSUME NEW f, NEW T, IsFiniteSet(T)
  PROVE  \E g : Adds(g, f, T)
<1> DEFINE A == {V \in SUBSET T : ~ \E g : Adds(g, f, V)}
<1> SUFFICES ASSUME A # {} PROVE FALSE
  <2>1. T \in SUBSET T  BY Zenon
  <2> QED  BY Zenon, <2>1
<1>1. PICK V \in A : \A W \in A : W \subseteq V => W = V
  <2>1. A \subseteq SUBSET T  BY Zenon
  <2> HIDE DEF A
  <2> QED  BY SMTT(30), <2>1, MinimalSubset
<1>2. V \in SUBSET T /\ ~ \E g : Adds(g, f, V)  BY Zenon
<1> DEFINE sol(W) == CHOOSE g : Adds(g, f, W)
<1>3. ASSUME NEW W \in SUBSET V, W # V  PROVE Adds(sol(W), f, W)
  <2>1. W \in SUBSET T  BY Zenon, <1>2
  <2>2. \E g : Adds(g, f, W)  BY Zenon, <1>1, <1>3, <2>1
  <2> QED  BY Zenon, <2>2
<1> HIDE DEF sol
<1> DEFINE G == [s \in SUBSET V |-> IF s = {} THEN 0
                                    ELSE f[Chosen(s)] + sol(s \ {Chosen(s)})[s \ {Chosen(s)}]]
<1>4. ASSUME NEW W \in SUBSET V, W # V  PROVE G[W] = sol(W)[W]
  <2>1. Adds(sol(W), f, W) /\ W \in SUBSET W  BY Zenon, <1>3, <1>4
  <2>2. CASE W = {}
    <3>1. sol(W)[W] = 0  BY Zenon, <2>1, <2>2, AddsFacts
    <3> QED  BY Zenon, <2>2, <3>1
  <2>3. CASE W # {}
    <3> DEFINE Q == W \ {Chosen(W)}
    <3>1. Chosen(W) \in W /\ Q \in SUBSET W /\ Q # W /\ sol(W)[W] = f[Chosen(W)] + sol(W)[Q]
      BY SMTT(30), <2>1, <2>3, AddsFacts
    <3>2. Q \in SUBSET V /\ Q # V  BY Zenon, <1>4, <3>1
    <3>3. Adds(sol(Q), f, Q) /\ IsFiniteSet(Q)
      <4>1. Q \in SUBSET T  BY ZenonT(30), <1>2, <3>2
      <4> QED  BY Zenon, <1>3, <3>2, <4>1, FS_Subset
    <3>4. sol(W)[Q] = sol(Q)[Q]
      <4>1. Q \subseteq W /\ Q \subseteq Q /\ \A x \in Q : f[x] = f[x]  BY Zenon
      <4> HIDE DEF Q
      <4> QED  BY SMTT(30), <2>1, <3>3, <4>1, AddsOnce
    <3>5. G[W] = f[Chosen(W)] + sol(Q)[Q]  BY Zenon, <2>3
    <3> QED  BY ZenonT(30), <3>1, <3>4, <3>5
  <2> QED  BY Zenon, <2>2, <2>3
<1>5. ASSUME NEW s \in SUBSET V, s # {}  PROVE G[s] = f[Chosen(s)] + G[s \ {Chosen(s)}]
  <2>1. Chosen(s) \in s  BY Zenon, <1>5 DEF Chosen
  <2>2. s \ {Chosen(s)} \in SUBSET V /\ s \ {Chosen(s)} # V  BY Zenon, <2>1
  <2>3. G[s \ {Chosen(s)}] = sol(s \ {Chosen(s)})[s \ {Chosen(s)}]  BY Zenon, <1>4, <2>2
  <2>4. G[s] = f[Chosen(s)] + sol(s \ {Chosen(s)})[s \ {Chosen(s)}]  BY Zenon, <1>5
  <2> QED  BY Zenon, <2>3, <2>4
<1>6. {} \in SUBSET V /\ G[{}] = 0  BY Zenon
<1>7. G = [s \in SUBSET V |-> IF s = {} THEN 0 ELSE f[Chosen(s)] + G[s \ {Chosen(s)}]]
  <2>1. \A s \in SUBSET V : G[s] = IF s = {} THEN 0 ELSE f[Chosen(s)] + G[s \ {Chosen(s)}]
    BY Zenon, <1>5, <1>6
  <2>2. G = [s \in SUBSET V |-> G[s]]  BY Zenon
  <2> HIDE DEF G
  <2> QED  BY Zenon, <2>1, <2>2
<1> HIDE DEF G
<1>8. Adds(G, f, V)  BY Zenon, <1>7 DEF Adds
<1> QED  BY Zenon, <1>2, <1>8

(* A sum of naturals is a natural, and any element may be taken out.       *)
LEMMA AddsNaturals ==
  ASSUME NEW g, NEW f, NEW T, Adds(g, f, T), IsFiniteSet(T), \A x \in T : f[x] \in Nat, NEW U \in SUBSET T
  PROVE  g[U] \in Nat
<1> DEFINE A == {V \in SUBSET T : g[V] \notin Nat}
<1> SUFFICES ASSUME A # {} PROVE FALSE  BY Zenon
<1>1. PICK V \in A : \A W \in A : W \subseteq V => W = V
  <2>1. A \subseteq SUBSET T  BY Zenon
  <2> HIDE DEF A
  <2> QED  BY SMTT(30), <2>1, MinimalSubset
<1>2. V \in SUBSET T /\ g[V] \notin Nat  BY Zenon
<1>3. CASE V = {}
  <2>1. g[V] = 0  BY ZenonT(30), <1>2, <1>3, AddsFacts
  <2> QED  BY SMTT(30), <1>2, <2>1
<1>4. CASE V # {}
  <2> DEFINE p == Chosen(V)
  <2>1. p \in V /\ V \ {p} \in SUBSET T /\ V \ {p} # V /\ g[V] = f[p] + g[V \ {p}]
    BY SMTT(30), <1>2, <1>4, AddsFacts
  <2>2. g[V \ {p}] \in Nat  BY Zenon, <1>1, <2>1
  <2>3. f[p] \in Nat  BY Zenon, <1>2, <2>1
  <2> HIDE DEF p
  <2> QED  BY SMTT(30), <1>2, <2>1, <2>2, <2>3
<1> QED  BY Zenon, <1>3, <1>4

LEMMA AddsAnyFirst ==
  ASSUME NEW g, NEW f, NEW T, Adds(g, f, T), IsFiniteSet(T), \A x \in T : f[x] \in Nat,
         NEW U \in SUBSET T, NEW x \in U
  PROVE  g[U] = f[x] + g[U \ {x}]
<1> DEFINE A == {V \in SUBSET T : \E y \in V : g[V] # f[y] + g[V \ {y}]}
<1> SUFFICES ASSUME A # {} PROVE FALSE  BY Zenon
<1>1. PICK V \in A : \A W \in A : W \subseteq V => W = V
  <2>1. A \subseteq SUBSET T  BY Zenon
  <2> HIDE DEF A
  <2> QED  BY SMTT(30), <2>1, MinimalSubset
<1>2. V \in SUBSET T /\ V # {}  BY Zenon
<1>3. PICK y \in V : g[V] # f[y] + g[V \ {y}]  BY Zenon
<1> DEFINE p == Chosen(V)
<1>4. p \in V /\ V \ {p} \in SUBSET T /\ V \ {p} # V /\ g[V] = f[p] + g[V \ {p}]
  <2> HIDE DEF A
  <2>1. Adds(g, f, T) /\ V # {}  BY Zenon, <1>2
  <2> QED  BY SMTT(30), <1>2, <2>1, AddsFacts
<1> HIDE DEF p
<1>5. p # y  BY Zenon, <1>3, <1>4
<1>6. V \ {p} \notin A /\ V \ {y} \notin A
  <2>1. V \ {y} # V /\ V \ {y} \subseteq V /\ V \ {p} \subseteq V  BY Zenon
  <2> HIDE DEF A
  <2> QED  BY Zenon, <1>1, <1>4, <2>1
<1>7. g[V \ {p}] = f[y] + g[(V \ {p}) \ {y}]
  <2>1. y \in V \ {p}  BY Zenon, <1>5
  <2> QED  BY Zenon, <1>4, <1>6, <2>1
<1>8. g[V \ {y}] = f[p] + g[(V \ {y}) \ {p}]
  <2>1. p \in V \ {y} /\ V \ {y} \in SUBSET T  BY Zenon, <1>2, <1>4, <1>5
  <2> QED  BY Zenon, <1>6, <2>1
<1>9. (V \ {p}) \ {y} = (V \ {y}) \ {p} /\ (V \ {p}) \ {y} \in SUBSET T  BY Zenon, <1>2
<1>10. f[p] \in Nat /\ f[y] \in Nat /\ g[(V \ {p}) \ {y}] \in Nat
  <2>1. f[p] \in Nat /\ f[y] \in Nat  BY Zenon, <1>2, <1>4
  <2> DEFINE W == (V \ {p}) \ {y}
  <2>2. W \in SUBSET T  BY ZenonT(30), <1>9
  <2> HIDE DEF W
  <2>3. g[W] \in Nat  BY SMTT(30), <2>2, AddsNaturals
  <2> QED  BY Zenon, <2>1, <2>3 DEF W
<1>11. g[V] = f[y] + g[V \ {y}]
  <2> DEFINE a == f[p]  b == f[y]  c == g[(V \ {p}) \ {y}]
  <2>1. a \in Nat /\ b \in Nat /\ c \in Nat  BY Zenon, <1>10
  <2>2. g[V] = a + (b + c)  BY Zenon, <1>4, <1>7
  <2>3. g[V \ {y}] = a + c  BY ZenonT(30), <1>8, <1>9
  <2> HIDE DEF a, b, c
  <2>4. a + (b + c) = b + (a + c)  BY SMTT(30), <2>1
  <2> QED  BY Zenon, <2>2, <2>3, <2>4 DEF b
<1> QED  BY Zenon, <1>3, <1>11

(* SumFunction follows the recursion.                                      *)
LEMMA SumAdds ==
  ASSUME NEW f, IsFiniteSet(DOMAIN f)
  PROVE  \E g : Adds(g, f, DOMAIN f) /\ SumFunction(f) = g[DOMAIN f]
<1>1. SumFunction(f) = (CHOOSE g : Adds(g, f, DOMAIN f))[DOMAIN f]
  BY Zenon DEF SumFunction, SumFunctionOnSet, FoldFunctionOnSet, MapThenFoldSet, Adds, Chosen
<1>2. \E g : Adds(g, f, DOMAIN f)  BY Zenon, AddsExists
<1> QED  BY ZenonT(30), <1>1, <1>2

(* The sum of nothing is 0.                                                *)
LEMMA SumNothing ==
  ASSUME NEW f, DOMAIN f = {}
  PROVE  SumFunction(f) = 0
<1>1. IsFiniteSet(DOMAIN f)  BY Zenon, FS_EmptySet
<1>2. PICK g : Adds(g, f, DOMAIN f) /\ SumFunction(f) = g[DOMAIN f]  BY ZenonT(30), <1>1, SumAdds
<1>3. DOMAIN f \in SUBSET DOMAIN f  BY Zenon
<1> QED  BY ZenonT(30), <1>2, <1>3, AddsFacts

(* Taking one key out of a function takes its value out of the sum.        *)
LEMMA SumTakesOut ==
  ASSUME NEW f, NEW e, NEW x \in DOMAIN f, IsFiniteSet(DOMAIN f), \A y \in DOMAIN f : f[y] \in Nat,
         DOMAIN e = DOMAIN f \ {x}, \A y \in DOMAIN e : e[y] = f[y]
  PROVE  /\ SumFunction(f) = f[x] + SumFunction(e)
         /\ SumFunction(f) \in Nat /\ SumFunction(e) \in Nat /\ f[x] \in Nat
<1> DEFINE S == DOMAIN f  U == DOMAIN e
<1>1. S \in SUBSET S /\ U \in SUBSET S /\ S \ {x} = U /\ x \in S  BY Zenon
<1>2. IsFiniteSet(U)  BY Zenon, <1>1, FS_Subset
<1>3. PICK g : Adds(g, f, S) /\ SumFunction(f) = g[S]  BY Zenon, SumAdds
<1>4. PICK h : Adds(h, e, U) /\ SumFunction(e) = h[U]  BY ZenonT(30), <1>2, SumAdds
<1>5. g[U] = h[U]
  <2>1. U \subseteq S /\ U \subseteq U /\ \A y \in U : f[y] = e[y]  BY Zenon, <1>1
  <2> HIDE DEF S, U
  <2> QED  BY SMTT(30), <1>2, <1>3, <1>4, <2>1, AddsOnce
<1>6. g[S] = f[x] + g[S \ {x}] /\ g[S] \in Nat /\ g[U] \in Nat /\ f[x] \in Nat
  <2>1. IsFiniteSet(S) /\ \A y \in S : f[y] \in Nat  BY ZenonT(30)
  <2> HIDE DEF S, U
  <2>2. g[S] = f[x] + g[S \ {x}]
    <3>1. Adds(g, f, S) /\ S \in SUBSET S /\ x \in S  BY ZenonT(30), <1>1, <1>3
    <3> QED  BY SMTT(30), <2>1, <3>1, AddsAnyFirst
  <2>3. g[S] \in Nat /\ g[U] \in Nat  BY SMTT(30), <1>1, <1>3, <2>1, AddsNaturals
  <2> QED  BY ZenonT(30), <1>1, <2>1, <2>2, <2>3
<1> QED  BY ZenonT(30), <1>1, <1>3, <1>4, <1>5, <1>6

(* An entry weighs something, and no more than all of them.                *)
LEMMA ChargeSplits ==
  ASSUME NEW E, Sound(E), NEW k \in DOMAIN E, NEW D, DOMAIN D = DOMAIN E \ {k},
         \A j \in DOMAIN D : D[j].size = E[j].size
  PROVE  /\ SumFunction(Charges(E)) = E[k].size + SumFunction(Charges(D))
         /\ SumFunction(Charges(E)) \in Nat /\ SumFunction(Charges(D)) \in Nat
         /\ E[k].size \in Nat /\ E[k].size > 0
<1> DEFINE f == Charges(E)
           e == Charges(D)
<1>1. /\ DOMAIN f = DOMAIN E /\ DOMAIN e = DOMAIN D
      /\ (\A j \in DOMAIN E : f[j] = E[j].size) /\ \A j \in DOMAIN D : e[j] = D[j].size
  BY Zenon DEF Charges
<1>2. \A j \in DOMAIN E : E[j] \in Entry  BY Zenon DEF Sound
<1>3. \A j \in DOMAIN E : E[j].size \in Nat /\ E[j].size > 0
  <2>1. \A x \in Sizes : x \in Nat /\ x > 0
    <3>1. Sizes \subseteq Nat \ {0}  BY Zenon, ShardAssumption
    <3>2. \A x \in Nat \ {0} : x \in Nat /\ x > 0  OBVIOUS
    <3> QED  BY Zenon, <3>1, <3>2
  <2>2. \A x \in Entry : x.size \in Sizes  BY DEF Entry
  <2> QED  BY ZenonT(30), <1>2, <2>1, <2>2
<1>4. IsFiniteSet(DOMAIN E)  BY Zenon, ShardAssumption, FS_Subset DEF Sound
<1> HIDE DEF f, e
<1>5. /\ k \in DOMAIN f /\ IsFiniteSet(DOMAIN f) /\ \A y \in DOMAIN f : f[y] \in Nat
      /\ DOMAIN e = DOMAIN f \ {k} /\ \A y \in DOMAIN e : e[y] = f[y]
  BY Zenon, <1>1, <1>3, <1>4
<1>6. /\ SumFunction(f) = f[k] + SumFunction(e)
      /\ SumFunction(f) \in Nat /\ SumFunction(e) \in Nat
  BY SMTT(30), <1>5, SumTakesOut
<1> QED  BY Zenon, <1>1, <1>3, <1>6 DEF f, e

(* There are finitely many keys, so charges add up.                        *)
LEMMA ChargesAddUp == ChargesAdd
<1>1. \A f : DOMAIN f = {} => SumFunction(f) = 0  BY ZenonT(30), SumNothing
<1>2. ASSUME NEW E, NEW D, NEW k \in DOMAIN E,
             Sound(E) /\ DOMAIN D = DOMAIN E \ {k} /\ (\A j \in DOMAIN D : D[j].size = E[j].size)
      PROVE  /\ SumFunction(Charges(E)) = E[k].size + SumFunction(Charges(D))
             /\ SumFunction(Charges(E)) \in Nat /\ SumFunction(Charges(D)) \in Nat
             /\ E[k].size \in Nat /\ E[k].size > 0
  BY ZenonT(30), <1>2, ChargeSplits
<1> QED  BY ZenonT(30), <1>1, <1>2 DEF ChargesAdd

-----------------------------------------------------------------------------
(* The list that is met by following the pointers.                         *)

(* A set of naturals that is not empty has a least element.                *)
LEMMA LeastNatural ==
  ASSUME NEW T, T \subseteq Nat, T # {}
  PROVE  \E x \in T : \A y \in T : x <= y
<1> DEFINE R == OpToRel(<, Nat)
<1>1. IsWellFoundedOn(R, Nat)  BY Zenon, NatLessThanWellFounded
<1>2. PICK x \in T : \A y \in T : ~ (<<y, x>> \in R)
  <2> HIDE DEF R
  <2> QED  BY Zenon, <1>1, WFMin
<1>3. \A y \in T : <<y, x>> \notin R => x <= y  BY DEF OpToRel
<1> QED  BY Zenon, <1>2, <1>3

(* The recursion by which Order follows next from shard.recent.            *)
Walks(w, n) ==
  w = [i \in 1..n |-> IF i = 1 THEN recent
                   ELSE IF w[i - 1] \in DOMAIN entries THEN entries[w[i - 1]].next ELSE Nil]

(* Following the pointers gives the list, which is as long as the map is   *)
(* large.                                                                  *)
LEMMA OrderIsList ==
  ASSUME NEW s, Chained(entries, recent, oldest, s)
  PROVE  Order = s /\ IsFiniteSet(DOMAIN entries) /\ Cardinality(DOMAIN entries) = Len(s)
<1> DEFINE n == Len(s)
           C == Cardinality(DOMAIN entries)
<1>1. /\ s \in Seq(Keys) /\ n \in Nat /\ DOMAIN s = 1..n /\ s = [i \in 1..n |-> s[i]]
      /\ n # 0 => recent = s[1] /\ 1 \in 1..n
  BY DEF Chained
<1>2. /\ \A i \in 1..n : s[i] \in DOMAIN entries
      /\ \A i, j \in 1..n : s[i] = s[j] => i = j
      /\ \A k \in DOMAIN entries : \E i \in 1..n : s[i] = k
      /\ \A i \in 1..n : entries[s[i]].next = IF i = n THEN Nil ELSE s[i + 1]
  BY Zenon DEF Chained
<1>3. IsFiniteSet(DOMAIN entries) /\ C = n
  <2>1. s \in [1..n -> DOMAIN entries]  BY Zenon, <1>1, <1>2
  <2>2. s \in Bijection(1..n, DOMAIN entries)
    BY Zenon, <1>2, <2>1 DEF Bijection, Injection, Surjection, IsInjective
  <2>3. ExistsBijection(1..n, DOMAIN entries)  BY Zenon, <2>2 DEF ExistsBijection
  <2>4. IsFiniteSet(1..n) /\ Cardinality(1..n) = IF 1 > n THEN 0 ELSE n - 1 + 1
    <3>1. 1 \in Int /\ n \in Int  BY SMTT(30), <1>1
    <3> HIDE DEF n
    <3> QED  BY Zenon, <3>1, FS_Interval
  <2>5. Cardinality(1..n) = n  BY SMTT(30), <1>1, <2>4
  <2> QED  BY ZenonT(30), <2>3, <2>4, <2>5, FS_Bijection
<1>4. ASSUME NEW i \in 1..n, NEW w, i # 1 => w[i - 1] = s[i - 1]
      PROVE  s[i] = IF i = 1 THEN recent
                    ELSE IF w[i - 1] \in DOMAIN entries THEN entries[w[i - 1]].next ELSE Nil
  <2>1. CASE i = 1
    <3>1. n # 0  BY SMTT(30), <1>1
    <3>2. s[i] = recent  BY SMTT(30), <1>1, <2>1, <3>1
    <3> QED  BY Zenon, <2>1, <3>2
  <2>2. CASE i # 1
    <3>1. i - 1 \in 1..n /\ i - 1 # n /\ (i - 1) + 1 = i  BY SMTT(30), <1>1, <2>2
    <3>2. w[i - 1] \in DOMAIN entries /\ s[i] = entries[w[i - 1]].next  BY ZenonT(30), <1>2, <1>4, <2>2, <3>1
    <3> QED  BY Zenon, <2>2, <3>2
  <2> QED  BY Zenon, <2>1, <2>2
<1>5. Walks(s, n)
  <2>1. s = [i \in 1..n |-> IF i = 1 THEN recent
                         ELSE IF s[i - 1] \in DOMAIN entries THEN entries[s[i - 1]].next ELSE Nil]
    BY Zenon, <1>1, <1>4
  <2> QED  BY Zenon, <2>1 DEF Walks
<1>6. ASSUME NEW w, Walks(w, n)  PROVE \A i \in 1..n : w[i] = s[i]
  <2> DEFINE T == {i \in 1..n : w[i] # s[i]}
  <2> SUFFICES ASSUME T # {} PROVE FALSE  BY Zenon
  <2>1. T \subseteq Nat  BY SMTT(30), <1>1
  <2>2. PICK i \in T : \A j \in T : i <= j
    <3> HIDE DEF T
    <3> QED  BY Zenon, <2>1, LeastNatural
  <2>3. i \in 1..n /\ w[i] # s[i]  BY Zenon
  <2>4. i # 1 => w[i - 1] = s[i - 1]
    <3>1. i # 1 => i - 1 \in 1..n /\ ~ (i <= i - 1)  BY SMTT(30), <1>1, <2>3
    <3> QED  BY Zenon, <2>2, <3>1
  <2>5. w[i] = IF i = 1 THEN recent
               ELSE IF w[i - 1] \in DOMAIN entries THEN entries[w[i - 1]].next ELSE Nil
    BY Zenon, <1>6, <2>3 DEF Walks
  <2>6. s[i] = w[i]  BY ZenonT(30), <1>4, <2>3, <2>4, <2>5
  <2> QED  BY Zenon, <2>3, <2>6
<1> DEFINE walk == CHOOSE w : Walks(w, C)
<1>7. Order = [i \in 1..C |-> walk[i]]  BY Zenon DEF Order, Walks
<1>8. Walks(walk, C)
  <2>1. Walks(s, C)  BY Zenon, <1>3, <1>5
  <2> QED  BY Zenon, <2>1
<1> HIDE DEF walk, C
<1>9. \A i \in 1..n : walk[i] = s[i]  BY Zenon, <1>3, <1>6, <1>8
<1>10. Order = s
  <2>1. 1..C = 1..n  BY Zenon, <1>3
  <2>2. Order = [i \in 1..n |-> walk[i]]  BY Zenon, <1>7, <2>1
  <2> QED  BY ZenonT(30), <1>1, <1>9, <2>2
<1> QED  BY Zenon, <1>3, <1>10 DEF C

(* Order is the list, before a step and after it.                          *)
LEMMA OrderHere == OrderIs
  BY Zenon, OrderIsList DEF OrderIs

(* The next state's Order is its list.                                     *)
LEMMA OrderThere == OrderIs'
  BY OrderHere, PTL

-----------------------------------------------------------------------------
(* The theorems about the shard.                                           *)

(* The map, the list, the charge and the phase of the shard stay together  *)
(* under every interleaving of recovery, reads, writes and the sweep.      *)
THEOREM ShardInvariance == Spec => []Inv
<1>1. Init => Inv  BY Zenon, InitInv, ChargesAddUp
<1>2. Inv /\ [Next]_vars => Inv'  BY Zenon, StepInv, ChargesAddUp
<1> QED  BY <1>1, <1>2, PTL DEF Spec

(* Every variable of the shard stays in its type.                          *)
THEOREM ShardTypes == Spec => []TypeOK
  BY ShardInvariance, InvTypes, PTL

(* The walk along next from shard.recent meets exactly the entries of the  *)
(* map, and previous, recent and oldest agree with it.                     *)
THEOREM IntactList == Spec => []ListIntact
<1>1. Inv => ListIntact
  <2> SUFFICES ASSUME Inv PROVE Lists(Order)  BY Zenon DEF ListIntact
  <2>1. PICK s : Now(s)  BY Zenon, HasList
  <2>2. Chained(entries, recent, oldest, s)  BY Zenon, <2>1 DEF Now, Whole
  <2>3. Order = s  BY ZenonT(30), <2>2, OrderIsList
  <2>4. s \in Seq(Keys)  BY Zenon, <2>2 DEF Chained
  <2>5. Lists(s)  BY ZenonT(30), <2>2, <2>4, ListsIsChained
  <2> QED  BY ZenonT(30), <2>3, <2>5
<1> QED  BY <1>1, ShardInvariance, PTL

(* shard.bytes is the sum of the sizes of the entries held, and a shard    *)
(* that no critical section holds open fits its capacity.                  *)
THEOREM ExactCharge == Spec => []ChargeExact
<1>1. Inv => ChargeExact
  <2> SUFFICES ASSUME Inv PROVE ChargeExact  BY Zenon
  <2>1. \E s : Now(s)  BY Zenon, HasList
  <2>2. bytes = SumFunction(Charges(entries))  BY Zenon, <2>1 DEF Now, Whole
  <2>3. phase \in {"free", "sweep"} => bytes <= Capacity  BY ZenonT(30) DEF Inv, Phased
  <2> QED  BY ZenonT(30), <2>2, <2>3 DEF ChargeExact, Charges
<1> QED  BY <1>1, ShardInvariance, PTL

(* The eviction that a write starts ends before it reaches that write.     *)
THEOREM KeptFreshWrite == Spec => []FreshWriteKept
<1>1. Inv => FreshWriteKept  BY Zenon, OverCapacity, ChargesAddUp DEF FreshWriteKept
<1> QED  BY <1>1, ShardInvariance, PTL

(* The shard implements the recency order: whatever interleaving of reads, *)
(* late writes, recovery, expiry, eviction and sweep, an entry in use goes *)
(* to the front, only the back is evicted and only while there is too      *)
(* much, and nothing is counted expired before its deadline.               *)
THEOREM RefinesRecencyOrder == Spec => ImplementsRecencyOrder
<1>1. Init => Abstract!Init  BY Zenon, InitOrder, ChargesAddUp, OrderHere
<1>2. Inv /\ [Next]_vars => [Abstract!Next]_(Abstract!vars)
  BY Zenon, StepOrder, ChargesAddUp, OrderHere, OrderThere
<1> QED  BY <1>1, <1>2, ShardInvariance, PTL DEF Spec, ImplementsRecencyOrder, Abstract!Spec
=============================================================================
