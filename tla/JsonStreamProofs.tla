-------------------------- MODULE JsonStreamProofs --------------------------
(* What the operators of JsonStream take from a stream of fragments, and   *)
(* what they leave.                                                        *)
EXTENDS JsonStream, SequenceTheorems, TLAPS

FragOf(M) == [m : M, last : BOOLEAN]

(* What extractJsonObjects takes from a buffer of fragments are messages,  *)
(* what it leaves are fragments.                                           *)
LEMMA ExtractProperties ==
    ASSUME NEW Msg, NEW fs \in Seq(FragOf(Msg))
    PROVE  Objects(fs) \in Seq(Msg) /\ Leftover(fs) \in Seq(FragOf(Msg))
<1> DEFINE g == Aligned(fs)
<1>1. g \in Seq(FragOf(Msg))
  BY DEF Aligned
<1>2. \A i \in 1..(Len(g) \div 2) : g[2 * i].m \in Msg
  <2> TAKE i \in 1..(Len(g) \div 2)
  <2>1. 2 * i \in 1..Len(g)
    BY <1>1
  <2> HIDE DEF g
  <2>2. g[2 * i] \in FragOf(Msg)
    BY <1>1, <2>1
  <2> QED BY <2>2 DEF FragOf
<1>3. Len(g) \div 2 \in Nat
  BY <1>1
<1>4. Objects(fs) \in Seq(Msg)
  <2> DEFINE q == [i \in 1..(Len(g) \div 2) |-> g[2 * i].m]
  <2>1. q \in Seq(Msg)
    <3> HIDE DEF g
    <3> QED BY <1>2, <1>3
  <2>2. Objects(fs) = IF Blocked(g) THEN <<>> ELSE q
    BY DEF Objects
  <2> QED BY <2>1, <2>2
<1>5. Leftover(fs) \in Seq(FragOf(Msg))
  <2>1. Leftover(fs) = IF Blocked(g) THEN g
                       ELSE IF Len(g) % 2 = 1 THEN <<g[Len(g)]>> ELSE <<>>
    BY DEF Leftover
  <2>2. Len(g) % 2 = 1 => g[Len(g)] \in FragOf(Msg)
    <3> HIDE DEF g
    <3> QED BY <1>1
  <2> HIDE DEF g
  <2> QED BY <1>1, <2>1, <2>2
<1> QED BY <1>4, <1>5

(* What a read takes, and what it leaves.                                  *)
LEMMA ReadProperties ==
    ASSUME NEW S, NEW s \in Seq(S), NEW k \in 0..Len(s)
    PROVE  /\ SubSeq(s, 1, k) \in Seq(S) /\ Len(SubSeq(s, 1, k)) = k
           /\ \A i \in 1..k : SubSeq(s, 1, k)[i] = s[i]
           /\ After(s, k) \in Seq(S) /\ Len(After(s, k)) = Len(s) - k
           /\ \A i \in 1..(Len(s) - k) : After(s, k)[i] = s[k + i]
<1>1. Len(s) \in Nat /\ k \in Nat /\ \A i \in 1..Len(s) : s[i] \in S
  BY LenProperties, ElementOfSeq
<1>2. /\ SubSeq(s, 1, k) \in Seq(S) /\ Len(SubSeq(s, 1, k)) = IF 1 <= k THEN k - 1 + 1 ELSE 0
      /\ \A i \in 1..(k - 1 + 1) : SubSeq(s, 1, k)[i] = s[1 + i - 1]
  <2>1. \A i \in 1..k : s[i] \in S
    BY <1>1
  <2> QED BY <1>1, <2>1, SubSeqProperties
<1>3. /\ SubSeq(s, k + 1, Len(s)) \in Seq(S)
      /\ Len(SubSeq(s, k + 1, Len(s))) = IF k + 1 <= Len(s) THEN Len(s) - (k + 1) + 1 ELSE 0
      /\ \A i \in 1..(Len(s) - (k + 1) + 1) : SubSeq(s, k + 1, Len(s))[i] = s[k + 1 + i - 1]
  <2>1. \A i \in (k + 1)..Len(s) : s[i] \in S
    BY <1>1
  <2>2. k + 1 \in Int /\ Len(s) \in Int
    BY <1>1
  <2> QED BY <2>1, <2>2, SubSeqProperties
<1>4. SubSeq(s, 1, k) \in Seq(S) /\ Len(SubSeq(s, 1, k)) = k
  BY <1>1, <1>2
<1>5. \A i \in 1..k : SubSeq(s, 1, k)[i] = s[i]
  BY <1>1, <1>2
<1>6. Len(SubSeq(s, k + 1, Len(s))) = Len(s) - k
  BY <1>1, <1>3
<1>7. \A i \in 1..(Len(s) - k) : SubSeq(s, k + 1, Len(s))[i] = s[k + i]
  BY <1>1, <1>3
<1> QED BY <1>3, <1>4, <1>5, <1>6, <1>7 DEF After

(* A stream of messages, cut nowhere but at its end: the two fragments of  *)
(* each follow each other.                                                 *)
Paired(fs) == \A i \in DOMAIN fs : /\ fs[i].last <=> i % 2 = 0
                                   /\ fs[i].last => fs[i].m = fs[i-1].m

(* Halving a number.                                                       *)
LEMMA Halves ==
    ASSUME NEW k \in Nat
    PROVE  /\ k \div 2 \in Nat /\ k % 2 \in {0, 1} /\ k = 2 * (k \div 2) + (k % 2)
           /\ \A i \in Nat : (2 * (k \div 2) + i) % 2 = i % 2
<1>1. k \div 2 \in Nat /\ k % 2 \in {0, 1}
  OBVIOUS
<1>2. k = 2 * (k \div 2) + (k % 2)
  OBVIOUS
<1>3. ASSUME NEW q \in Nat, NEW i \in Nat PROVE (2 * q + i) % 2 = i % 2
  OBVIOUS
<1> QED BY <1>1, <1>2, <1>3

(* What the scan takes from a stream that begins with a message are the    *)
(* whole messages, in order; what it leaves is the beginning of a message. *)
LEMMA ScanPaired ==
    ASSUME NEW M, NEW fs \in Seq(FragOf(M)), Paired(fs)
    PROVE  /\ Objects(fs) = [i \in 1..(Len(fs) \div 2) |-> fs[2 * i].m]
           /\ Leftover(fs) = IF Len(fs) % 2 = 1 THEN <<fs[Len(fs)]>> ELSE <<>>
<1>1. Aligned(fs) = fs
  BY DEF Aligned, Paired
<1>2. ~Blocked(fs)
  <2> SUFFICES ASSUME Len(fs) >= 2 PROVE fs[1].m = fs[2].m
    BY DEF Blocked
  <2>1. 2 \in DOMAIN fs
    OBVIOUS
  <2>2. fs[2].last => fs[2].m = fs[2-1].m
    BY <2>1 DEF Paired
  <2>3. fs[2].last
    BY <2>1 DEF Paired
  <2> QED BY <2>2, <2>3
<1> QED BY <1>1, <1>2 DEF Objects, Leftover

(* The rest of the stream and what the scan left are a stream again, with  *)
(* as many loose fragments as before.                                      *)
LEMMA ScanRest ==
    ASSUME NEW M, NEW fs \in Seq(FragOf(M)), NEW rest \in Seq(FragOf(M)), Paired(fs \o rest)
    PROVE  /\ Paired(fs) /\ Leftover(fs) \in Seq(FragOf(M))
           /\ Len(Leftover(fs)) = Len(fs) % 2
           /\ Leftover(fs) # <<>> => ~Leftover(fs)[1].last
           /\ Len(Leftover(fs) \o rest) = Len(fs \o rest) - 2 * (Len(fs) \div 2)
           /\ \A i \in 1..Len(Leftover(fs) \o rest) :
                (Leftover(fs) \o rest)[i] = (fs \o rest)[2 * (Len(fs) \div 2) + i]
           /\ Paired(Leftover(fs) \o rest)
<1> DEFINE k == Len(fs) \div 2
           r == Leftover(fs)
<1>1. Len(fs) \in Nat /\ Len(rest) \in Nat /\ k \in Nat /\ Len(fs) % 2 \in {0, 1}
      /\ Len(fs) = 2 * k + (Len(fs) % 2)
  BY Halves
<1>2. /\ fs \o rest \in Seq(FragOf(M)) /\ Len(fs \o rest) = Len(fs) + Len(rest)
      /\ \A i \in 1..Len(fs) : (fs \o rest)[i] = fs[i]
      /\ \A i \in 1..Len(rest) : (fs \o rest)[Len(fs) + i] = rest[i]
  BY <1>1
<1>3. Paired(fs)
  <2>1. \A i \in 1..Len(fs) : i \in DOMAIN (fs \o rest) /\ (i # 1 => i - 1 \in 1..Len(fs))
    BY <1>1, <1>2
  <2>2. \A i \in 1..Len(fs) : fs[i].last <=> i % 2 = 0
    BY <1>2, <2>1 DEF Paired
  <2>3. \A i \in 1..Len(fs) : fs[i].last => i # 1
    BY <2>2
  <2>4. \A i \in 1..Len(fs) : fs[i].last => fs[i].m = fs[i-1].m
    BY <1>2, <2>1, <2>3 DEF Paired
  <2> QED BY <2>2, <2>4 DEF Paired
<1>4. r = IF Len(fs) % 2 = 1 THEN <<fs[Len(fs)]>> ELSE <<>>
  BY <1>3, ScanPaired
<1> HIDE DEF r
<1>5. /\ r \in Seq(FragOf(M)) /\ Len(r) = Len(fs) % 2
      /\ r # <<>> => Len(fs) \in 1..Len(fs) /\ r[1] = fs[Len(fs)] /\ Len(fs) % 2 = 1
  <2>1. CASE Len(fs) % 2 = 1
    <3>1. Len(fs) \in 1..Len(fs)
      BY <1>1, <2>1
    <3> QED BY <1>4, <2>1, <3>1
  <2>2. CASE Len(fs) % 2 = 0
    BY <1>4, <2>2
  <2> QED BY <1>1, <2>1, <2>2
<1>6. r # <<>> => ~r[1].last
  BY <1>3, <1>5 DEF Paired
<1>7. /\ r \o rest \in Seq(FragOf(M)) /\ Len(r \o rest) = Len(r) + Len(rest)
      /\ \A i \in 1..Len(r) : (r \o rest)[i] = r[i]
      /\ \A i \in 1..Len(rest) : (r \o rest)[Len(r) + i] = rest[i]
  BY <1>1, <1>5
<1>8. Len(r \o rest) = Len(fs \o rest) - 2 * k
  <2> HIDE DEF k
  <2> QED BY <1>1, <1>2, <1>5, <1>7
<1>9. ASSUME NEW i \in 1..Len(r \o rest)
      PROVE  (r \o rest)[i] = (fs \o rest)[2 * k + i]
  <2> HIDE DEF k
  <2>1. CASE i \in 1..Len(r)
    <3>1. i = 1 /\ Len(r) = 1 /\ Len(fs) = 2 * k + 1 /\ r # <<>>
      BY <1>1, <1>5, <2>1
    <3> QED BY <1>2, <1>5, <1>7, <3>1
  <2>2. CASE i \notin 1..Len(r)
    <3> DEFINE j == i - Len(r)
    <3>0. Len(r) \in Nat /\ Len(fs) = 2 * k + Len(r) /\ i \in 1..(Len(r) + Len(rest))
      BY <1>1, <1>5, <1>7
    <3>1. j \in 1..Len(rest) /\ i = Len(r) + j /\ 2 * k + i = Len(fs) + j
      BY <1>1, <2>2, <3>0
    <3> HIDE DEF j
    <3>2. (r \o rest)[Len(r) + j] = rest[j]
      BY <1>7, <3>1
    <3>3. (fs \o rest)[Len(fs) + j] = rest[j]
      BY <1>2, <3>1
    <3> QED BY <3>1, <3>2, <3>3
  <2> QED BY <2>1, <2>2
<1>10. Paired(r \o rest)
  <2> DEFINE f == fs \o rest
             g == r \o rest
  <2>1. \A i \in Nat : (2 * k + i) % 2 = i % 2
    BY <1>1, Halves
  <2> HIDE DEF k
  <2>2. DOMAIN g = 1..Len(g) /\ DOMAIN f = 1..Len(f) /\ Len(g) \in Nat /\ Len(f) \in Nat
        /\ Len(g) = Len(f) - 2 * k
    BY <1>1, <1>2, <1>7, <1>8
  <2>3. \A i \in 1..Len(g) : g[i] = f[2 * k + i]
    BY <1>9
  <2>4. Paired(f)
    OBVIOUS
  <2> HIDE DEF f, g
  <2>5. \A i \in 1..Len(g) : 2 * k + i \in DOMAIN f
    BY <1>1, <2>2
  <2>6. \A i \in 1..Len(g) : g[i].last <=> i % 2 = 0
    <3> TAKE i \in 1..Len(g)
    <3>1. f[2 * k + i].last <=> (2 * k + i) % 2 = 0
      BY <2>4, <2>5 DEF Paired
    <3>2. (2 * k + i) % 2 = i % 2
      BY <2>1
    <3> QED BY <2>3, <3>1, <3>2
  <2>7. ASSUME NEW i \in 1..Len(g), g[i].last PROVE g[i].m = g[i-1].m
    <3>1. i # 1
      BY <2>6, <2>7
    <3>2. i - 1 \in 1..Len(g) /\ (2 * k + i) - 1 = 2 * k + (i - 1)
      BY <1>1, <2>2, <3>1
    <3>3. f[2 * k + i].m = f[(2 * k + i) - 1].m
      BY <2>3, <2>4, <2>5, <2>7 DEF Paired
    <3> QED BY <2>3, <3>2, <3>3
  <2> QED BY <2>2, <2>6, <2>7 DEF Paired, g
<1> QED BY <1>3, <1>5, <1>6, <1>8, <1>9, <1>10 DEF r

(* A read splits the stream.                                               *)
LEMMA ReadSplit ==
    ASSUME NEW S, NEW s \in Seq(S), NEW k \in 0..Len(s)
    PROVE  s = SubSeq(s, 1, k) \o After(s, k)
<1>1. Len(s) \in Nat /\ 1 \in 1..(Len(s) + 1) /\ k \in (1 - 1)..Len(s) /\ Len(s) \in k..Len(s)
  BY LenProperties
<1>2. SubSeq(s, 1, k) \o SubSeq(s, k + 1, Len(s)) = SubSeq(s, 1, Len(s))
  BY <1>1, ConcatAdjacentSubSeq
<1> QED BY <1>2, SubSeqFull DEF After

(* A beginning of a stream is one, a whole message at its end makes one    *)
(* of an even number of fragments.                                         *)
LEMMA PrefixPaired ==
    ASSUME NEW M, NEW fs \in Seq(FragOf(M)), NEW rest \in Seq(FragOf(M)), Paired(fs \o rest)
    PROVE  Paired(fs)
  BY ScanRest

LEMMA GrowPaired ==
    ASSUME NEW M, NEW fs \in Seq(FragOf(M)), Paired(fs), Len(fs) % 2 = 0, NEW m \in M
    PROVE  Paired(fs \o Frags(m)) /\ Len(fs \o Frags(m)) % 2 = 0
<1> DEFINE g == fs \o Frags(m)
           k == Len(fs)
<1>1. /\ Frags(m) \in Seq(FragOf(M)) /\ Len(Frags(m)) = 2
      /\ Frags(m)[1] = [m |-> m, last |-> FALSE] /\ Frags(m)[2] = [m |-> m, last |-> TRUE]
  BY DEF Frags, FragOf
<1>2. k \in Nat /\ (k + 1) % 2 = 1 /\ (k + 2) % 2 = 0
  BY LenProperties
<1>3. /\ g \in Seq(FragOf(M)) /\ Len(g) = k + 2 /\ DOMAIN g = 1..(k + 2)
      /\ \A i \in 1..k : g[i] = fs[i]
      /\ g[k + 1] = Frags(m)[1] /\ g[k + 2] = Frags(m)[2]
  <2>1. /\ g \in Seq(FragOf(M)) /\ Len(g) = Len(fs) + Len(Frags(m))
        /\ \A i \in 1..(Len(fs) + Len(Frags(m))) :
              g[i] = IF i <= Len(fs) THEN fs[i] ELSE Frags(m)[i - Len(fs)]
    BY <1>1, ConcatProperties
  <2>2. Len(g) = k + 2 /\ \A i \in 1..(k + 2) : g[i] = IF i <= k THEN fs[i] ELSE Frags(m)[i - k]
    BY <1>1, <2>1
  <2>3. DOMAIN g = 1..Len(g)
    BY <2>1, LenProperties
  <2> HIDE DEF g, k
  <2>4. \A i \in 1..k : i \in 1..(k + 2) /\ i <= k
    BY <1>2
  <2>5. k + 1 \in 1..(k + 2) /\ ~(k + 1 <= k) /\ (k + 1) - k = 1
    BY <1>2
  <2>6. k + 2 \in 1..(k + 2) /\ ~(k + 2 <= k) /\ (k + 2) - k = 2
    BY <1>2
  <2> QED BY <2>1, <2>2, <2>3, <2>4, <2>5, <2>6
<1> HIDE DEF g
<1>4. \A i \in 1..k : /\ fs[i].last <=> i % 2 = 0
                      /\ fs[i].last => fs[i].m = fs[i-1].m
  BY LenProperties DEF Paired
<1> HIDE DEF k
<1>5. ASSUME NEW i \in 1..k PROVE (g[i].last <=> i % 2 = 0) /\ (g[i].last => g[i].m = g[i-1].m)
  <2>1. i % 2 = 0 => i - 1 \in 1..k
    BY <1>2
  <2> QED BY <1>3, <1>4, <2>1
<1>6. (g[k+1].last <=> (k + 1) % 2 = 0) /\ ~g[k+1].last
  BY <1>1, <1>2, <1>3
<1>7. (g[k+2].last <=> (k + 2) % 2 = 0) /\ g[k+2].m = g[k+1].m /\ (k + 2) - 1 = k + 1
  BY <1>1, <1>2, <1>3
<1>8. \A i \in 1..(k + 2) : i \in 1..k \/ i = k + 1 \/ i = k + 2
  BY <1>2
<1>9. Paired(g)
  BY <1>3, <1>5, <1>6, <1>7, <1>8 DEF Paired
<1> QED BY <1>2, <1>3, <1>9 DEF g

(* A stream that begins with a message has nothing to skip.                *)
LEMMA AlignedPaired == ASSUME NEW fs, Paired(fs), fs # <<>> => 1 \in DOMAIN fs
                       PROVE  Aligned(fs) = fs
  BY DEF Aligned, Paired

LEMMA ShortPaired ==
    ASSUME NEW M, NEW fs \in Seq(FragOf(M)), Len(fs) <= 1, fs # <<>> => ~fs[1].last
    PROVE  Paired(fs)
<1>1. \A i \in DOMAIN fs : i = 1 /\ fs # <<>>
  BY LenProperties
<1> QED BY <1>1 DEF Paired

(* A stream that may begin with a loose end of a message: the scan skips   *)
(* it and then finds a stream.                                             *)
LEMMA ScanAligned ==
    ASSUME NEW M, NEW fs \in Seq(FragOf(M)), NEW rest \in Seq(FragOf(M)), fs # <<>>,
           Paired(Aligned(fs \o rest))
    PROVE  /\ Aligned(fs) \in Seq(FragOf(M)) /\ Aligned(fs) \o rest = Aligned(fs \o rest)
           /\ Objects(fs) = Objects(Aligned(fs)) /\ Leftover(fs) = Leftover(Aligned(fs))
<1> DEFINE g == Aligned(fs)
<1>1. g \in Seq(FragOf(M))
  BY DEF Aligned
<1>2. fs \o rest # <<>> /\ (fs \o rest)[1] = fs[1] /\ fs \o rest \in Seq(FragOf(M))
  <2>1. Len(fs) \in Nat \ {0} /\ Len(rest) \in Nat
    BY LenProperties, EmptySeq
  <2>2. 1 \in 1..(Len(fs) + Len(rest)) /\ 1 <= Len(fs)
    BY <2>1
  <2> QED BY <2>2, ConcatProperties, ConcatEqualIffEmpty
<1>3. g \o rest = Aligned(fs \o rest)
  <2>1. CASE fs[1].last
    <3>1. g = Tail(fs) /\ Aligned(fs \o rest) = Tail(fs \o rest)
      BY <1>2, <2>1 DEF Aligned
    <3>2. Tail(fs) \o rest = Tail(fs \o rest)
      OBVIOUS
    <3> QED BY <3>1, <3>2
  <2>2. CASE ~fs[1].last
    BY <1>2, <2>2 DEF Aligned
  <2> QED BY <2>1, <2>2
<1>4. Paired(g)
  BY <1>1, <1>3, PrefixPaired
<1>5. Aligned(g) = g
  BY <1>1, <1>4, AlignedPaired
<1> HIDE DEF g
<1>6. Objects(fs) = Objects(g) /\ Leftover(fs) = Leftover(g)
  BY <1>5 DEF Objects, Leftover, g
<1> QED BY <1>1, <1>3, <1>6 DEF g

(* Where the fragments of a scanned stream go: after a loose end d come    *)
(* the pairs that become the k objects, and what is left is the rest.      *)
Splits(S, o, T, d, k) ==
    /\ DOMAIN o = 1..k
    /\ \A i \in 1..k : d + 2 * i \in DOMAIN S /\ o[i] = S[d + 2 * i].m /\ S[d + 2 * i].last
    /\ \A i \in DOMAIN T : d + 2 * k + i \in DOMAIN S /\ T[i] = S[d + 2 * k + i]
    /\ \A j \in DOMAIN S : \/ j = 1 /\ S[1].last
                           \/ \E i \in 1..k : S[j].m = o[i]
                           \/ j - (d + 2 * k) \in DOMAIN T /\ T[j - (d + 2 * k)] = S[j]
    /\ d + 2 * k = 0 \/ Paired(T)

LEMMA ScanPositions ==
    ASSUME NEW M, NEW fs \in Seq(FragOf(M)), NEW rest \in Seq(FragOf(M)),
           Paired(Aligned(fs \o rest)), NEW S, S = fs \o rest, NEW T, T = Leftover(fs) \o rest
    PROVE  \E d \in {0, 1}, k \in Nat : Splits(S, Objects(fs), T, d, k)
<1>0. S \in Seq(FragOf(M)) /\ Len(S) \in Nat /\ DOMAIN S = 1..Len(S)
  BY ConcatProperties, LenProperties
<1>1. CASE fs = <<>>
  <2>1. Objects(fs) = <<>> /\ Leftover(fs) = <<>>
    <3>1. Aligned(fs) = <<>> /\ ~Blocked(<<>>) /\ Len(<<>>) = 0 /\ 0 \div 2 = 0 /\ 0 % 2 # 1
      BY <1>1 DEF Aligned, Blocked
    <3>2. Leftover(fs) = <<>>
      BY <3>1 DEF Leftover
    <3>3. Objects(fs) = [i \in 1..0 |-> <<>>[2 * i].m]
      BY <3>1 DEF Objects
    <3>4. [i \in 1..0 |-> <<>>[2 * i].m] = <<>>
      OBVIOUS
    <3> QED BY <3>2, <3>3, <3>4
  <2>2. T = S
    BY <1>1, <2>1
  <2>3. DOMAIN Objects(fs) = 1..0
    BY <2>1
  <2>4. \A i \in DOMAIN S : i \in Nat /\ 0 + 2 * 0 + i = i /\ i - (0 + 2 * 0) = i
    BY <1>0
  <2>5. \A i \in 1..0 : FALSE
    OBVIOUS
  <2>6. 0 + 2 * 0 = 0 /\ 0 \in {0, 1} /\ 0 \in Nat
    OBVIOUS
  <2>7. Splits(S, Objects(fs), T, 0, 0)
    BY <2>2, <2>3, <2>4, <2>5, <2>6 DEF Splits
  <2> QED BY <2>6, <2>7
<1>2. CASE fs # <<>>
  <2> DEFINE g == Aligned(fs)
             A == Aligned(S)
             k == Len(g) \div 2
             d == IF S # <<>> /\ S[1].last THEN 1 ELSE 0
  <2>1. g \in Seq(FragOf(M)) /\ g \o rest = A /\ Objects(fs) = Objects(g) /\ Leftover(fs) = Leftover(g)
    BY <1>2, ScanAligned
  <2>2. A \in Seq(FragOf(M)) /\ Len(A) \in Nat /\ DOMAIN A = 1..Len(A)
    BY <1>0 DEF Aligned
  <2>3. Paired(A)
    OBVIOUS
  <2>4. /\ d \in {0, 1} /\ Len(S) = Len(A) + d /\ (d = 1 => S[1].last)
        /\ \A i \in 1..Len(A) : A[i] = S[d + i]
    <3>1. CASE S # <<>> /\ S[1].last
      <4>1. d = 1 /\ A = Tail(S)
        BY <3>1 DEF Aligned
      <4>2. Len(S) # 0
        BY <1>0, <3>1, EmptySeq
      <4>3. Len(Tail(S)) = Len(S) - 1 /\ \A i \in 1..(Len(S) - 1) : Tail(S)[i] = S[i + 1]
        BY <1>0, <3>1, HeadTailProperties
      <4> QED BY <1>0, <3>1, <4>1, <4>2, <4>3
    <3>2. CASE ~(S # <<>> /\ S[1].last)
      <4>1. d = 0 /\ A = S
        BY <3>2 DEF Aligned
      <4>2. \A i \in 1..Len(S) : 0 + i = i
        BY <1>0
      <4>3. Len(S) = Len(S) + 0
        BY <1>0
      <4> HIDE DEF A, d
      <4> QED BY <4>1, <4>2, <4>3
    <3> QED BY <3>1, <3>2
  <2> HIDE DEF A, d
  <2>5. k \in Nat /\ Len(g) \in Nat /\ Len(g) % 2 \in {0, 1} /\ Len(g) = 2 * k + (Len(g) % 2)
    BY <2>1, LenProperties, Halves
  <2>6. /\ Paired(g) /\ Len(T) = Len(A) - 2 * k /\ Paired(T)
        /\ \A i \in 1..Len(T) : T[i] = A[2 * k + i]
    <3>1. T = Leftover(g) \o rest /\ Paired(g \o rest)
      BY <2>1, <2>3
    <3> HIDE DEF g
    <3>2. /\ Paired(g)
          /\ Len(Leftover(g) \o rest) = Len(g \o rest) - 2 * (Len(g) \div 2)
          /\ \A i \in 1..Len(Leftover(g) \o rest) :
                (Leftover(g) \o rest)[i] = (g \o rest)[2 * (Len(g) \div 2) + i]
          /\ Paired(Leftover(g) \o rest)
      BY <2>1, <3>1, ScanRest
    <3> QED BY <2>1, <3>1, <3>2
  <2>7. T \in Seq(FragOf(M)) /\ Len(T) \in Nat /\ DOMAIN T = 1..Len(T)
    <3>1. Leftover(fs) \in Seq(FragOf(M))
      BY ExtractProperties
    <3> QED BY <3>1, ConcatProperties, LenProperties
  <2>8. Objects(g) = [i \in 1..k |-> g[2 * i].m]
    <3> HIDE DEF g
    <3> QED BY <2>1, <2>6, ScanPaired DEF k
  <2> HIDE DEF g
  <2>9. Len(A) >= Len(g) /\ \A i \in 1..Len(g) : A[i] = g[i]
    BY <2>1, <2>5
  <2> HIDE DEF k
  <2>10. ASSUME NEW i \in 1..k
         PROVE  /\ d + 2 * i \in DOMAIN S /\ Objects(fs)[i] = S[d + 2 * i].m /\ S[d + 2 * i].last
                /\ A[2 * i].m = A[2 * i - 1].m /\ A[2 * i].m = Objects(fs)[i]
    <3>0. ASSUME NEW n \in Nat, NEW q \in Nat, NEW r \in {0, 1}, n = 2 * q + r, NEW x \in 1..q
          PROVE  2 * x \in 1..n /\ (2 * x) % 2 = 0
      BY <3>0
    <3>1a. 2 * i \in 1..Len(g) /\ (2 * i) % 2 = 0
      BY <2>5, <3>0
    <3>1. 2 * i \in 1..Len(g) /\ (2 * i) % 2 = 0 /\ 2 * i \in 1..Len(A)
      <4>1. ASSUME NEW x, NEW n \in Nat, NEW l \in Nat, l >= n, x \in 1..n PROVE x \in 1..l
        BY <4>1
      <4> QED BY <2>2, <2>5, <2>9, <3>1a, <4>1
    <3>2. A[2 * i] = g[2 * i] /\ A[2 * i] = S[d + 2 * i]
      BY <2>4, <2>9, <3>1
    <3>3. A[2 * i].last /\ A[2 * i].m = A[2 * i - 1].m
      BY <2>2, <2>3, <3>1 DEF Paired
    <3>4. d + 2 * i \in 1..Len(S)
      BY <1>0, <2>2, <2>4, <3>1
    <3> QED BY <1>0, <2>1, <2>8, <3>2, <3>3, <3>4
  <2>11. ASSUME NEW i \in DOMAIN T
         PROVE  d + 2 * k + i \in DOMAIN S /\ T[i] = S[d + 2 * k + i]
    <3>0. ASSUME NEW n \in Nat, NEW q \in Nat, NEW t \in Nat, t = n - 2 * q, NEW x \in 1..t
          PROVE  2 * q + x \in 1..n
      BY <3>0
    <3>1. i \in 1..Len(T) /\ 2 * k + i \in 1..Len(A)
      BY <2>2, <2>5, <2>6, <2>7, <3>0
    <3>2. T[i] = S[d + (2 * k + i)]
      BY <2>4, <2>6, <3>1
    <3>3a. ASSUME NEW n \in Nat, NEW e \in {0, 1}, NEW q \in Nat, NEW x \in Nat, 2 * q + x \in 1..n
           PROVE  e + (2 * q + x) = e + 2 * q + x /\ e + 2 * q + x \in 1..(n + e)
      BY <3>3a
    <3>3. d + (2 * k + i) = d + 2 * k + i /\ d + 2 * k + i \in 1..Len(S)
      <4>1. i \in Nat /\ d \in {0, 1} /\ k \in Nat /\ Len(A) \in Nat /\ Len(S) = Len(A) + d
        BY <2>2, <2>4, <2>5, <2>7
      <4>2. /\ d + (2 * k + i) = d + 2 * k + i
            /\ d + 2 * k + i \in 1..(Len(A) + d)
        BY <3>1, <3>3a, <4>1
      <4> QED BY <4>1, <4>2
    <3> QED BY <1>0, <3>2, <3>3
  <2>12. ASSUME NEW j \in DOMAIN S
         PROVE  \/ j = 1 /\ S[1].last
                \/ \E i \in 1..k : S[j].m = Objects(fs)[i]
                \/ j - (d + 2 * k) \in DOMAIN T /\ T[j - (d + 2 * k)] = S[j]
    <3> DEFINE a == j - d
    <3>1. (j = 1 /\ d = 1) \/ (a \in 1..Len(A) /\ d + a = j)
      BY <1>0, <2>2, <2>4
    <3>2. CASE j = 1 /\ d = 1
      BY <2>4, <3>2
    <3>3. CASE a \in 1..Len(A) /\ d + a = j /\ a <= 2 * k
      <4>1. PICK i \in 1..k : a = 2 * i \/ a = 2 * i - 1
        <5>1. CASE a % 2 = 0
          <6>1. a \div 2 \in 1..k /\ a = 2 * (a \div 2)
            BY <2>2, <2>5, <3>3, <5>1
          <6> QED BY <6>1
        <5>2. CASE a % 2 = 1
          <6>0. ASSUME NEW q \in Nat, NEW x \in Nat, x % 2 = 1, x <= 2 * q
                PROVE  (x + 1) \div 2 \in 1..q /\ x = 2 * ((x + 1) \div 2) - 1
            <7>1. x + 1 = 2 * ((x + 1) \div 2) + ((x + 1) % 2) /\ (x + 1) \div 2 \in Nat
              BY <6>0, Halves
            <7>2. (x + 1) % 2 = 0
              BY <6>0
            <7> DEFINE y == (x + 1) \div 2
            <7>3. x + 1 = 2 * y /\ y \in Nat
              BY <7>1, <7>2
            <7> HIDE DEF y
            <7>4. y \in 1..q /\ x = 2 * y - 1
              BY <6>0, <7>3
            <7> QED BY <7>4 DEF y
          <6>1. (a + 1) \div 2 \in 1..k /\ a = 2 * ((a + 1) \div 2) - 1
            <7>1. a \in Nat /\ a % 2 = 1 /\ a <= 2 * k
              BY <2>2, <3>3, <5>2
            <7> HIDE DEF a
            <7> QED BY <2>5, <6>0, <7>1
          <6> QED BY <6>1
        <5>3. a % 2 \in {0, 1}
          BY <2>2, <3>3
        <5> QED BY <5>1, <5>2, <5>3
      <4>2. S[j] = A[a]
        BY <2>4, <3>3
      <4>3. S[j].m = Objects(fs)[i]
        <5> HIDE DEF a
        <5> QED BY <2>10, <4>1, <4>2
      <4> QED BY <4>3
    <3>4. CASE a \in 1..Len(A) /\ d + a = j /\ ~(a <= 2 * k)
      <4>0. ASSUME NEW n \in Nat, NEW e \in {0, 1}, NEW q \in Nat, NEW y \in Nat, NEW t,
                   t = n - 2 * q, y - e \in 1..n, ~(y - e <= 2 * q)
            PROVE  (y - e) - 2 * q \in 1..t /\ 2 * q + ((y - e) - 2 * q) = y - e
                   /\ (y - e) - 2 * q = y - (e + 2 * q)
        BY <4>0
      <4>1. a - 2 * k \in 1..Len(T) /\ 2 * k + (a - 2 * k) = a /\ a - 2 * k = j - (d + 2 * k)
        <5>1. j \in Nat
          BY <1>0
        <5>2. /\ d \in {0, 1} /\ k \in Nat /\ Len(A) \in Nat /\ Len(T) = Len(A) - 2 * k
              /\ j - d \in 1..Len(A) /\ ~(j - d <= 2 * k)
          BY <2>2, <2>4, <2>5, <2>6, <3>4
        <5>3. (j - d) - 2 * k \in 1..Len(T) /\ 2 * k + ((j - d) - 2 * k) = j - d
              /\ (j - d) - 2 * k = j - (d + 2 * k)
          BY <4>0, <5>1, <5>2
        <5> QED BY <5>3
      <4>2. T[a - 2 * k] = A[a] /\ A[a] = S[j]
        BY <2>4, <2>6, <3>4, <4>1
      <4> QED BY <2>7, <4>1, <4>2
    <3> QED BY <3>1, <3>2, <3>3, <3>4
  <2>13. DOMAIN Objects(fs) = 1..k
    BY <2>1, <2>8
  <2> d \in {0, 1} /\ k \in Nat
    BY <2>4, <2>5
  <2> WITNESS d \in {0, 1}, k \in Nat
  <2> QED BY <2>6, <2>10, <2>11, <2>12, <2>13 DEF Splits
<1> QED BY <1>1, <1>2
=============================================================================
