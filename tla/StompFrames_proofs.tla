------------------------- MODULE StompFrames_proofs -------------------------
(***************************************************************************)
(* Proofs about StompFrames, for frames, pieces and blocks of any length,  *)
(* any number of frames, reads that time out, and connections that fail at *)
(* any moment: the broker sees whole frames, one after the other; a buffer *)
(* that is returned is a whole frame, unless a cut damaged it; and no      *)
(* frame is skipped.                                                       *)
(***************************************************************************)
EXTENDS StompFrames, SequenceTheorems, WellFoundedInduction, TLAPS

-----------------------------------------------------------------------------
(* Places in a row of frames of the same length.                           *)
LEMMA PlaceInFrame ==
    ASSUME NEW L \in Nat \ {0}, NEW q \in Nat, NEW r \in 0 .. L - 1
    PROVE  (L * q + r) % L = r
BY Z3

LEMMA Place ==
    ASSUME NEW L \in Nat \ {0}, NEW a \in Nat
    PROVE  a = L * (a \div L) + (a % L) /\ a % L \in 0 .. L - 1 /\ a \div L \in Nat
BY SMT

LEMMA LaterPlace ==
    ASSUME NEW L \in Nat \ {0}, NEW a \in Nat, NEW j \in Nat, (a % L) + j < L
    PROVE  (a + j) % L = (a % L) + j
<1>1. PICK q \in Nat, r \in 0 .. L - 1 : q = a \div L /\ r = a % L /\ a = L * q + r
  BY Place
<1>2. PICK t \in 0 .. L - 1 : t = r + j
  BY <1>1
<1>3. (L * q + t) % L = t
  BY PlaceInFrame
<1>4. PICK p \in Nat : p = L * q
  OBVIOUS
<1>5. a + j = p + t
  BY <1>1, <1>2, <1>4
<1>6. QED
  BY <1>1, <1>2, <1>3, <1>4, <1>5

LEMMA NextFrame ==
    ASSUME NEW L \in Nat \ {0}, NEW a \in Nat, NEW j \in Nat, (a % L) + j = L
    PROVE  (a + j) % L = 0
<1>1. PICK q \in Nat, r \in 0 .. L - 1 : q = a \div L /\ r = a % L /\ a = L * q + r
  BY Place
<1>2. PICK s \in Nat : s = q + 1
  OBVIOUS
<1>3. a + j = L * q + L
  BY <1>1
<1>4. L * s = L * q + L
  BY <1>2
<1>5. PICK p \in Nat : p = L * s
  OBVIOUS
<1>6. (p + 0) % L = 0
  <2>1. 0 \in 0 .. L - 1
    OBVIOUS
  <2>2. (L * s + 0) % L = 0
    BY <2>1, PlaceInFrame
  <2>3. QED
    BY <1>5, <2>2
<1>7. a + j = p /\ p + 0 = p
  BY <1>3, <1>4, <1>5
<1>8. QED
  BY <1>6, <1>7

-----------------------------------------------------------------------------
(* Between two frames the broker has whole ones, as long as the connection *)
(* lives and the broker with it; within one it lacks exactly what is left  *)
(* to send.  A connection that failed is never written on again: OutInStep *)
(* alone does not know where a frame that is begun would be put.           *)
WriteInv ==
    /\ out \in Seq(Nat) /\ OutInStep
    /\ pc = "write" =>
          /\ socket /\ left \in 1 .. OutLength
          /\ peer = "open" => Len(out) % OutLength = OutLength - left
    /\ pc # "write" /\ socket /\ peer = "open" => Len(out) % OutLength = 0

LEMMA WriteInit == Init => WriteInv
<1> SUFFICES ASSUME Init PROVE WriteInv
  OBVIOUS
<1>1. out = <<>> /\ pc = "idle"
  BY DEF Init
<1>2. 0 % OutLength = 0
  BY SizeAssumption, PlaceInFrame
<1>3. QED
  BY <1>1, <1>2 DEF WriteInv, OutInStep

LEMMA SendStep == ASSUME WriteInv, SendSome, peer = "open" PROVE WriteInv'
<1> DEFINE L == OutLength
<1>1. L \in Nat \ {0}
  BY SizeAssumption
<1>2. /\ out \in Seq(Nat) /\ Len(out) \in Nat /\ socket /\ left \in 1 .. L
      /\ Len(out) % L = L - left
      /\ \A i \in 1 .. Len(out) : out[i] = ((i - 1) % L) + 1
  BY DEF WriteInv, SendSome, OutInStep
<1>3. PICK n \in 1 .. left : /\ out' = out \o [i \in 1 .. n |-> L - left + i]
                             /\ left' = left - n
                             /\ pc' = IF n = left THEN "idle" ELSE "write"
  BY DEF SendSome
<1>4. n \in Nat \ {0} /\ socket'
  BY <1>1, <1>2, <1>3 DEF SendSome
<1>5. PICK piece : piece = [i \in 1 .. n |-> L - left + i]
  OBVIOUS
<1>6. piece \in Seq(Nat) /\ Len(piece) = n /\ \A i \in 1 .. n : piece[i] = L - left + i
  BY <1>1, <1>2, <1>4, <1>5
<1>7. /\ out' \in Seq(Nat) /\ Len(out') = Len(out) + n
      /\ \A i \in 1 .. Len(out) : out'[i] = out[i]
      /\ \A i \in 1 .. n : out'[Len(out) + i] = L - left + i
  BY <1>2, <1>3, <1>4, <1>5, <1>6
<1>8. OutInStep'
  <2>1. ASSUME NEW i \in 1 .. Len(out') PROVE out'[i] = ((i - 1) % L) + 1
    <3>1. CASE i \in 1 .. Len(out)
      BY <1>2, <1>7, <3>1
    <3>2. CASE i \notin 1 .. Len(out)
      <4>1. PICK j \in 1 .. n : i = Len(out) + j
        <5>1. i - Len(out) \in 1 .. n /\ i = Len(out) + (i - Len(out))
          BY <1>2, <1>4, <1>7, <2>1, <3>2
        <5>2. QED
          BY <5>1
      <4>2. j - 1 \in Nat /\ (Len(out) % L) + (j - 1) < L
        BY <1>1, <1>2, <1>3, <4>1
      <4>3. (Len(out) + (j - 1)) % L = (Len(out) % L) + (j - 1)
        BY <1>1, <1>2, <4>2, LaterPlace
      <4>4. i - 1 = Len(out) + (j - 1)
        BY <1>2, <4>1
      <4>5. out'[i] = L - left + j
        BY <1>7, <4>1
      <4>6. (i - 1) % L = L - left + (j - 1)
        BY <1>2, <4>3, <4>4
      <4>7. L \in Nat /\ left \in Nat /\ j \in Nat
        BY <1>1, <1>2, <1>3, <4>1
      <4>8. QED
        BY <4>5, <4>6, <4>7
    <3>3. QED
      BY <3>1, <3>2
  <2>2. QED
    BY <1>7, <2>1 DEF OutInStep
<1>9. CASE n = left
  <2>1. (Len(out) % L) + n = L
    <3>1. PICK d : d = Len(out) % L
      OBVIOUS
    <3>2. d = L - n /\ L \in Int /\ n \in Int
      BY <1>1, <1>2, <1>4, <1>9, <3>1
    <3>3. d + n = L
      BY <3>2
    <3>4. QED
      BY <3>1, <3>3
  <2>2. (Len(out) + n) % L = 0
    BY <1>1, <1>2, <1>4, <2>1, NextFrame
  <2>3. Len(out') % L = 0
    BY <1>7, <2>2
  <2>4. QED
    BY <1>3, <1>7, <1>8, <1>9, <2>3 DEF WriteInv
<1>10. CASE n # left
  <2>1. (Len(out) % L) + n < L
    BY <1>1, <1>2, <1>3, <1>4, <1>10
  <2>2. (Len(out) + n) % L = (Len(out) % L) + n
    BY <1>1, <1>2, <1>4, <2>1, LaterPlace
  <2>3. left' \in 1 .. L /\ L - left' = (L - left) + n
    BY <1>1, <1>2, <1>3, <1>10
  <2>4. Len(out') % L = L - left'
    BY <1>2, <1>7, <2>2, <2>3
  <2>5. QED
    BY <1>3, <1>4, <1>7, <1>8, <1>10, <2>3, <2>4 DEF WriteInv
<1>11. QED
  BY <1>9, <1>10

LEMMA WriteStep == WriteInv /\ [Next]_vars => WriteInv'
<1> SUFFICES ASSUME WriteInv, [Next]_vars PROVE WriteInv'
  OBVIOUS
<1>1. ASSUME UNCHANGED out, pc # "write", pc' # "write", socket' => socket,
             peer' = "open" => peer = "open"
      PROVE  WriteInv'
  BY <1>1 DEF WriteInv, OutInStep
<1>2. ASSUME UNCHANGED <<out, pc, left, socket>>, peer' = "open" => peer = "open"
      PROVE  WriteInv'
  BY <1>2 DEF WriteInv, OutInStep
<1>3. CASE Broker \/ UNCHANGED vars
  <2>1. UNCHANGED <<out, pc, left, socket>> /\ (peer' = "open" => peer = "open")
    BY <1>3 DEF Broker, BrokerSends, PeerCloses, PeerResets, vars, writing
  <2>2. QED
    BY <1>2, <2>1
<1>4. CASE BeginRead \/ Read
  <2>1. /\ UNCHANGED out /\ pc # "write" /\ pc' # "write" /\ (socket' => socket)
        /\ peer' = "open" => peer = "open"
    BY <1>4 DEF BeginRead, Read, RecvByte, RecvNewline, RecvOther, RecvQuiet, RecvStall,
                RecvEof, RecvError, writing, vars
  <2>2. QED
    BY <1>1, <2>1
<1>5. CASE BeginWrite
  BY <1>5, SizeAssumption DEF BeginWrite, WriteInv, OutInStep
<1>6. CASE SendSome
  <2>1. CASE peer = "open"
    BY <1>6, <2>1, SendStep
  <2>2. CASE peer # "open"
    <3>1. UNCHANGED <<out, socket, peer>> /\ pc = "write" /\ left \in 1 .. OutLength /\ socket
      BY <1>6, <2>2 DEF SendSome, WriteInv
    <3>2. pc' = "write" => left' \in 1 .. OutLength
      BY <1>6, <3>1, SizeAssumption DEF SendSome
    <3>3. QED
      BY <2>2, <3>1, <3>2 DEF WriteInv, OutInStep
  <2>3. QED
    BY <2>1, <2>2
<1>7. CASE SendFails
  BY <1>7 DEF SendFails, WriteInv, OutInStep
<1>8. CASE Connect
  <2>1. out' = <<>> /\ pc' # "write"
    BY <1>8 DEF Connect
  <2>2. 0 % OutLength = 0
    BY SizeAssumption, PlaceInFrame
  <2>3. QED
    BY <2>1, <2>2 DEF WriteInv, OutInStep
<1>9. QED
  BY <1>3, <1>4, <1>5, <1>6, <1>7, <1>8 DEF Next, Write

(* The broker sees whole frames, one after the other: after a piece of a   *)
(* frame comes the next piece of it, or nothing more on that connection,   *)
(* however the frame is cut into pieces and whenever a send fails          *)
(* (stomp_write_buffer, stomp_disconnect).                                 *)
THEOREM OutAlwaysInStep == Spec => []OutInStep
<1>1. Spec => []WriteInv
  BY WriteInit, WriteStep, PTL DEF Spec
<1>2. WriteInv => OutInStep
  BY DEF WriteInv
<1>3. QED
  BY <1>1, <1>2, PTL

-----------------------------------------------------------------------------
(* Induction over the natural numbers with a set in the place of a         *)
(* predicate, and what follows from it for FlattenSeq, which SequencesExt  *)
(* defines by recursion.                                                   *)
LEMMA Least ==
    ASSUME NEW T \in SUBSET Nat, T # {}
    PROVE  \E n \in T : \A m \in T : n <= m
<1>1. IsWellFoundedOn(OpToRel(<, Nat), Nat)
  BY NatLessThanWellFounded
<1>2. PICK R : R = OpToRel(<, Nat)
  OBVIOUS
<1>3. \E x \in T : \A y \in T : ~ (<<y, x>> \in R)
  BY <1>1, <1>2, WFMin
<1>4. \A m, n \in Nat : <<m, n>> \in R <=> m < n
  BY <1>2 DEF OpToRel
<1>5. PICK x \in T : \A y \in T : ~ (<<y, x>> \in R)
  BY <1>3
<1>6. ASSUME NEW y \in T PROVE x <= y
  <2>1. x \in Nat /\ y \in Nat
    OBVIOUS
  <2>2. ~ (y < x)
    BY <1>4, <1>5, <2>1
  <2>3. QED
    BY <2>1, <2>2
<1>7. QED
  BY <1>6

(* Induction: a set that holds 0 and with every number the next one.       *)
LEMMA SetInduction ==
    ASSUME NEW S, 0 \in S, \A n \in Nat : n \in S => n + 1 \in S
    PROVE  Nat \subseteq S
<1> SUFFICES ASSUME Nat \ S # {} PROVE FALSE
  OBVIOUS
<1>1. PICK n \in Nat \ S : \A m \in Nat \ S : n <= m
  BY Least
<1>2. n # 0 /\ n - 1 \in Nat /\ n = (n - 1) + 1
  BY <1>1
<1>3. n - 1 \in S
  BY <1>1, <1>2
<1>4. QED
  BY <1>1, <1>2, <1>3

-----------------------------------------------------------------------------
\* The recursion inside FlattenSeq: f[i] is the first i sequences in one.
Flattens(f, s, n) ==
    f = [i \in 1 .. n |-> IF i = 1 THEN s[i] ELSE f[i - 1] \o s[i]]

LEMMA FlattensAt ==
    ASSUME NEW f, NEW s, NEW n \in Nat, Flattens(f, s, n), NEW i \in 1 .. n
    PROVE  f[i] = IF i = 1 THEN s[i] ELSE f[i - 1] \o s[i]
<1> DEFINE h == [j \in 1 .. n |-> IF j = 1 THEN s[j] ELSE f[j - 1] \o s[j]]
<1>1. h[i] = IF i = 1 THEN s[i] ELSE f[i - 1] \o s[i]
  OBVIOUS
<1>2. f = h
  BY Zenon DEF Flattens
<1> HIDE DEF h
<1>3. QED
  BY <1>1, <1>2

LEMMA FlattensExists ==
    ASSUME NEW A, NEW s \in Seq(Seq(A))
    PROVE  \A n \in Nat : n <= Len(s) => \E f \in [1 .. n -> Seq(A)] : Flattens(f, s, n)
<1> DEFINE S == {n \in Nat : n <= Len(s) => \E f \in [1 .. n -> Seq(A)] : Flattens(f, s, n)}
<1>1. 0 \in S
  <2>1. [i \in 1 .. 0 |-> <<>>] \in [1 .. 0 -> Seq(A)]
    OBVIOUS
  <2>2. Flattens([i \in 1 .. 0 |-> <<>>], s, 0)
    BY DEF Flattens
  <2>3. QED
    BY <2>1, <2>2
<1>2. ASSUME NEW n \in Nat, n \in S PROVE n + 1 \in S
  <2> SUFFICES ASSUME n + 1 <= Len(s)
               PROVE  \E f \in [1 .. n + 1 -> Seq(A)] : Flattens(f, s, n + 1)
    OBVIOUS
  <2>1. n <= Len(s) /\ s[n + 1] \in Seq(A)
    OBVIOUS
  <2>2. PICK f \in [1 .. n -> Seq(A)] : Flattens(f, s, n)
    BY <1>2, <2>1
  <2>6. \A i \in 1 .. n : f[i] = IF i = 1 THEN s[i] ELSE f[i - 1] \o s[i]
    <3> DEFINE g == f
    <3>1. Flattens(g, s, n)
      BY <2>2
    <3> HIDE DEF g
    <3>2. \A i \in 1 .. n : g[i] = IF i = 1 THEN s[i] ELSE g[i - 1] \o s[i]
      BY <3>1, FlattensAt
    <3>3. QED
      BY <3>2 DEF g
  <2> DEFINE g == [i \in 1 .. n + 1 |->
                     IF i <= n THEN f[i]
                     ELSE IF i = 1 THEN s[i] ELSE f[i - 1] \o s[i]]
  <2>3. g \in [1 .. n + 1 -> Seq(A)]
    <3>1. ASSUME NEW i \in 1 .. n + 1 PROVE g[i] \in Seq(A)
      <4>1. CASE i <= n
        BY <4>1
      <4>2. CASE ~(i <= n) /\ i = 1
        BY <2>1, <4>2
      <4>3. CASE ~(i <= n) /\ i # 1
        <5>1. i = n + 1 /\ n \in 1 .. n
          BY <4>3
        <5>2. f[n] \in Seq(A) /\ g[i] = f[n] \o s[n + 1]
          BY <5>1, <4>3
        <5>3. QED
          BY <2>1, <5>2
      <4>4. QED
        BY <4>1, <4>2, <4>3
    <3>2. QED
      BY <3>1
  <2>4. Flattens(g, s, n + 1)
    <3>1. ASSUME NEW i \in 1 .. n + 1
          PROVE  g[i] = IF i = 1 THEN s[i] ELSE g[i - 1] \o s[i]
      <4>1. i # 1 => i - 1 \in 1 .. n /\ g[i - 1] = f[i - 1]
        OBVIOUS
      <4>2. ASSUME i <= n PROVE f[i] = IF i = 1 THEN s[i] ELSE f[i - 1] \o s[i]
        <5>1. i \in 1 .. n
          BY <4>2
        <5>2. QED
          BY <2>6, <5>1
      <4>3. QED
        BY <4>1, <4>2
    <3> HIDE DEF g
    <3>2. DOMAIN g = 1 .. n + 1 /\ g = [i \in DOMAIN g |-> g[i]]
      BY <2>3
    <3>3. QED
      BY <3>1, <3>2 DEF Flattens
  <2>5. QED
    BY <2>3, <2>4
<1> HIDE DEF S
<1>3. Nat \subseteq S
  BY <1>1, <1>2, SetInduction
<1>4. QED
  BY <1>3 DEF S

(* Two such functions agree as far as their sequences do.                  *)
LEMMA FlattensAgree ==
    ASSUME NEW s, NEW t, NEW f, NEW g, NEW n \in Nat, NEW m \in Nat, n <= m,
           Flattens(f, s, n), Flattens(g, t, m), \A i \in 1 .. n : s[i] = t[i]
    PROVE  \A i \in 1 .. n : f[i] = g[i]
<1> DEFINE S == {i \in Nat : i \in 1 .. n => f[i] = g[i]}
<1>1. 0 \in S
  OBVIOUS
<1>2. ASSUME NEW i \in Nat, i \in S PROVE i + 1 \in S
  <2> SUFFICES ASSUME i + 1 \in 1 .. n PROVE f[i + 1] = g[i + 1]
    OBVIOUS
  <2>1. /\ f[i + 1] = IF i + 1 = 1 THEN s[i + 1] ELSE f[(i + 1) - 1] \o s[i + 1]
        /\ g[i + 1] = IF i + 1 = 1 THEN t[i + 1] ELSE g[(i + 1) - 1] \o t[i + 1]
    <3>1. i + 1 \in 1 .. m
      OBVIOUS
    <3>2. QED
      BY <3>1, FlattensAt
  <2>2. (i + 1) - 1 = i /\ s[i + 1] = t[i + 1]
    OBVIOUS
  <2>3. i + 1 # 1 => f[i] = g[i]
    BY <1>2
  <2>4. QED
    BY <2>1, <2>2, <2>3
<1> HIDE DEF S
<1>3. Nat \subseteq S
  BY <1>1, <1>2, SetInduction
<1>4. QED
  BY <1>3 DEF S

LEMMA FlattenValue ==
    ASSUME NEW A, NEW s \in Seq(Seq(A)), Len(s) # 0
    PROVE  \E f \in [1 .. Len(s) -> Seq(A)] :
              Flattens(f, s, Len(s)) /\ FlattenSeq(s) = f[Len(s)]
<1> DEFINE flatten == CHOOSE f : Flattens(f, s, Len(s))
<1>1. PICK f \in [1 .. Len(s) -> Seq(A)] : Flattens(f, s, Len(s))
  BY FlattensExists
<1>2. Flattens(flatten, s, Len(s))
  BY <1>1
<1>3. FlattenSeq(s) = flatten[Len(s)]
  BY DEF FlattenSeq, Flattens
<1> HIDE DEF flatten
<1>4. \A i \in 1 .. Len(s) : f[i] = flatten[i]
  BY <1>1, <1>2, FlattensAgree
<1>5. Len(s) \in 1 .. Len(s)
  OBVIOUS
<1>6. QED
  BY <1>1, <1>3, <1>4, <1>5

(* FlattenSeq gives a sequence of the elements.                            *)
LEMMA FlattenType ==
    ASSUME NEW A, NEW s \in Seq(Seq(A))
    PROVE  FlattenSeq(s) \in Seq(A)
<1>1. CASE Len(s) = 0
  <2>1. FlattenSeq(s) = s /\ s = <<>>
    BY <1>1 DEF FlattenSeq
  <2>2. QED
    BY <2>1
<1>2. CASE Len(s) # 0
  <2>1. PICK f \in [1 .. Len(s) -> Seq(A)] : FlattenSeq(s) = f[Len(s)]
    BY <1>2, FlattenValue
  <2>2. Len(s) \in 1 .. Len(s)
    BY <1>2
  <2>3. QED
    BY <2>1, <2>2
<1>3. QED
  BY <1>1, <1>2

(* One more sequence at the end.                                           *)
LEMMA FlattenAppend ==
    ASSUME NEW A, NEW s \in Seq(Seq(A)), NEW e \in Seq(A)
    PROVE  FlattenSeq(Append(s, e)) = FlattenSeq(s) \o e
<1> DEFINE t == Append(s, e)
<1>1. /\ t \in Seq(Seq(A)) /\ Len(t) = Len(s) + 1 /\ Len(t) # 0 /\ t[Len(t)] = e
      /\ \A i \in 1 .. Len(s) : s[i] = t[i]
  OBVIOUS
<1> HIDE DEF t
<1>2. PICK g \in [1 .. Len(t) -> Seq(A)] :
          Flattens(g, t, Len(t)) /\ FlattenSeq(t) = g[Len(t)]
  BY <1>1, FlattenValue
<1>n. Len(t) \in Nat /\ Len(s) \in Nat /\ Len(t) \in 1 .. Len(t)
  BY <1>1
<1>3. g[Len(t)] = IF Len(t) = 1 THEN t[Len(t)] ELSE g[Len(t) - 1] \o t[Len(t)]
  BY <1>2, <1>n, FlattensAt
<1>4. CASE Len(s) = 0
  <2>1. FlattenSeq(s) = s /\ s = <<>>
    BY <1>4 DEF FlattenSeq
  <2>2. Len(t) = 1
    BY <1>1, <1>4
  <2>3. <<>> \o e = e
    OBVIOUS
  <2>4. QED
    BY <1>1, <1>2, <1>3, <2>1, <2>2, <2>3 DEF t
<1>5. CASE Len(s) # 0
  <2>1. PICK f \in [1 .. Len(s) -> Seq(A)] :
            Flattens(f, s, Len(s)) /\ FlattenSeq(s) = f[Len(s)]
    BY <1>5, FlattenValue
  <2>2. Len(s) \in Nat /\ Len(t) \in Nat /\ Len(s) <= Len(t) /\ Len(s) \in 1 .. Len(s)
    BY <1>1, <1>5
  <2>3. \A i \in 1 .. Len(s) : f[i] = g[i]
    <3>1. Flattens(f, s, Len(s)) /\ Flattens(g, t, Len(t)) /\ \A i \in 1 .. Len(s) : s[i] = t[i]
      BY <1>1, <1>2, <2>1
    <3> DEFINE n == Len(s)
               m == Len(t)
    <3>2. n \in Nat /\ m \in Nat /\ n <= m
      BY <2>2
    <3>3. Flattens(f, s, n) /\ Flattens(g, t, m) /\ \A i \in 1 .. n : s[i] = t[i]
      BY <3>1
    <3> HIDE DEF n, m
    <3>4. \A i \in 1 .. n : f[i] = g[i]
      BY ONLY <3>2, <3>3, FlattensAgree
    <3>5. QED
      BY <3>4 DEF n
  <2>4. Len(t) # 1 /\ Len(t) - 1 = Len(s)
    BY <1>1, <1>5
  <2>5. QED
    BY <1>1, <1>2, <1>3, <2>1, <2>2, <2>3, <2>4 DEF t
<1>6. QED
  BY <1>4, <1>5

-----------------------------------------------------------------------------
(* The stream: what the client has read of a frame and what is still on    *)
(* its way.  Every byte in it is one of a frame that was sent, and the     *)
(* frames follow each other without a gap; where the broker leaves out the *)
(* newline, the next frame begins after the NUL.                           *)
Stream == Flat \o wire

Known(b, lengths) == b[1] \in 1 .. Len(lengths) /\ b[2] \in -1 .. lengths[b[1]]

Follows(b, c, lengths, short) ==
    \/ b[2] >= 1 /\ c[1] = b[1] /\ c[2] = IF b[2] < lengths[b[1]] THEN b[2] + 1 ELSE 0
    \/ b[2] = 0 /\ c[1] = b[1] /\ c[2] = -1
    \/ b[2] = 0 /\ b[1] \in short /\ c[1] = b[1] + 1 /\ c[2] = 1
    \/ b[2] = -1 /\ c[1] = b[1] + 1 /\ c[2] = 1

InOrder(s, lengths, short) ==
    /\ \A i \in 1 .. Len(s) : Known(s[i], lengths)
    /\ \A i \in 1 .. Len(s) - 1 : Follows(s[i], s[i + 1], lengths, short)
    /\ \A i, j \in 1 .. Len(s) : i < j =>
          s[i][1] <= s[j][1] /\ (s[j][2] = 1 => s[i][1] < s[j][1])

LEMMA Concat ==
    ASSUME NEW A, NEW s \in Seq(A), NEW t \in Seq(A)
    PROVE  /\ s \o t \in Seq(A) /\ Len(s \o t) = Len(s) + Len(t)
           /\ \A i \in 1 .. Len(s) : (s \o t)[i] = s[i]
           /\ \A i \in 1 .. Len(t) : (s \o t)[Len(s) + i] = t[i]
<1>1. ASSUME NEW i \in 1 .. Len(t) PROVE (s \o t)[Len(s) + i] = t[i]
  <2>1. /\ Len(s) + i \in 1 .. Len(s) + Len(t) /\ ~(Len(s) + i <= Len(s))
        /\ (Len(s) + i) - Len(s) = i
    OBVIOUS
  <2>2. (s \o t)[Len(s) + i] = t[(Len(s) + i) - Len(s)]
    BY <2>1, ConcatProperties
  <2>3. QED
    BY <2>1, <2>2
<1>2. QED
  BY <1>1, ConcatProperties

LEMMA OrderOfPart ==
    ASSUME NEW lengths \in Seq(Nat), NEW short, NEW more, short \subseteq more,
           NEW s \in Seq(Byte), NEW t \in Seq(Byte), NEW o \in Nat, Len(t) + o <= Len(s),
           \A i \in 1 .. Len(t) : t[i] = s[i + o],
           InOrder(s, lengths, short)
    PROVE  InOrder(t, lengths, more)
<1>1. \A i \in 1 .. Len(t) : Known(t[i], lengths)
  BY DEF InOrder
<1>2. ASSUME NEW i \in 1 .. Len(t) - 1 PROVE Follows(t[i], t[i + 1], lengths, more)
  <2>1. t[i] = s[i + o] /\ t[i + 1] = s[(i + o) + 1] /\ i + o \in 1 .. Len(s) - 1
    <3>1. i \in 1 .. Len(t) /\ i + 1 \in 1 .. Len(t) /\ (i + 1) + o = (i + o) + 1
      OBVIOUS
    <3>2. QED
      BY <3>1
  <2>2. Follows(s[i + o], s[(i + o) + 1], lengths, short)
    BY <2>1 DEF InOrder
  <2>3. QED
    BY <2>1, <2>2 DEF Follows
<1>3. ASSUME NEW i \in 1 .. Len(t), NEW j \in 1 .. Len(t), i < j
      PROVE  t[i][1] <= t[j][1] /\ (t[j][2] = 1 => t[i][1] < t[j][1])
  <2>1. i + o \in 1 .. Len(s) /\ j + o \in 1 .. Len(s) /\ i + o < j + o
    BY <1>3
  <2>2. QED
    BY <2>1 DEF InOrder
<1>4. QED
  BY <1>1, <1>2, <1>3 DEF InOrder

(* The bytes of a frame, and a stream with one more frame at its end.      *)
\* m is 1 when the newline is there, 0 when it is not.
Ending(k, m) == IF m = 1 THEN <<Newline(k)>> ELSE <<>>
FrameOf(k, n, m) == Append(Text(k, n), Nul(k)) \o Ending(k, m)

IsFrame(s, k, n, m) ==
    /\ s \in Seq(Byte) /\ Len(s) = n + 1 + m
    /\ \A i \in 1 .. Len(s) : s[i][1] = k
    /\ \A i \in 1 .. n : s[i][2] = i
    /\ s[n + 1][2] = 0
    /\ m = 1 => s[n + 2][2] = -1

LEMMA FrameBytes ==
    ASSUME NEW k \in Nat, NEW n \in Nat, NEW m \in {0, 1}
    PROVE  IsFrame(FrameOf(k, n, m), k, n, m)
<1> DEFINE s == FrameOf(k, n, m)
<1>1. PICK t : t = Text(k, n)
  OBVIOUS
<1>2. t \in Seq(Byte) /\ Len(t) = n /\ \A i \in 1 .. n : t[i] = <<k, i>>
  <2>1. \A i \in 1 .. n : <<k, i>> \in Byte
    BY DEF Byte
  <2>2. t = [i \in 1 .. n |-> <<k, i>>]
    BY <1>1 DEF Text
  <2>3. t \in [1 .. n -> Byte]
    BY <2>1, <2>2
  <2>4. QED
    BY <2>2, <2>3
<1>3. PICK u : u = Append(t, Nul(k))
  OBVIOUS
<1>4. Nul(k) \in Byte /\ Newline(k) \in Byte
  BY DEF Byte, Nul, Newline
<1>5. /\ u \in Seq(Byte) /\ Len(u) = n + 1 /\ u[n + 1] = Nul(k)
      /\ \A i \in 1 .. n : u[i] = <<k, i>>
  BY <1>2, <1>3, <1>4
<1>6. PICK e : e = Ending(k, m)
  OBVIOUS
<1>7. e \in Seq(Byte) /\ Len(e) = m /\ (m = 1 => e[1] = Newline(k))
  BY <1>4, <1>6 DEF Ending
<1>8. s = u \o e
  BY <1>1, <1>3, <1>6 DEF FrameOf
<1> HIDE DEF s
<1>9. /\ s \in Seq(Byte) /\ Len(s) = n + 1 + m
      /\ \A i \in 1 .. n : s[i] = <<k, i>>
      /\ s[n + 1] = <<k, 0>>
      /\ m = 1 => s[n + 2] = <<k, -1>>
  <2>1. s \in Seq(Byte) /\ Len(s) = Len(u) + Len(e)
    BY <1>5, <1>7, <1>8
  <2>2. \A i \in 1 .. Len(u) : s[i] = u[i]
    BY <1>5, <1>7, <1>8
  <2>3. ASSUME m = 1 PROVE s[n + 2] = e[1]
    <3>1. 1 \in 1 .. Len(e) /\ n + 2 = Len(u) + 1
      BY <1>5, <1>7, <2>3
    <3>2. s[Len(u) + 1] = e[1]
      BY <1>5, <1>7, <1>8, <3>1, Concat
    <3>3. QED
      BY <3>1, <3>2
  <2>4. ASSUME NEW i \in 1 .. n + 1 PROVE s[i] = u[i]
    BY <1>5, <2>2
  <2>5. ASSUME NEW i \in 1 .. n PROVE s[i] = <<k, i>>
    BY <1>5, <2>4
  <2>6. s[n + 1] = <<k, 0>>
    BY <1>5, <2>4 DEF Nul
  <2>7. ASSUME m = 1 PROVE s[n + 2] = <<k, -1>>
    BY <1>7, <2>3, <2>7 DEF Newline
  <2>8. Len(s) = n + 1 + m
    BY <1>5, <1>7, <2>1
  <2>9. QED
    BY <2>1, <2>5, <2>6, <2>7, <2>8
<1>11. ASSUME NEW i \in 1 .. Len(s) PROVE s[i][1] = k
  <2>1. i \in 1 .. n \/ i = n + 1 \/ (m = 1 /\ i = n + 2)
    BY <1>9
  <2>2. QED
    BY <1>9, <2>1
<1>12. IsFrame(s, k, n, m)
  BY <1>9, <1>11 DEF IsFrame
<1>13. QED
  BY <1>12 DEF s

Ends(s, n, short) ==
    s # <<>> => LET b == s[Len(s)]
                IN  b[1] = n /\ (b[2] = -1 \/ (b[2] = 0 /\ n \in short))

LEMMA OrderWithFrame ==
    ASSUME NEW lengths \in Seq(Nat), NEW short, NEW s \in Seq(Byte),
           InOrder(s, lengths, short), Ends(s, Len(lengths), short),
           NEW n \in Nat \ {0}, NEW m \in {0, 1}
    PROVE  LET k == Len(lengths) + 1
               more == IF m = 1 THEN short ELSE short \cup {k}
           IN  /\ InOrder(s \o FrameOf(k, n, m), Append(lengths, n), more)
               /\ Ends(s \o FrameOf(k, n, m), k, more)
<1> DEFINE k == Len(lengths) + 1
           more == IF m = 1 THEN short ELSE short \cup {k}
           longer == Append(lengths, n)
<1>1. k \in Nat /\ n \in Nat /\ k = Len(lengths) + 1 /\ Len(lengths) \in Nat
  OBVIOUS
<1> HIDE DEF k, longer
<1>2. PICK t : t = FrameOf(k, n, m)
  OBVIOUS
<1>3. /\ t \in Seq(Byte) /\ Len(t) = n + 1 + m
      /\ \A i \in 1 .. Len(t) : t[i][1] = k
      /\ \A i \in 1 .. n : t[i][2] = i
      /\ t[n + 1][2] = 0
      /\ m = 1 => t[n + 2][2] = -1
  <2>1. IsFrame(t, k, n, m)
    BY <1>1, <1>2, FrameBytes
  <2>2. QED
    BY <2>1 DEF IsFrame
<1>4. PICK u : u = s \o t
  OBVIOUS
<1>5. /\ u \in Seq(Byte) /\ Len(u) = Len(s) + Len(t)
      /\ \A i \in 1 .. Len(s) : u[i] = s[i]
      /\ \A i \in 1 .. Len(t) : u[Len(s) + i] = t[i]
  <2>1. t \in Seq(Byte)
    BY <1>3
  <2>2. /\ s \o t \in Seq(Byte) /\ Len(s \o t) = Len(s) + Len(t)
        /\ \A i \in 1 .. Len(s) : (s \o t)[i] = s[i]
        /\ \A i \in 1 .. Len(t) : (s \o t)[Len(s) + i] = t[i]
    BY <2>1, Concat
  <2>3. QED
    BY <1>4, <2>2
<1>6. longer \in Seq(Nat) /\ Len(longer) = k /\ longer[k] = n
      /\ \A i \in 1 .. Len(lengths) : longer[i] = lengths[i]
  BY <1>1 DEF longer
<1>7. ASSUME NEW i \in 1 .. Len(t)
      PROVE  /\ i <= n => t[i][2] = i
             /\ i = n + 1 => t[i][2] = 0
             /\ i > n + 1 => m = 1 /\ i = n + 2 /\ t[i][2] = -1
  BY <1>1, <1>3
<1>8. \A i \in 1 .. Len(s) : Known(s[i], lengths)
  BY DEF InOrder
<1>9. ASSUME NEW i \in 1 .. Len(u) PROVE Known(u[i], longer)
  <2>1. CASE i <= Len(s)
    <3>1. u[i] = s[i] /\ Known(s[i], lengths)
      BY <1>5, <1>8, <2>1
    <3>2. PICK b : b = s[i]
      OBVIOUS
    <3>3. b[1] \in 1 .. Len(lengths) /\ b[2] \in -1 .. lengths[b[1]]
      BY <3>1, <3>2 DEF Known
    <3>4. PICK c : c = b[1]
      OBVIOUS
    <3>5. c \in 1 .. Len(lengths)
      BY <3>3, <3>4
    <3>6. longer[c] = lengths[c]
      BY <1>6, <3>5
    <3>7. Len(lengths) \in Nat /\ Len(longer) = k /\ Len(lengths) <= k /\ k \in Nat
      BY <1>1, <1>6
    <3>8. c \in 1 .. Len(longer)
      BY <3>5, <3>7
    <3>9. b[1] \in 1 .. Len(longer) /\ longer[b[1]] = lengths[b[1]]
      BY <3>4, <3>6, <3>8
    <3>10. QED
      BY <3>1, <3>2, <3>3, <3>9 DEF Known
  <2>2. CASE ~(i <= Len(s))
    <3>1. PICK j \in 1 .. Len(t) : i = Len(s) + j
      <4>1. i - Len(s) \in 1 .. Len(t) /\ i = Len(s) + (i - Len(s))
        BY <1>3, <1>5, <2>2
      <4>2. QED
        BY <4>1
    <3>2. u[i] = t[j] /\ t[j][1] = k
      BY <1>3, <1>5, <3>1
    <3>3. t[j][2] \in -1 .. n
      BY <1>1, <1>7
    <3>4. QED
      BY <1>1, <1>6, <3>2, <3>3 DEF Known
  <2>3. QED
    BY <2>1, <2>2
<1>10. ASSUME NEW i \in 1 .. Len(u) - 1 PROVE Follows(u[i], u[i + 1], longer, more)
  <2>1. CASE i < Len(s)
    <3>1. /\ u[i] = s[i] /\ u[i + 1] = s[i + 1]
          /\ Follows(s[i], s[i + 1], lengths, short) /\ Known(s[i], lengths)
      <4>1. i \in 1 .. Len(s) - 1 /\ i \in 1 .. Len(s) /\ i + 1 \in 1 .. Len(s)
        BY <2>1
      <4>2. u[i] = s[i] /\ u[i + 1] = s[i + 1]
        BY <1>5, <4>1
      <4>3. Follows(s[i], s[i + 1], lengths, short) /\ Known(s[i], lengths)
        BY <1>8, <4>1 DEF InOrder
      <4>4. QED
        BY <4>2, <4>3
    <3>2. lengths[s[i][1]] = longer[s[i][1]]
      BY <1>6, <3>1 DEF Known
    <3>3. QED
      BY <3>1, <3>2 DEF Follows
  <2>2. CASE i = Len(s)
    <3>1. /\ u[i] = s[Len(s)] /\ u[i + 1] = t[1] /\ s # <<>>
          /\ t[1][1] = k /\ t[1][2] = 1
      <4>1. 1 \in 1 .. n /\ 1 \in 1 .. Len(t) /\ Len(s) \in 1 .. Len(s) /\ s # <<>>
        <5>1. 1 \in 1 .. n /\ 1 \in 1 .. Len(t)
          BY <1>1, <1>3
        <5>2. Len(s) \in Nat \ {0}
          BY <2>2
        <5>3. QED
          BY <5>1, <5>2
      <4>2. t[1][1] = k /\ t[1][2] = 1
        BY <1>3, <4>1
      <4>3. u[i] = s[Len(s)] /\ u[i + 1] = t[1]
        BY <1>5, <2>2, <4>1
      <4>4. QED
        BY <4>1, <4>2, <4>3
    <3>2. s[Len(s)][1] = Len(lengths) /\ (s[Len(s)][2] = -1
             \/ (s[Len(s)][2] = 0 /\ Len(lengths) \in short))
      BY <3>1 DEF Ends
    <3>3. QED
      BY <1>1, <3>1, <3>2 DEF Follows
  <2>3. CASE i > Len(s)
    <3>1. PICK j \in 1 .. Len(t) : i = Len(s) + j /\ j + 1 \in 1 .. Len(t)
      <4>1. Len(s) \in Nat /\ Len(t) \in Nat /\ i \in 1 .. Len(s) + Len(t) - 1
        BY <1>3, <1>5
      <4>2. i - Len(s) \in 1 .. Len(t) /\ i = Len(s) + (i - Len(s))
            /\ (i - Len(s)) + 1 \in 1 .. Len(t)
        BY <2>3, <4>1
      <4>3. QED
        BY <4>2
    <3>2. u[i] = t[j] /\ u[i + 1] = t[j + 1] /\ t[j][1] = k /\ t[j + 1][1] = k
      <4>1. i + 1 = Len(s) + (j + 1)
        BY <3>1
      <4>2. QED
        BY <1>3, <1>5, <3>1, <4>1
    <3>3. CASE j < n
      <4>1. t[j][2] = j /\ t[j + 1][2] = j + 1 /\ j >= 1
        BY <1>1, <1>3, <3>3
      <4>2. QED
        BY <1>6, <3>2, <3>3, <4>1 DEF Follows
    <3>4. CASE j = n
      <4>1. t[j][2] = j /\ t[j + 1][2] = 0 /\ j >= 1
        BY <1>1, <1>3, <3>4
      <4>2. QED
        BY <1>6, <3>2, <3>4, <4>1 DEF Follows
    <3>5. CASE j > n
      <4>1. t[j][2] = 0 /\ t[j + 1][2] = -1
        BY <1>1, <1>7, <3>1, <3>5
      <4>2. QED
        BY <3>2, <4>1 DEF Follows
    <3>6. QED
      BY <1>1, <3>3, <3>4, <3>5
  <2>4. QED
    BY <2>1, <2>2, <2>3
<1>11. ASSUME NEW i \in 1 .. Len(u), NEW j \in 1 .. Len(u), i < j
       PROVE  u[i][1] <= u[j][1] /\ (u[j][2] = 1 => u[i][1] < u[j][1])
  <2>1. CASE j <= Len(s)
    <3>1. i \in 1 .. Len(s) /\ j \in 1 .. Len(s) /\ u[i] = s[i] /\ u[j] = s[j]
      BY <1>5, <1>11, <2>1
    <3>2. QED
      BY <1>11, <3>1 DEF InOrder
  <2>2. CASE i <= Len(s) /\ ~(j <= Len(s))
    <3>1. u[i] = s[i] /\ Known(s[i], lengths)
      BY <1>5, <1>8, <2>2
    <3>2. PICK b \in 1 .. Len(t) : j = Len(s) + b
      <4>1. Len(s) \in Nat /\ Len(t) \in Nat /\ j \in 1 .. Len(s) + Len(t)
        BY <1>3, <1>5
      <4>2. j - Len(s) \in 1 .. Len(t) /\ j = Len(s) + (j - Len(s))
        BY <2>2, <4>1
      <4>3. QED
        BY <4>2
    <3>3. u[j][1] = k
      <4>1. u[j] = t[b]
        BY <1>5, <3>2
      <4>2. QED
        BY <1>3, <4>1
    <3>4. u[i][1] \in 1 .. Len(lengths)
      BY <3>1 DEF Known
    <3>5. QED
      BY <1>1, <3>3, <3>4
  <2>3. CASE ~(i <= Len(s))
    <3>1. PICK a \in 1 .. Len(t), b \in 1 .. Len(t) :
               i = Len(s) + a /\ j = Len(s) + b
      <4>1. PICK d, c : d = Len(s) /\ c = Len(t)
        OBVIOUS
      <4>2. d \in Nat /\ c \in Nat /\ i \in Int /\ j \in Int
        BY <1>3, <4>1
      <4>3. i <= d + c /\ j <= d + c /\ i < j /\ ~(i <= d)
        BY <1>5, <1>11, <2>3, <4>1
      <4>4. i - d \in 1 .. c /\ j - d \in 1 .. c /\ i = d + (i - d) /\ j = d + (j - d)
        BY <4>2, <4>3
      <4>5. QED
        BY <4>1, <4>4
    <3>2. a < b /\ u[i] = t[a] /\ u[j] = t[b]
      BY <1>5, <1>11, <3>1
    <3>3. t[a][1] = k /\ t[b][1] = k
      BY <1>3
    <3>4. t[b][2] # 1
      <4>1. b \in Nat /\ b > 1 /\ n \in Nat
        BY <1>1, <3>1, <3>2
      <4>2. PICK w : w = t[b][2]
        OBVIOUS
      <4>3. /\ b <= n => w = b
            /\ b = n + 1 => w = 0
            /\ b > n + 1 => w = -1
        BY <1>7, <4>2
      <4>4. w # 1
        BY <4>1, <4>3
      <4>5. QED
        BY <4>2, <4>4
    <3>5. u[i][1] = k /\ u[j][1] = k /\ u[j][2] # 1
      BY <3>2, <3>3, <3>4
    <3>6. k <= k
      BY <1>1
    <3>7. QED
      BY <3>5, <3>6
  <2>4. QED
    BY <2>1, <2>2, <2>3
<1>12. InOrder(u, longer, more)
  BY <1>9, <1>10, <1>11 DEF InOrder
<1>13. Ends(u, k, more)
  <2>1. Len(t) \in 1 .. Len(t) /\ u[Len(u)] = t[Len(t)] /\ t[Len(t)][1] = k
    <3>1. Len(t) \in Nat /\ Len(t) >= 1
      BY <1>1, <1>3
    <3>2. Len(t) \in 1 .. Len(t)
      BY <3>1
    <3>3. u[Len(s) + Len(t)] = t[Len(t)] /\ t[Len(t)][1] = k
      BY <1>3, <1>5, <3>2
    <3>4. QED
      BY <1>5, <3>2, <3>3
  <2>2. CASE m = 1
    BY <1>1, <1>3, <2>1, <2>2 DEF Ends
  <2>3. CASE m = 0
    BY <1>1, <1>3, <2>1, <2>3 DEF Ends
  <2>4. QED
    BY <2>2, <2>3
<1>14. QED
  BY <1>2, <1>4, <1>12, <1>13 DEF k, longer

-----------------------------------------------------------------------------
(* The block list.                                                         *)
BlocksOK(list) ==
    /\ list \in Seq(Seq(Byte)) /\ list # <<>>
    /\ \A i \in 1 .. Len(list) : Len(list[i]) <= BlockSize

Room(list) == Len(list[Len(list)]) < BlockSize

LEMMA FrontAndLast ==
    ASSUME NEW A, NEW s \in Seq(A), s # <<>>
    PROVE  /\ Front(s) \in Seq(A) /\ Len(Front(s)) = Len(s) - 1 /\ Last(s) \in A
           /\ \A i \in 1 .. Len(s) - 1 : Front(s)[i] = s[i]
           /\ s = Append(Front(s), Last(s))
<1>1. Len(s) \in Nat \ {0}
  OBVIOUS
<1>2. /\ Front(s) \in Seq(A) /\ Len(Front(s)) = Len(s) - 1
      /\ \A i \in 1 .. Len(s) - 1 : Front(s)[i] = s[i]
  <2>1. PICK n : n = Len(s) - 1 /\ n \in Nat
    BY <1>1
  <2>2. \A i \in 1 .. n : s[i] \in A
    BY <2>1
  <2>3. /\ SubSeq(s, 1, n) \in Seq(A)
        /\ Len(SubSeq(s, 1, n)) = IF 1 <= n THEN n - 1 + 1 ELSE 0
        /\ \A i \in 1 .. n - 1 + 1 : SubSeq(s, 1, n)[i] = s[1 + i - 1]
    BY <2>1, <2>2, SubSeqProperties
  <2>4. Len(SubSeq(s, 1, n)) = n
    BY <2>1, <2>3
  <2>5. ASSUME NEW i \in 1 .. n PROVE SubSeq(s, 1, n)[i] = s[i]
    <3>1. i \in 1 .. n - 1 + 1 /\ 1 + i - 1 = i
      BY <2>1
    <3>2. QED
      BY <2>3, <3>1
  <2>6. QED
    BY <2>1, <2>3, <2>4, <2>5 DEF Front
<1>3. Last(s) \in A /\ Last(s) = s[Len(s)]
  BY <1>1 DEF Last
<1>4. PICK t : t = Append(Front(s), Last(s))
  OBVIOUS
<1>5. /\ t \in Seq(A) /\ Len(t) = Len(s) /\ t[Len(s)] = s[Len(s)]
      /\ \A i \in 1 .. Len(s) - 1 : t[i] = s[i]
  BY <1>1, <1>2, <1>3, <1>4
<1>6. \A i \in 1 .. Len(s) : s[i] = t[i]
  BY <1>1, <1>5
<1>7. s = t
  BY <1>5, <1>6, SeqEqual
<1>8. QED
  BY <1>2, <1>3, <1>4, <1>7

(* Storing a byte adds it to what was read.                                *)
LEMMA StoredByte ==
    ASSUME BlocksOK(blocks), Room(blocks), NEW b \in Byte
    PROVE  /\ BlocksOK(Stored(b)) /\ (~IsNul(b) => Room(Stored(b)))
           /\ FlattenSeq(Stored(b)) = Append(Flat, b)
<1>1. /\ Front(blocks) \in Seq(Seq(Byte)) /\ Last(blocks) \in Seq(Byte)
      /\ Len(Front(blocks)) = Len(blocks) - 1
      /\ \A i \in 1 .. Len(blocks) - 1 : Front(blocks)[i] = blocks[i]
      /\ blocks = Append(Front(blocks), Last(blocks))
  BY FrontAndLast DEF BlocksOK
<1>2. PICK before, last : before = Front(blocks) /\ last = Last(blocks)
  OBVIOUS
<1>3. /\ before \in Seq(Seq(Byte)) /\ last \in Seq(Byte) /\ blocks = Append(before, last)
      /\ \A i \in 1 .. Len(before) : Len(before[i]) <= BlockSize
      /\ Len(last) < BlockSize
  <2>1. before \in Seq(Seq(Byte)) /\ last \in Seq(Byte) /\ blocks = Append(before, last)
    BY <1>1, <1>2
  <2>2. ASSUME NEW i \in 1 .. Len(before) PROVE Len(before[i]) <= BlockSize
    <3>1. i \in 1 .. Len(blocks) - 1 /\ i \in 1 .. Len(blocks)
      BY <1>1, <1>2 DEF BlocksOK
    <3>2. before[i] = blocks[i] /\ Len(blocks[i]) <= BlockSize
      BY <1>1, <1>2, <3>1 DEF BlocksOK
    <3>3. QED
      BY <3>2
  <2>3. Len(last) < BlockSize
    BY <1>2 DEF Room, Last
  <2>4. QED
    BY <2>1, <2>2, <2>3
<1>4. PICK tail : tail = Append(last, b)
  OBVIOUS
<1>5. tail \in Seq(Byte) /\ Len(tail) = Len(last) + 1 /\ Len(tail) <= BlockSize
      /\ BlockSize \in Nat \ {0}
  BY <1>3, <1>4, SizeAssumption
<1>6. PICK list : list = Append(before, tail)
  OBVIOUS
<1>7. /\ list \in Seq(Seq(Byte)) /\ list # <<>> /\ Len(list) = Len(before) + 1
      /\ list[Len(list)] = tail
      /\ \A i \in 1 .. Len(list) : Len(list[i]) <= BlockSize
  <2>1. /\ list \in Seq(Seq(Byte)) /\ list # <<>> /\ Len(list) = Len(before) + 1
        /\ list[Len(before) + 1] = tail
        /\ \A i \in 1 .. Len(before) : list[i] = before[i]
    BY <1>3, <1>5, <1>6, AppendProperties
  <2>2. ASSUME NEW i \in 1 .. Len(list) PROVE Len(list[i]) <= BlockSize
    <3>1. i \in 1 .. Len(before) \/ i = Len(before) + 1
      BY <1>3, <2>1
    <3>2. QED
      BY <1>3, <1>5, <2>1, <3>1
  <2>3. QED
    BY <2>1, <2>2
<1>8. FlattenSeq(list) = Append(Flat, b)
  <2>1. /\ FlattenSeq(list) = FlattenSeq(before) \o tail
        /\ FlattenSeq(blocks) = FlattenSeq(before) \o last
    BY <1>3, <1>5, <1>6, FlattenAppend
  <2>2. PICK f : f = FlattenSeq(before)
    OBVIOUS
  <2>3. f \in Seq(Byte)
    BY <1>3, <2>2, FlattenType
  <2>4. f \o Append(last, b) = Append(f \o last, b)
    <3>1. /\ Append(last, b) = last \o <<b>> /\ <<b>> \in Seq(Byte)
          /\ f \o last \in Seq(Byte) /\ Append(f \o last, b) = (f \o last) \o <<b>>
      BY <1>3, <2>3, AppendIsConcat, ConcatProperties
    <3>2. (f \o last) \o <<b>> = f \o (last \o <<b>>)
      BY <1>3, <2>3, <3>1, ConcatAssociative
    <3>3. QED
      BY <3>1, <3>2
  <2>5. QED
    BY <1>4, <2>1, <2>2, <2>4 DEF Flat
<1>9. Stored(b) = IF ~IsNul(b) /\ Len(tail) >= BlockSize THEN Append(list, <<>>) ELSE list
  BY <1>2, <1>4, <1>6 DEF Stored
<1>10. CASE ~IsNul(b) /\ Len(tail) >= BlockSize
  <2>1. PICK more : more = Append(list, <<>>)
    OBVIOUS
  <2>2. <<>> \in Seq(Byte) /\ Len(<<>>) = 0
    BY EmptySeq
  <2>3. /\ more \in Seq(Seq(Byte)) /\ more # <<>> /\ Len(more) = Len(list) + 1
        /\ more[Len(list) + 1] = <<>>
        /\ \A i \in 1 .. Len(list) : more[i] = list[i]
    <3>1. list \in Seq(Seq(Byte)) /\ <<>> \in Seq(Byte)
      BY <1>7, <2>2
    <3>2. QED
      BY <2>1, <3>1, AppendProperties
  <2>4. ASSUME NEW i \in 1 .. Len(more) PROVE Len(more[i]) <= BlockSize
    <3>1. i \in 1 .. Len(list) \/ i = Len(list) + 1
      BY <1>7, <2>3
    <3>2. QED
      BY <1>5, <1>7, <2>2, <2>3, <3>1
  <2>5. BlocksOK(more) /\ Room(more)
    BY <1>5, <2>2, <2>3, <2>4 DEF BlocksOK, Room
  <2>6. FlattenSeq(more) = FlattenSeq(list) \o <<>>
    BY <1>7, <2>1, <2>2, FlattenAppend
  <2>7. FlattenSeq(list) \in Seq(Byte)
    BY <1>7, FlattenType
  <2>8. FlattenSeq(more) = FlattenSeq(list)
    BY <2>6, <2>7
  <2>9. Stored(b) = more
    BY <1>9, <1>10, <2>1
  <2>10. QED
    BY <1>8, <2>5, <2>8, <2>9
<1>11. CASE ~(~IsNul(b) /\ Len(tail) >= BlockSize)
  <2>1. Stored(b) = list
    BY <1>9, <1>11
  <2>2. BlocksOK(list)
    BY <1>7 DEF BlocksOK
  <2>3. ~IsNul(b) => Room(list)
    BY <1>5, <1>7, <1>11 DEF Room
  <2>4. QED
    BY <1>8, <2>1, <2>2, <2>3
<1>12. QED
  BY <1>10, <1>11

(* No block holds more than the copy takes.                                *)
LEMMA SmallerOfTwo ==
    ASSUME NEW a \in Int, NEW b \in Int, b <= a PROVE Min({a, b}) = b
<1>1. b \in {a, b} /\ \A y \in {a, b} : b <= y
  OBVIOUS
<1>2. \A x \in {a, b} : (\A y \in {a, b} : x <= y) => x = b
  OBVIOUS
<1>3. QED
  BY <1>1, <1>2 DEF Min

LEMMA CopiedWhole ==
    ASSUME BlocksOK(blocks) PROVE Copied = Flat
<1> DEFINE part(i) == SubSeq(blocks[i], 1, Min({BlockSize, Len(blocks[i])}))
<1>1. ASSUME NEW i \in DOMAIN blocks PROVE part(i) = blocks[i]
  <2>1. i \in 1 .. Len(blocks) /\ blocks[i] \in Seq(Byte) /\ Len(blocks[i]) <= BlockSize
        /\ Len(blocks[i]) \in Int /\ BlockSize \in Int
    BY SizeAssumption DEF BlocksOK
  <2>2. Min({BlockSize, Len(blocks[i])}) = Len(blocks[i])
    BY <2>1, SmallerOfTwo
  <2>3. SubSeq(blocks[i], 1, Len(blocks[i])) = blocks[i]
    BY <2>1, SubSeqFull
  <2>4. QED
    BY <2>2, <2>3
<1>2. blocks = [i \in DOMAIN blocks |-> blocks[i]]
  BY DEF BlocksOK
<1>3. [i \in DOMAIN blocks |-> part(i)] = [i \in DOMAIN blocks |-> blocks[i]]
  BY <1>1
<1>4. Copied = FlattenSeq([i \in DOMAIN blocks |-> part(i)])
  BY DEF Copied
<1>5. QED
  BY <1>2, <1>3, <1>4 DEF Flat

-----------------------------------------------------------------------------
(* The invariant.  The stream begins at the beginning of a frame, or else  *)
(* in a damaged one, and ends, as long as the broker can send, at the end  *)
(* of the last frame sent.                                                 *)
Hurt(short) == short \cup {k + 1 : k \in short}

Begins(s, short) ==
    s # <<>> => \/ s[1][2] = 1
                \/ s[1][2] = -1 /\ s[1][1] \in short
                \/ s[1][2] >= 0 /\ s[1][1] \in Hurt(short)

StreamInv ==
    /\ InOrder(Stream, sent, cut) /\ Begins(Stream, cut)
    /\ peer = "open" => Ends(Stream, Len(sent), cut)

\* What was read of one frame from its beginning, and what was read otherwise.
OneFrame(s, lengths) ==
    \A i \in 1 .. Len(s) : /\ s[i][1] = s[1][1]
                           /\ s[i][2] = IF i <= lengths[s[1][1]] THEN i ELSE 0

ReadInv ==
    /\ pc \in {"idle", "write"} => blocks = <<>>
    /\ pc \in {"text", "newline"} => BlocksOK(blocks)
    /\ pc = "text" => Room(blocks)
    /\ pc = "newline" => Flat # <<>>
    /\ \A i \in 1 .. Len(Flat) : Flat[i][2] = 0 <=> (pc = "newline" /\ i = Len(Flat))
    /\ peer = "reset" => wire = <<>>
    /\ Flat # <<>> /\ Flat[1][2] = 1 => OneFrame(Flat, sent)
    /\ Flat # <<>> /\ Flat[1][2] # 1 => \A i \in 1 .. Len(Flat) : Flat[i][1] \in Damaged

\* Nothing on its way belongs to an earlier frame than what was returned.
After(k, s) ==
    \A i \in 1 .. Len(s) : k <= s[i][1] /\ (s[i][2] = 1 => k < s[i][1])

GotInv ==
    \A j \in 1 .. Len(got) :
        /\ got[j] # <<>> /\ \A i \in 1 .. Len(got[j]) : Known(got[j][i], sent)
        /\ After(got[j][1][1], Stream)

LEMMA Types ==
    ASSUME TypeOK
    PROVE  /\ Flat \in Seq(Byte) /\ wire \in Seq(Byte) /\ Stream \in Seq(Byte)
           /\ Len(Flat) \in Nat /\ Len(wire) \in Nat
           /\ Len(Stream) = Len(Flat) + Len(wire)
           /\ \A i \in 1 .. Len(Flat) : Stream[i] = Flat[i]
           /\ \A i \in 1 .. Len(wire) : Stream[Len(Flat) + i] = wire[i]
           /\ sent \in Seq(Nat) /\ Len(sent) \in Nat
<1>1. Flat \in Seq(Byte)
  BY FlattenType DEF TypeOK, Flat
<1>2. wire \in Seq(Byte)
  BY DEF TypeOK
<1>3. PICK f : f = Flat
  OBVIOUS
<1>4. /\ f \o wire \in Seq(Byte) /\ Len(f \o wire) = Len(f) + Len(wire)
      /\ \A i \in 1 .. Len(f) : (f \o wire)[i] = f[i]
      /\ \A i \in 1 .. Len(wire) : (f \o wire)[Len(f) + i] = wire[i]
  BY <1>1, <1>2, <1>3, Concat
<1>5. Stream = f \o wire
  BY <1>3 DEF Stream
<1>6. sent \in Seq(Nat)
  <2>1. sent \in Seq(1 .. MaxText) /\ 1 .. MaxText \subseteq Nat
    BY SizeAssumption DEF TypeOK
  <2>2. QED
    BY <2>1, SeqMonotonic
<1>7. QED
  BY <1>1, <1>2, <1>3, <1>4, <1>5, <1>6

LEMMA NothingRead ==
    /\ blocks = <<>> => Flat = <<>>
    /\ blocks = << <<>> >> => Flat = <<>>
<1>1. FlattenSeq(<<>>) = <<>>
  BY DEF FlattenSeq
<1>2. FlattenSeq(<< <<>> >>) = <<>>
  <2>1. <<>> \in Seq(Seq(Byte)) /\ <<>> \in Seq(Byte)
    OBVIOUS
  <2>2. FlattenSeq(Append(<<>>, <<>>)) = FlattenSeq(<<>>) \o <<>>
    BY <2>1, FlattenAppend
  <2>3. Append(<<>>, <<>>) = << <<>> >> /\ <<>> \o <<>> = <<>>
    OBVIOUS
  <2>4. QED
    BY <1>1, <2>2, <2>3
<1>3. QED
  BY <1>1, <1>2 DEF Flat

(* What is left of the stream when some of it was taken.                   *)
LEMMA RestOfStream ==
    ASSUME TypeOK, StreamInv, NEW more, cut \subseteq more,
           NEW o \in Nat, NEW t \in Seq(Byte), Len(t) + o = Len(Stream),
           \A i \in 1 .. Len(t) : t[i] = Stream[i + o]
    PROVE  /\ InOrder(t, sent, more)
           /\ peer = "open" => Ends(t, Len(sent), more)
           /\ t # <<>> /\ o # 0 => Follows(Stream[o], t[1], sent, cut)
<1>1. Stream \in Seq(Byte) /\ sent \in Seq(Nat)
  BY Types
<1>2. InOrder(t, sent, more)
  <2>1. PICK s : s = Stream
    OBVIOUS
  <2>2. PICK f : f = sent
    OBVIOUS
  <2>3. /\ s \in Seq(Byte) /\ f \in Seq(Nat) /\ InOrder(s, f, cut)
        /\ Len(t) + o <= Len(s) /\ \A i \in 1 .. Len(t) : t[i] = s[i + o]
    BY <1>1, <2>1, <2>2 DEF StreamInv
  <2>4. InOrder(t, f, more)
    BY <2>3, OrderOfPart
  <2>5. QED
    BY <2>2, <2>4
<1>3. ASSUME peer = "open", t # <<>> PROVE Ends(t, Len(sent), more)
  <2>1. Len(t) \in 1 .. Len(t) /\ Len(Stream) \in Nat \ {0}
    BY <1>1, <1>3
  <2>3. t[Len(t)] = Stream[Len(Stream)] /\ Stream # <<>>
    <3>1. t[Len(t)] = Stream[Len(t) + o]
      BY <2>1
    <3>2. Stream # <<>>
      BY <2>1
    <3>3. QED
      BY <3>1, <3>2
  <2>2. QED
    BY <1>3, <2>3 DEF StreamInv, Ends
<1>4. ASSUME t # <<>>, o # 0 PROVE Follows(Stream[o], t[1], sent, cut)
  <2>1. 1 \in 1 .. Len(t) /\ o \in 1 .. Len(Stream) - 1 /\ t[1] = Stream[o + 1]
    BY <1>1, <1>4
  <2>2. QED
    BY <2>1 DEF StreamInv, InOrder
<1>5. QED
  BY <1>2, <1>3, <1>4 DEF Ends

LEMMA StreamInit == Init => StreamInv /\ ReadInv /\ GotInv
<1> SUFFICES ASSUME Init PROVE StreamInv /\ ReadInv /\ GotInv
  OBVIOUS
<1>1. Flat = <<>> /\ wire = <<>> /\ got = <<>> /\ blocks = <<>> /\ pc = "idle" /\ peer = "open"
  BY NothingRead DEF Init
<1>2. <<>> \o <<>> = <<>> /\ Len(<<>>) = 0
  OBVIOUS
<1>3. Stream = <<>>
  BY <1>1, <1>2 DEF Stream
<1>4. StreamInv
  BY <1>2, <1>3 DEF StreamInv, InOrder, Begins, Ends
<1>5. ReadInv
  BY <1>1, <1>2 DEF ReadInv
<1>6. GotInv
  BY <1>1, <1>2 DEF GotInv
<1>7. QED
  BY <1>4, <1>5, <1>6

(* A step that takes nothing off the stream.                               *)
LEMMA SameStream ==
    ASSUME StreamInv, Stream' = Stream, UNCHANGED <<sent, cut>>,
           peer' = "open" => peer = "open"
    PROVE  StreamInv'
BY DEF StreamInv, InOrder, Begins, Ends, Known, Follows, Hurt

LEMMA EmptyStream == ASSUME Stream' = <<>> PROVE StreamInv'
<1>1. Len(<<>>) = 0
  OBVIOUS
<1>2. QED
  BY <1>1 DEF StreamInv, InOrder, Begins, Ends

(* A frame that is sent is added to the stream.                            *)
LEMMA BrokerAdds ==
    ASSUME TypeOK, BrokerSends
    PROVE  \E k \in Nat \ {0}, n \in Nat \ {0}, m \in {0, 1}, frame \in Seq(Byte) :
              /\ k = Len(sent) + 1 /\ frame = FrameOf(k, n, m) /\ IsFrame(frame, k, n, m)
              /\ sent' = Append(sent, n) /\ cut' = (IF m = 1 THEN cut ELSE cut \cup {k})
              /\ Stream' = Stream \o frame /\ wire' = wire \o frame
<1>1. PICK k : k = Len(sent) + 1
  OBVIOUS
<1>2. PICK n \in 1 .. MaxText, ended \in NewlineChoices :
          /\ sent' = Append(sent, n)
          /\ wire' = wire \o Append(Text(k, n), Nul(k))
                          \o (IF ended THEN <<Newline(k)>> ELSE <<>>)
          /\ cut' = IF ended THEN cut ELSE cut \cup {k}
  BY <1>1, Zenon DEF BrokerSends
<1>3. PICK m \in {0, 1} :
          /\ wire' = (wire \o Append(Text(k, n), Nul(k))) \o Ending(k, m)
          /\ cut' = IF m = 1 THEN cut ELSE cut \cup {k}
  <2>1. CASE ended
    <3>1. /\ wire' = (wire \o Append(Text(k, n), Nul(k))) \o <<Newline(k)>>
          /\ cut' = cut
      BY <1>2, <2>1, Zenon
    <3>2. QED
      BY <3>1 DEF Ending
  <2>2. CASE ~ended
    <3>1. /\ wire' = (wire \o Append(Text(k, n), Nul(k))) \o <<>>
          /\ cut' = cut \cup {k}
      BY <1>2, <2>2, Zenon
    <3>2. QED
      BY <3>1 DEF Ending
  <2>3. QED
    BY <2>1, <2>2
<1>4. PICK frame : frame = FrameOf(k, n, m)
  OBVIOUS
<1>5. /\ k \in Nat \ {0} /\ n \in Nat \ {0} /\ m \in {0, 1}
  BY <1>1, Types, SizeAssumption
<1>6. IsFrame(frame, k, n, m)
  <2>1. k \in Nat /\ n \in Nat
    BY <1>5
  <2>2. QED
    BY <1>4, <1>5, <2>1, FrameBytes
<1>7. frame \in Seq(Byte) /\ frame # <<>> /\ frame[1][2] = 1 /\ frame[1][1] = k
  BY <1>5, <1>6 DEF IsFrame
<1>8. /\ sent' = Append(sent, n) /\ wire' = wire \o frame
      /\ cut' = IF m = 1 THEN cut ELSE cut \cup {k}
  <2>1. PICK a : a = Append(Text(k, n), Nul(k))
    OBVIOUS
  <2>2. PICK e : e = Ending(k, m)
    OBVIOUS
  <2>3. a \in Seq(Byte) /\ e \in Seq(Byte)
    <3>1. Text(k, n) \in Seq(Byte) /\ Nul(k) \in Byte /\ Newline(k) \in Byte
      BY <1>5 DEF Text, Nul, Newline, Byte
    <3>2. QED
      BY <2>1, <2>2, <3>1 DEF Ending
  <2>4. wire' = (wire \o a) \o e
    BY <1>3, <2>1, <2>2
  <2>5. (wire \o a) \o e = wire \o (a \o e)
    <3>1. wire \in Seq(Byte)
      BY Types
    <3>2. QED
      BY <2>3, <3>1, ConcatAssociative
  <2>6. frame = a \o e
    BY <1>4, <2>1, <2>2 DEF FrameOf
  <2>7. QED
    BY <1>2, <1>3, <2>4, <2>5, <2>6
<1>9. Stream' = Stream \o frame
  <2>1. Flat' = Flat
    BY DEF BrokerSends, reading, Flat
  <2>2. PICK f : f = Flat
    OBVIOUS
  <2>3. (f \o wire) \o frame = f \o (wire \o frame)
    <3>1. f \in Seq(Byte) /\ wire \in Seq(Byte) /\ frame \in Seq(Byte)
      BY <1>7, <2>2, Types
    <3>2. QED
      BY <3>1, ConcatAssociative
  <2>4. QED
    BY <1>8, <2>1, <2>2, <2>3 DEF Stream
<1>10. QED
  BY <1>1, <1>4, <1>5, <1>6, <1>7, <1>8, <1>9

LEMMA BrokerStream == ASSUME TypeOK, StreamInv, BrokerSends PROVE StreamInv'
<1>1. PICK k \in Nat \ {0}, n \in Nat \ {0}, m \in {0, 1}, frame \in Seq(Byte) :
          /\ k = Len(sent) + 1 /\ frame = FrameOf(k, n, m) /\ IsFrame(frame, k, n, m)
          /\ sent' = Append(sent, n) /\ cut' = (IF m = 1 THEN cut ELSE cut \cup {k})
          /\ Stream' = Stream \o frame
  BY BrokerAdds
<1>2. frame # <<>> /\ frame[1][2] = 1 /\ frame[1][1] = k
  BY <1>1 DEF IsFrame
<1>3. InOrder(Stream', sent', cut') /\ Ends(Stream', Len(sent'), cut')
  <2>1. PICK s, f : s = Stream /\ f = sent
    OBVIOUS
  <2>2. /\ s \in Seq(Byte) /\ f \in Seq(Nat) /\ Len(f) \in Nat
        /\ InOrder(s, f, cut) /\ Ends(s, Len(f), cut)
    BY <2>1, Types DEF StreamInv, BrokerSends
  <2>3. /\ InOrder(s \o FrameOf(Len(f) + 1, n, m), Append(f, n),
                   IF m = 1 THEN cut ELSE cut \cup {Len(f) + 1})
        /\ Ends(s \o FrameOf(Len(f) + 1, n, m), Len(f) + 1,
                IF m = 1 THEN cut ELSE cut \cup {Len(f) + 1})
    BY <2>2, OrderWithFrame
  <2>4. Len(sent') = k
    BY <1>1, Types
  <2>5. QED
    BY <1>1, <2>1, <2>3, <2>4
<1>4. Begins(Stream', cut')
  <2>1. CASE Stream = <<>>
    <3>1. Stream' = frame
      BY <1>1, <2>1
    <3>2. QED
      BY <1>2, <3>1 DEF Begins
  <2>2. CASE Stream # <<>>
    <3>1. Stream'[1] = Stream[1]
      BY <1>1, <2>2, Types
    <3>2. cut \subseteq cut' /\ Hurt(cut) \subseteq Hurt(cut')
      BY <1>1 DEF Hurt
    <3>3. QED
      BY <2>2, <3>1, <3>2 DEF StreamInv, Begins
  <2>3. QED
    BY <2>1, <2>2
<1>5. QED
  BY <1>3, <1>4 DEF StreamInv

(* A byte that is read moves from one end of the stream to the other.      *)
LEMMA ReadByte ==
    ASSUME TypeOK, ReadInv, RecvByte
    PROVE  /\ Stream' = Stream /\ Flat' = Append(Flat, Head(wire)) /\ Head(wire) \in Byte
           /\ Head(wire) = Stream[Len(Flat) + 1] /\ Len(Flat) + 1 \in 1 .. Len(Stream)
           /\ BlocksOK(blocks') /\ (pc' = "text" => Room(blocks'))
<1>1. PICK f, b : f = Flat /\ b = Head(wire)
  OBVIOUS
<1>2. f \in Seq(Byte) /\ wire \in Seq(Byte) /\ wire # <<>>
  BY <1>1, Types DEF RecvByte
<1>3. b \in Byte /\ Tail(wire) \in Seq(Byte) /\ b = wire[1] /\ 1 \in 1 .. Len(wire)
  BY <1>1, <1>2
<1>4. /\ BlocksOK(blocks') /\ (~IsNul(b) => Room(blocks')) /\ Flat' = Append(f, b)
  <2>1. BlocksOK(blocks) /\ Room(blocks)
    BY DEF ReadInv, RecvByte
  <2>2. /\ BlocksOK(Stored(b)) /\ (~IsNul(b) => Room(Stored(b)))
        /\ FlattenSeq(Stored(b)) = Append(Flat, b)
    BY <1>3, <2>1, StoredByte
  <2>3. blocks' = Stored(b)
    BY <1>1 DEF RecvByte
  <2>4. QED
    BY <1>1, <2>2, <2>3 DEF Flat
<1>5. pc' = "text" => ~IsNul(b)
  BY <1>1 DEF RecvByte
<1>6. Stream' = Stream
  <2>1. Append(f, b) = f \o <<b>> /\ <<b>> \in Seq(Byte)
    BY <1>2, <1>3, AppendIsConcat
  <2>2. (f \o <<b>>) \o Tail(wire) = f \o (<<b>> \o Tail(wire))
    BY <1>2, <1>3, <2>1, ConcatAssociative
  <2>3. <<b>> \o Tail(wire) = wire
    <3>1. PICK t : t = <<b>> \o Tail(wire)
      OBVIOUS
    <3>2. t \in Seq(Byte) /\ Len(t) = Len(wire) /\ \A i \in 1 .. Len(t) : t[i] = wire[i]
      BY <1>2, <1>3, <2>1, <3>1
    <3>3. QED
      BY <1>2, <3>1, <3>2, SeqEqual
  <2>4. wire' = Tail(wire)
    BY DEF RecvByte
  <2>5. QED
    BY <1>1, <1>4, <2>1, <2>2, <2>3, <2>4 DEF Stream
<1>7. b = Stream[Len(Flat) + 1] /\ Len(Flat) + 1 \in 1 .. Len(Stream)
  BY <1>2, <1>3, Types
<1>8. QED
  BY <1>1, <1>3, <1>4, <1>5, <1>6, <1>7

(* The frame and one more byte, or the frame alone, leave the stream.      *)
LEMMA TakenOff ==
    ASSUME TypeOK, blocks' = <<>>,
           \/ wire' = Tail(wire) /\ wire # <<>>
           \/ wire' = wire
    PROVE  \E o \in Nat :
              /\ o = Len(Flat) \/ o = Len(Flat) + 1
              /\ wire' # wire => o = Len(Flat) + 1
              /\ wire' = wire => o = Len(Flat)
              /\ Stream' = wire' /\ wire' \in Seq(Byte) /\ Len(wire') + o = Len(Stream)
              /\ \A i \in 1 .. Len(wire') : wire'[i] = Stream[i + o]
<1>1. Flat' = <<>>
  <2>1. FlattenSeq(<<>>) = <<>>
    BY DEF FlattenSeq
  <2>2. QED
    BY <2>1 DEF Flat
<1>2. wire \in Seq(Byte) /\ wire' \in Seq(Byte)
  <2>1. wire \in Seq(Byte)
    BY Types
  <2>2. wire # <<>> => Tail(wire) \in Seq(Byte)
    BY <2>1
  <2>3. QED
    BY <2>1, <2>2
<1>3. Stream' = wire'
  BY <1>1, <1>2 DEF Stream
<1>4. CASE wire' = wire
  <2>1. \A i \in 1 .. Len(wire) : i + Len(Flat) = Len(Flat) + i
    BY Types
  <2>2. \A i \in 1 .. Len(wire') : wire'[i] = Stream[i + Len(Flat)]
    BY <1>4, <2>1, Types
  <2>3. Len(Flat) \in Nat /\ Len(wire') + Len(Flat) = Len(Stream)
    BY <1>4, Types
  <2>4. QED
    BY <1>2, <1>3, <1>4, <2>2, <2>3
<1>5. CASE wire' = Tail(wire) /\ wire # <<>>
  <2>1. PICK o \in Nat : o = Len(Flat) + 1
    BY Types
  <2>2. /\ Len(wire') = Len(wire) - 1 /\ wire' # wire
        /\ \A i \in 1 .. Len(wire') : wire'[i] = wire[i + 1]
    <3>1. /\ Len(Tail(wire)) = Len(wire) - 1
          /\ \A i \in 1 .. Len(Tail(wire)) : Tail(wire)[i] = wire[i + 1]
      BY <1>2, <1>5, HeadTailProperties
    <3>2. Len(wire) - 1 # Len(wire)
      BY <1>2
    <3>3. QED
      BY <1>5, <3>1, <3>2
  <2>3. Len(wire') + o = Len(Stream)
    <3>1. Len(wire) \in Int /\ Len(Flat) \in Int /\ Len(Stream) = Len(Flat) + Len(wire)
      BY Types
    <3>2. QED
      BY <2>1, <2>2, <3>1
  <2>4. ASSUME NEW i \in 1 .. Len(wire') PROVE wire'[i] = Stream[i + o]
    <3>1. i + 1 \in 1 .. Len(wire) /\ wire'[i] = wire[i + 1]
      <4>1. Len(wire) \in Int
        BY Types
      <4>2. QED
        BY <2>2, <4>1
    <3>2. wire[i + 1] = Stream[Len(Flat) + (i + 1)]
      BY <3>1, Types
    <3>3. Len(Flat) + (i + 1) = i + o
      BY <2>1, Types
    <3>4. QED
      BY <3>1, <3>2, <3>3
  <2>5. QED
    BY <1>2, <1>3, <2>1, <2>2, <2>3, <2>4
<1>6. QED
  BY <1>4, <1>5

LEMMA ReadEnds ==
    ASSUME TypeOK, StreamInv, ReadInv, RecvNewline \/ RecvOther \/ RecvStall
    PROVE  StreamInv'
<1>1. /\ blocks' = <<>> /\ cut \subseteq cut' /\ UNCHANGED <<sent, peer>>
      /\ \/ wire' = Tail(wire) /\ wire # <<>>
         \/ wire' = wire
  BY DEF RecvNewline, RecvOther, RecvStall, history
<1>2. PICK o \in Nat :
        /\ o = Len(Flat) \/ o = Len(Flat) + 1
        /\ wire' # wire => o = Len(Flat) + 1
        /\ wire' = wire => o = Len(Flat)
        /\ Stream' = wire' /\ wire' \in Seq(Byte) /\ Len(wire') + o = Len(Stream)
        /\ \A i \in 1 .. Len(wire') : wire'[i] = Stream[i + o]
  BY <1>1, TakenOff
<1>3. PICK t : t = wire'
  OBVIOUS
<1>4. /\ t \in Seq(Byte) /\ Len(t) + o = Len(Stream)
      /\ \A i \in 1 .. Len(t) : t[i] = Stream[i + o]
  BY <1>2, <1>3
<1>5. /\ InOrder(t, sent, cut')
      /\ peer = "open" => Ends(t, Len(sent), cut')
      /\ t # <<>> /\ o # 0 => Follows(Stream[o], t[1], sent, cut)
  BY <1>1, <1>4, RestOfStream
<1>6. Begins(t, cut')
  <2> SUFFICES ASSUME t # <<>> PROVE Begins(t, cut')
    BY DEF Begins
  <2>1. /\ Flat \in Seq(Byte) /\ wire \in Seq(Byte) /\ Len(Flat) \in Nat /\ o # 0 /\ Flat # <<>>
    <3>1. Flat # <<>> /\ Flat \in Seq(Byte) /\ wire \in Seq(Byte)
      BY Types DEF RecvNewline, RecvOther, RecvStall, ReadInv
    <3>2. QED
      BY <1>2, <3>1
  <2>2. PICK x : x = Stream[o]
    OBVIOUS
  <2>3. Follows(x, t[1], sent, cut)
    BY <1>5, <2>1, <2>2
  <2>4. x[1] \in Int /\ x[2] \in Int
    <3>1. o \in 1 .. Len(Stream)
      BY <1>4, <2>1, Types
    <3>2. Known(x, sent)
      BY <2>2, <3>1 DEF StreamInv, InOrder
    <3>3. sent[x[1]] \in Int
      BY <3>2, Types DEF Known
    <3>4. QED
      BY <3>2, <3>3 DEF Known
  <2>5. CASE RecvNewline
    <3>1. o = Len(Flat) + 1 /\ wire # <<>> /\ wire[1][2] = -1
      BY <1>2, <2>1, <2>5 DEF RecvNewline, IsNewline
    <3>2. x = wire[1]
      BY <2>1, <2>2, <3>1, Types
    <3>3. t[1][2] = 1
      BY <2>3, <3>1, <3>2 DEF Follows
    <3>4. QED
      BY <3>3 DEF Begins
  <2>6. CASE RecvOther
    <3>1. o = Len(Flat) + 1 /\ wire # <<>> /\ wire[1][2] # -1
      BY <1>2, <2>1, <2>6 DEF RecvOther, IsNewline
    <3>2. x = wire[1] /\ Len(Flat) \in 1 .. Len(Flat) /\ Stream[Len(Flat)] = Flat[Len(Flat)]
          /\ Len(Flat) \in 1 .. Len(Stream) - 1 /\ x = Stream[Len(Flat) + 1]
      BY <2>1, <2>2, <3>1, Types
    <3>3. Flat[Len(Flat)][2] = 0
      BY <2>6, <3>2 DEF ReadInv, RecvOther
    <3>4. Follows(Stream[Len(Flat)], x, sent, cut)
      BY <3>2 DEF StreamInv, InOrder
    <3>5. PICK k : k = Flat[Len(Flat)][1]
      OBVIOUS
    <3>6. k \in cut /\ x[1] = k + 1 /\ x[2] = 1
      BY <3>1, <3>2, <3>3, <3>4, <3>5 DEF Follows
    <3>7. t[1][1] = k + 1 /\ t[1][2] \in {0, 2}
      BY <2>3, <3>6 DEF Follows
    <3>8. k + 1 \in Hurt(cut) /\ cut' = cut
      BY <2>6, <3>6 DEF Hurt, RecvOther, history
    <3>9. QED
      BY <3>7, <3>8 DEF Begins
  <2>7. CASE RecvStall
    <3>1. o = Len(Flat) /\ cut' = cut \cup FramesOf(Flat)
      BY <1>2, <2>7 DEF RecvStall
    <3>2. x = Flat[Len(Flat)] /\ Len(Flat) \in DOMAIN Flat
      BY <2>1, <2>2, <3>1, Types
    <3>3. x[1] \in cut'
      BY <3>1, <3>2 DEF FramesOf, ToSet
    <3>4. /\ \/ t[1][1] = x[1] /\ (t[1][2] = -1 \/ t[1][2] = x[2] + 1 \/ t[1][2] = 0)
             \/ t[1][2] = 1
          /\ t[1][1] = x[1] => x[2] >= 0
      BY <2>3, <2>4 DEF Follows
    <3>5. QED
      <4>1. CASE t[1][2] = 1
        BY <4>1 DEF Begins
      <4>2. CASE t[1][2] # 1
        <5>1. t[1][1] \in cut' /\ t[1][1] \in Hurt(cut')
          BY <3>3, <3>4, <4>2 DEF Hurt
        <5>2. t[1][2] = -1 \/ t[1][2] >= 0
          BY <2>4, <3>4, <4>2
        <5>3. QED
          BY <5>1, <5>2 DEF Begins
      <4>3. QED
        BY <4>1, <4>2
  <2>8. QED
    BY <2>5, <2>6, <2>7
<1>7. QED
  BY <1>1, <1>2, <1>3, <1>5, <1>6 DEF StreamInv

LEMMA ResetStream == ASSUME TypeOK, StreamInv, PeerResets PROVE StreamInv'
<1>1. /\ wire' = <<>> /\ peer' = "reset" /\ UNCHANGED <<sent, cut, blocks>>
  BY DEF PeerResets, reading
<1>2. PICK f : f = Flat
  OBVIOUS
<1>3. f \in Seq(Byte) /\ Len(f) + 0 <= Len(Stream) /\ 0 \in Nat
      /\ \A i \in 1 .. Len(f) : f[i] = Stream[i + 0]
  <2>1. f \in Seq(Byte) /\ Len(f) + 0 <= Len(Stream) /\ \A i \in 1 .. Len(f) : f[i] = Stream[i]
    BY <1>2, Types
  <2>2. \A i \in 1 .. Len(f) : i + 0 = i
    OBVIOUS
  <2>3. QED
    BY <2>1, <2>2
<1>4. Stream' = f
  <2>1. Flat' = f /\ f \o <<>> = f
    BY <1>1, <1>2, <1>3 DEF Flat
  <2>2. QED
    BY <1>1, <2>1 DEF Stream
<1>5. InOrder(f, sent, cut)
  <2>1. PICK s, l : s = Stream /\ l = sent
    OBVIOUS
  <2>2. s \in Seq(Byte) /\ l \in Seq(Nat) /\ InOrder(s, l, cut)
    BY <2>1, Types DEF StreamInv
  <2>3. InOrder(f, l, cut)
    BY <1>3, <2>1, <2>2, OrderOfPart
  <2>4. QED
    BY <2>1, <2>3
<1>6. Begins(f, cut)
  <2>1. f # <<>> => f[1] = Stream[1] /\ Stream # <<>>
    BY <1>2, <1>3, Types
  <2>2. QED
    BY <2>1 DEF StreamInv, Begins
<1>7. QED
  BY <1>1, <1>4, <1>5, <1>6 DEF StreamInv

(* The other steps leave the stream as it is, or nothing of it.            *)
LEMMA QuietSteps ==
    ASSUME TypeOK, ReadInv,
           \/ PeerCloses \/ BeginRead \/ RecvQuiet \/ BeginWrite \/ SendSome \/ SendFails
           \/ UNCHANGED vars \/ (RecvError /\ pc = "text")
    PROVE  /\ Stream' = Stream /\ Flat' = Flat /\ wire' = wire
           /\ UNCHANGED <<sent, cut, lost, got>> /\ (peer' = "open" => peer = "open")
<1>1. /\ wire' = wire /\ UNCHANGED <<sent, cut, lost, got>> /\ (peer' = "open" => peer = "open")
  BY DEF PeerCloses, BeginRead, RecvQuiet, BeginWrite, SendSome, SendFails, RecvError, vars,
         reading, history
<1>2. Flat' = Flat
  <2>1. CASE BeginRead
    <3>1. blocks = <<>> /\ blocks' = << <<>> >>
      BY <2>1 DEF BeginRead, ReadInv
    <3>2. FlattenSeq(<<>>) = <<>> /\ FlattenSeq(<< <<>> >>) = <<>>
      <4>1. FlattenSeq(<<>>) = <<>>
        BY DEF FlattenSeq
      <4>2. <<>> \in Seq(Seq(Byte)) /\ <<>> \in Seq(Byte)
        OBVIOUS
      <4>3. FlattenSeq(Append(<<>>, <<>>)) = FlattenSeq(<<>>) \o <<>>
        BY <4>2, FlattenAppend
      <4>4. Append(<<>>, <<>>) = << <<>> >> /\ <<>> \o <<>> = <<>>
        OBVIOUS
      <4>5. QED
        BY <4>1, <4>3, <4>4
    <3>3. QED
      BY <3>1, <3>2 DEF Flat
  <2>2. CASE RecvQuiet
    <3>1. Flat = <<>> /\ blocks' = <<>>
      BY <2>2 DEF RecvQuiet
    <3>2. FlattenSeq(<<>>) = <<>>
      BY DEF FlattenSeq
    <3>3. QED
      BY <3>1, <3>2 DEF Flat
  <2>3. CASE ~(BeginRead \/ RecvQuiet)
    <3>1. blocks' = blocks
      BY <2>3 DEF PeerCloses, BeginWrite, SendSome, SendFails, RecvError, vars, reading
    <3>2. QED
      BY <3>1 DEF Flat
  <2>4. QED
    BY <2>1, <2>2, <2>3
<1>3. QED
  BY <1>1, <1>2 DEF Stream

LEMMA StreamGone ==
    ASSUME ReadInv, RecvEof \/ Connect \/ (RecvError /\ pc = "newline")
    PROVE  Stream' = <<>> /\ Flat' = <<>>
<1>1. FlattenSeq(<<>>) = <<>> /\ <<>> \o <<>> = <<>>
  BY DEF FlattenSeq
<1>2. blocks' = <<>> /\ wire' = <<>>
  BY DEF RecvEof, Connect, RecvError, ReadInv, reading
<1>3. QED
  BY <1>1, <1>2 DEF Stream, Flat

\* The steps as the lemmas divide them.
LEMMA Steps ==
    ASSUME [Next]_vars, ReadInv
    PROVE  \/ \/ PeerCloses \/ BeginRead \/ RecvQuiet \/ BeginWrite \/ SendSome \/ SendFails
              \/ UNCHANGED vars \/ (RecvError /\ pc = "text")
           \/ BrokerSends
           \/ PeerResets
           \/ RecvByte
           \/ RecvNewline \/ RecvOther \/ RecvStall
           \/ RecvEof \/ Connect \/ (RecvError /\ pc = "newline")
<1>1. RecvError => pc \in {"text", "newline"}
  BY DEF RecvError
<1>2. QED
  BY <1>1 DEF Next, Broker, Read, Write

LEMMA StreamStep ==
    ASSUME TypeOK, StreamInv, ReadInv, [Next]_vars PROVE StreamInv'
<1>1. CASE \/ PeerCloses \/ BeginRead \/ RecvQuiet \/ BeginWrite \/ SendSome \/ SendFails
           \/ UNCHANGED vars \/ (RecvError /\ pc = "text")
  BY <1>1, QuietSteps, SameStream
<1>2. CASE BrokerSends
  BY <1>2, BrokerStream
<1>3. CASE PeerResets
  BY <1>3, ResetStream
<1>4. CASE RecvByte
  <2>1. Stream' = Stream /\ UNCHANGED <<sent, cut, peer>>
    BY <1>4, ReadByte DEF RecvByte, history
  <2>2. QED
    BY <2>1, SameStream
<1>5. CASE RecvNewline \/ RecvOther \/ RecvStall
  BY <1>5, ReadEnds
<1>6. CASE RecvEof \/ Connect \/ (RecvError /\ pc = "newline")
  BY <1>6, StreamGone, EmptyStream
<1>7. QED
  BY <1>1, <1>2, <1>3, <1>4, <1>5, <1>6, Steps

-----------------------------------------------------------------------------
(* What was read of a frame.                                               *)
LEMMA ReadGrows ==
    ASSUME TypeOK, StreamInv, ReadInv, RecvByte PROVE ReadInv'
<1>1. PICK f, b : f = Flat /\ b = Head(wire)
  OBVIOUS
<1>2. /\ f \in Seq(Byte) /\ b \in Byte /\ Len(f) \in Nat /\ sent \in Seq(Nat)
      /\ \A i \in 1 .. Len(f) : Stream[i] = f[i]
  BY <1>1, Types, ReadByte
<1>3. /\ Flat' = Append(f, b) /\ b = Stream[Len(f) + 1] /\ Len(f) + 1 \in 1 .. Len(Stream)
      /\ BlocksOK(blocks') /\ (pc' = "text" => Room(blocks'))
  BY <1>1, ReadByte
<1>4. PICK g : g = Append(f, b)
  OBVIOUS
<1>5. /\ g \in Seq(Byte) /\ g # <<>> /\ Len(g) = Len(f) + 1 /\ g[Len(f) + 1] = b
      /\ \A i \in 1 .. Len(f) : g[i] = f[i]
  BY <1>2, <1>4, AppendProperties
<1>6. /\ pc = "text" /\ pc' = IF b[2] = 0 THEN "newline" ELSE "text"
      /\ UNCHANGED <<sent, cut, peer>> /\ wire # <<>>
  BY <1>1 DEF RecvByte, IsNul, history
<1>7. \A i \in 1 .. Len(f) : f[i][2] # 0
  BY <1>1, <1>6 DEF ReadInv
<1>8. \A i \in 1 .. Len(g) : g[i][2] = 0 <=> (pc' = "newline" /\ i = Len(g))
  <2>1. ASSUME NEW i \in 1 .. Len(g) PROVE i \in 1 .. Len(f) \/ i = Len(f) + 1
    BY <1>2, <1>5
  <2>2. QED
    BY <1>2, <1>5, <1>6, <1>7, <2>1
<1>9. \A i \in 1 .. Len(Stream) : Known(Stream[i], sent)
  BY DEF StreamInv, InOrder
<1>10. Known(b, sent) /\ b[1] \in Int /\ b[2] \in Int
  <2>1. Known(b, sent)
    BY <1>3, <1>9
  <2>2. sent[b[1]] \in Int
    BY <1>2, <2>1 DEF Known
  <2>3. QED
    BY <2>1, <2>2 DEF Known
<1>11. CASE f = <<>>
  <2>1. Len(f) = 0 /\ g[1] = b /\ Len(g) = 1 /\ b = Stream[1] /\ Stream # <<>>
    BY <1>3, <1>5, <1>11, Types
  <2>2. g[1][2] = 1 => OneFrame(g, sent)
    <3>1. g[1][2] = 1 => 1 <= sent[b[1]]
      BY <1>2, <1>10, <2>1 DEF Known
    <3>2. QED
      BY <2>1, <3>1 DEF OneFrame
  <2>3. g[1][2] # 1 => \A i \in 1 .. Len(g) : g[i][1] \in Damaged
    <3>1. g[1][2] # 1 => b[1] \in Hurt(cut)
      BY <2>1 DEF StreamInv, Begins, Hurt
    <3>2. QED
      BY <2>1, <3>1 DEF Hurt, Damaged
  <2>4. QED
    BY <1>3, <1>4, <1>5, <1>6, <1>8, <2>2, <2>3 DEF ReadInv, Damaged
<1>12. CASE f # <<>>
  <2>1. PICK n, x : n = Len(f) /\ x = f[n]
    OBVIOUS
  <2>2. /\ n \in Nat \ {0} /\ n \in 1 .. Len(f) /\ n \in 1 .. Len(Stream) - 1
        /\ Stream[n] = x /\ Stream[n + 1] = b /\ g[n + 1] = b /\ Len(g) = n + 1
        /\ f[1] = g[1] /\ x[2] # 0
    BY <1>2, <1>3, <1>5, <1>7, <1>12, <2>1
  <2>3. Follows(x, b, sent, cut)
    BY <2>2 DEF StreamInv, InOrder
  <2>4. Known(x, sent) /\ x[1] \in Int /\ x[2] \in Int /\ sent[x[1]] \in Int
    <3>1. Known(x, sent)
      <4>1. n \in 1 .. Len(Stream)
        BY <2>2, Types
      <4>2. QED
        BY <1>9, <2>2, <4>1
    <3>2. sent[x[1]] \in Int
      BY <1>2, <3>1 DEF Known
    <3>3. QED
      BY <3>1, <3>2 DEF Known
  <2>5. ASSUME g[1][2] = 1 PROVE OneFrame(g, sent)
    <3>1. OneFrame(f, sent)
      BY <1>1, <1>12, <2>2, <2>5 DEF ReadInv
    <3>2. x[1] = f[1][1] /\ x[2] = (IF n <= sent[f[1][1]] THEN n ELSE 0)
      BY <2>1, <2>2, <3>1 DEF OneFrame
    <3>3. n <= sent[x[1]] /\ x[2] = n
      BY <2>2, <3>2
    <3>4. b[1] = x[1] /\ b[2] = (IF n < sent[x[1]] THEN n + 1 ELSE 0)
      BY <2>2, <2>3, <3>3 DEF Follows
    <3>5. b[1] = g[1][1] /\ b[2] = (IF n + 1 <= sent[g[1][1]] THEN n + 1 ELSE 0)
      BY <2>2, <2>4, <3>2, <3>4
    <3>6. ASSUME NEW i \in 1 .. Len(g)
          PROVE  g[i][1] = g[1][1] /\ g[i][2] = IF i <= sent[g[1][1]] THEN i ELSE 0
      <4>1. CASE i \in 1 .. Len(f)
        BY <1>5, <2>2, <3>1, <4>1 DEF OneFrame
      <4>2. CASE i = n + 1
        BY <2>2, <3>5, <4>2
      <4>3. QED
        BY <1>5, <2>1, <2>2, <4>1, <4>2
    <3>7. QED
      BY <3>6 DEF OneFrame
  <2>6. ASSUME g[1][2] # 1 PROVE \A i \in 1 .. Len(g) : g[i][1] \in Damaged
    <3>1. \A i \in 1 .. Len(f) : f[i][1] \in Damaged
      BY <1>1, <1>12, <2>2, <2>6 DEF ReadInv
    <3>2. b[1] \in Damaged
      <4>1. CASE x[2] >= 1
        BY <2>1, <2>2, <2>3, <2>4, <3>1, <4>1 DEF Follows
      <4>2. CASE x[2] = -1
        <5>1. n = 1
          <6> SUFFICES ASSUME n # 1 PROVE FALSE
            OBVIOUS
          <6>1. PICK p : p = n - 1
            OBVIOUS
          <6>2. p \in 1 .. Len(f) /\ p \in 1 .. Len(Stream) - 1 /\ p + 1 = n
            BY <2>2, <6>1
          <6>3. Follows(Stream[p], Stream[p + 1], sent, cut)
            BY <6>2 DEF StreamInv, InOrder
          <6>4. Stream[p] = f[p] /\ f[p][2] # 0 /\ Stream[p + 1] = x
            BY <1>2, <1>7, <2>2, <6>2
          <6>5. x[2] # -1
            <7>1. Known(f[p], sent)
              <8>1. p \in 1 .. Len(Stream)
                BY <6>2, Types
              <8>2. QED
                BY <1>9, <6>4, <8>1
            <7>2. f[p][2] \in Int
              <8>1. sent[f[p][1]] \in Int
                BY <1>2, <7>1 DEF Known
              <8>2. QED
                BY <7>1, <8>1 DEF Known
            <7>3. QED
              BY <6>3, <6>4, <7>2 DEF Follows
          <6>6. QED
            BY <4>2, <6>5
        <5>2. x[1] \in cut
          <6>1. x = Stream[1] /\ Stream # <<>> /\ x = g[1]
            BY <2>1, <2>2, <5>1, Types
          <6>2. QED
            BY <2>6, <4>2, <6>1 DEF StreamInv, Begins
        <5>3. b[1] = x[1] + 1
          BY <2>3, <4>2 DEF Follows
        <5>4. QED
          BY <5>2, <5>3 DEF Damaged
      <4>3. x[2] \in -1 .. sent[x[1]]
        BY <2>4 DEF Known
      <4>4. x[2] >= 1 \/ x[2] = -1
        BY <2>2, <2>4, <4>3
      <4>5. QED
        BY <4>1, <4>2, <4>4
    <3>3. QED
      <4>1. ASSUME NEW i \in 1 .. Len(g) PROVE i \in 1 .. Len(f) \/ i = n + 1
        BY <1>2, <1>5, <2>1
      <4>2. QED
        BY <1>5, <2>2, <3>1, <3>2, <4>1
  <2>7. QED
    BY <1>3, <1>4, <1>5, <1>6, <1>8, <2>5, <2>6 DEF ReadInv, Damaged
<1>13. QED
  BY <1>11, <1>12

LEMMA ReadStep ==
    ASSUME TypeOK, StreamInv, ReadInv, [Next]_vars PROVE ReadInv'
<1>1. ASSUME blocks' = <<>>, pc' = "idle", peer' = "reset" => wire' = <<>> PROVE ReadInv'
  <2>1. Flat' = <<>> /\ Len(<<>>) = 0
    <3>1. FlattenSeq(<<>>) = <<>>
      BY DEF FlattenSeq
    <3>2. QED
      BY <1>1, <3>1 DEF Flat
  <2>2. QED
    BY <1>1, <2>1 DEF ReadInv
<1>2. ASSUME UNCHANGED <<blocks, pc, sent, cut>>, peer' = "reset" => wire' = <<>> PROVE ReadInv'
  BY <1>2 DEF ReadInv, BlocksOK, Room, OneFrame, Flat, Damaged
<1>3. CASE RecvNewline \/ RecvOther \/ RecvQuiet \/ RecvStall \/ RecvEof
           \/ (RecvError /\ pc = "newline")
  <2>1. /\ blocks' = <<>> /\ pc' = "idle" /\ (peer' = "reset" => peer' = peer)
        /\ wire # <<>> \/ UNCHANGED wire
    BY <1>3 DEF RecvNewline, RecvOther, RecvQuiet, RecvStall, RecvEof, RecvError
  <2>2. peer = "reset" => wire = <<>>
    BY DEF ReadInv
  <2>3. QED
    BY <1>1, <2>1, <2>2
<1>4. CASE PeerCloses \/ PeerResets \/ (RecvError /\ pc = "text") \/ UNCHANGED vars
  <2>1. UNCHANGED <<blocks, pc, sent, cut>>
    BY <1>4 DEF PeerCloses, PeerResets, RecvError, vars, reading, history
  <2>2. peer' = "reset" => wire' = <<>>
    BY <1>4 DEF PeerCloses, PeerResets, RecvError, vars, ReadInv
  <2>3. QED
    BY <1>2, <2>1, <2>2
<1>5. CASE BeginRead
  <2>1. /\ blocks' = << <<>> >> /\ pc' = "text" /\ UNCHANGED <<peer, wire>> /\ Flat' = <<>>
    BY <1>5, NothingRead, QuietSteps DEF BeginRead, ReadInv
  <2>2. BlocksOK(<< <<>> >>) /\ Room(<< <<>> >>) /\ Len(<<>>) = 0
    <3>1. Len(<< <<>> >>) = 1 /\ << <<>> >>[1] = <<>> /\ Len(<<>>) = 0
      OBVIOUS
    <3>2. << <<>> >> \in Seq(Seq(Byte)) /\ << <<>> >> # <<>>
      OBVIOUS
    <3>3. QED
      BY <3>1, <3>2, SizeAssumption DEF BlocksOK, Room
  <2>3. QED
    BY <2>1, <2>2 DEF ReadInv
<1>6. CASE BeginWrite \/ SendSome \/ SendFails \/ Connect
  <2>1. /\ UNCHANGED <<blocks, sent, cut>> /\ pc \in {"idle", "write"} /\ pc' \in {"idle", "write"}
        /\ peer' = "reset" => wire' = <<>>
    BY <1>6 DEF BeginWrite, SendSome, SendFails, Connect, reading, history, ReadInv
  <2>2. blocks = <<>> /\ blocks' = <<>>
    BY <2>1 DEF ReadInv
  <2>3. Flat' = <<>> /\ Len(<<>>) = 0
    <3>1. FlattenSeq(<<>>) = <<>>
      BY DEF FlattenSeq
    <3>2. QED
      BY <2>2, <3>1 DEF Flat
  <2>4. QED
    BY <2>1, <2>2, <2>3 DEF ReadInv
<1>7. CASE BrokerSends
  <2>1. /\ UNCHANGED <<blocks, pc, peer>> /\ Flat' = Flat /\ peer = "open"
    BY <1>7 DEF BrokerSends, reading, Flat
  <2>2. PICK n : sent' = Append(sent, n) /\ n \in 1 .. MaxText
    BY <1>7 DEF BrokerSends
  <2>3. cut \subseteq cut'
    BY <1>7 DEF BrokerSends
  <2>4. Damaged \subseteq Damaged'
    BY <2>3 DEF Damaged
  <2>5. ASSUME Flat # <<>>, Flat[1][2] = 1 PROVE OneFrame(Flat, sent')
    <3>1. OneFrame(Flat, sent)
      BY <2>5 DEF ReadInv
    <3>2. Flat[1][1] \in 1 .. Len(sent)
      <4>1. 1 \in 1 .. Len(Flat) /\ 1 \in 1 .. Len(Stream) /\ Stream[1] = Flat[1]
        BY <2>5, Types
      <4>2. Known(Flat[1], sent)
        BY <4>1 DEF StreamInv, InOrder
      <4>3. QED
        BY <4>2 DEF Known
    <3>3. sent'[Flat[1][1]] = sent[Flat[1][1]]
      BY <2>2, <3>2, Types
    <3>4. QED
      BY <3>1, <3>3 DEF OneFrame
  <2>6. QED
    BY <2>1, <2>4, <2>5 DEF ReadInv, BlocksOK, Room, OneFrame
<1>8. CASE RecvByte
  BY <1>8, ReadGrows
<1>9. QED
  BY <1>3, <1>4, <1>5, <1>6, <1>7, <1>8, Steps

(* A buffer that is returned holds the text of one frame from its          *)
(* beginning, or what is left of damaged ones.                             *)
LEMMA Returned ==
    ASSUME TypeOK, StreamInv, ReadInv, pc = "newline"
    PROVE  /\ Copied = Flat /\ Flat \in Seq(Byte) /\ Flat # <<>>
           /\ \A i \in 1 .. Len(Flat) : Known(Flat[i], sent)
           /\ Flat[1][2] = 1 => /\ Flat = Whole(Flat[1][1])
                                /\ FramesOf(Flat) = {Flat[1][1]}
           /\ Flat[1][2] # 1 => FramesOf(Flat) \subseteq Damaged
<1>1. Copied = Flat
  BY CopiedWhole DEF ReadInv
<1>2. PICK f : f = Flat
  OBVIOUS
<1>3. /\ f \in Seq(Byte) /\ f # <<>> /\ Len(f) \in Nat \ {0} /\ 1 \in 1 .. Len(f)
      /\ sent \in Seq(Nat)
  <2>1. f \in Seq(Byte) /\ f # <<>> /\ sent \in Seq(Nat)
    BY <1>2, Types DEF ReadInv
  <2>2. QED
    BY <2>1
<1>4. ASSUME NEW i \in 1 .. Len(f) PROVE Known(f[i], sent)
  <2>1. f[i] = Stream[i] /\ i \in 1 .. Len(Stream)
    BY <1>2, Types
  <2>2. QED
    BY <2>1 DEF StreamInv, InOrder
<1>5. ASSUME f[1][2] = 1 PROVE f = Whole(f[1][1]) /\ FramesOf(f) = {f[1][1]}
  <2>1. PICK k, n : k = f[1][1] /\ n = sent[k]
    OBVIOUS
  <2>2. k \in Nat /\ n \in Nat /\ k \in 1 .. Len(sent)
    BY <1>3, <1>4, <2>1 DEF Known
  <2>3. ASSUME NEW i \in 1 .. Len(f) PROVE f[i][1] = k /\ f[i][2] = IF i <= n THEN i ELSE 0
    BY <1>2, <1>3, <1>5, <2>1 DEF ReadInv, OneFrame
  <2>4. ASSUME NEW i \in 1 .. Len(f) PROVE f[i][2] = 0 <=> i = Len(f)
    BY <1>2 DEF ReadInv
  <2>5. Len(f) = n + 1
    <3>1. Len(f) \in 1 .. Len(f)
      BY <1>3
    <3>2. Len(f) > n
      BY <1>3, <2>2, <2>3, <2>4, <3>1
    <3>3. n + 1 \in 1 .. Len(f)
      BY <1>3, <2>2, <3>2
    <3>4. f[n + 1][2] = 0
      BY <2>2, <2>3, <3>3
    <3>5. QED
      BY <2>4, <3>3, <3>4
  <2>6. PICK w : w = Whole(k)
    OBVIOUS
  <2>7. w \in Seq(Byte) /\ Len(w) = n + 1 /\ w[n + 1] = <<k, 0>>
        /\ \A i \in 1 .. n : w[i] = <<k, i>>
    <3>1. PICK t : t = Text(k, n)
      OBVIOUS
    <3>2. t \in Seq(Byte) /\ Len(t) = n /\ \A i \in 1 .. n : t[i] = <<k, i>>
      <4>1. \A i \in 1 .. n : <<k, i>> \in Byte
        BY <2>2 DEF Byte
      <4>2. t = [i \in 1 .. n |-> <<k, i>>]
        BY <3>1 DEF Text
      <4>3. t \in [1 .. n -> Byte]
        BY <4>1, <4>2
      <4>4. QED
        BY <2>2, <4>2, <4>3
    <3>3. w = Append(t, Nul(k)) /\ Nul(k) = <<k, 0>> /\ Nul(k) \in Byte
      BY <2>1, <2>2, <2>6, <3>1 DEF Whole, Nul, Byte
    <3>4. /\ Append(t, Nul(k)) \in Seq(Byte) /\ Len(Append(t, Nul(k))) = Len(t) + 1
          /\ Append(t, Nul(k))[Len(t) + 1] = Nul(k)
          /\ \A i \in 1 .. Len(t) : Append(t, Nul(k))[i] = t[i]
      BY <3>2, <3>3, AppendProperties
    <3>5. QED
      BY <3>2, <3>3, <3>4
  <2>8. ASSUME NEW i \in 1 .. Len(f) PROVE f[i] = w[i]
    <3>1. f[i] \in Byte /\ f[i] = <<f[i][1], f[i][2]>>
      BY <1>3 DEF Byte
    <3>2. i \in 1 .. n \/ i = n + 1
      BY <2>2, <2>5
    <3>3. w[i] = <<k, IF i <= n THEN i ELSE 0>>
      BY <2>2, <2>7, <3>2
    <3>4. QED
      BY <2>3, <3>1, <3>3
  <2>9. f = w
    BY <1>3, <2>5, <2>7, <2>8, SeqEqual
  <2>10. FramesOf(f) = {k}
    <3>1. DOMAIN f = 1 .. Len(f)
      BY <1>3
    <3>2. QED
      BY <1>3, <2>3, <3>1 DEF FramesOf, ToSet
  <2>11. QED
    BY <2>1, <2>6, <2>9, <2>10
<1>6. ASSUME f[1][2] # 1 PROVE FramesOf(f) \subseteq Damaged
  <2>1. \A i \in 1 .. Len(f) : f[i][1] \in Damaged
    BY <1>2, <1>3, <1>6 DEF ReadInv
  <2>2. DOMAIN f = 1 .. Len(f)
    BY <1>3
  <2>3. QED
    BY <2>1, <2>2 DEF FramesOf, ToSet
<1>7. QED
  BY <1>1, <1>2, <1>3, <1>4, <1>5, <1>6

-----------------------------------------------------------------------------
(* What was returned.                                                      *)
LEMMA GotKept ==
    ASSUME GotInv, got' = got, Len(sent') >= Len(sent), sent \in Seq(Nat), Len(sent') \in Nat,
           \A i \in 1 .. Len(sent) : sent'[i] = sent[i],
           \A i \in 1 .. Len(Stream') :
              \/ Stream'[i][1] = Len(sent) + 1
              \/ \E j \in 1 .. Len(Stream) : Stream'[i] = Stream[j]
    PROVE  GotInv'
<1> SUFFICES ASSUME NEW j \in 1 .. Len(got)
             PROVE  /\ got[j] # <<>> /\ \A i \in 1 .. Len(got[j]) : Known(got[j][i], sent')
                    /\ got[j] # <<>> => After(got[j][1][1], Stream')
  BY DEF GotInv
<1>1. /\ got[j] # <<>> /\ \A i \in 1 .. Len(got[j]) : Known(got[j][i], sent)
      /\ After(got[j][1][1], Stream)
  BY DEF GotInv
<1>2. ASSUME NEW i \in 1 .. Len(got[j]) PROVE Known(got[j][i], sent')
  <2>1. PICK b : b = got[j][i]
    OBVIOUS
  <2>2. b[1] \in 1 .. Len(sent) /\ b[2] \in -1 .. sent[b[1]]
    BY <1>1, <2>1 DEF Known
  <2>3. b[1] \in 1 .. Len(sent') /\ sent'[b[1]] = sent[b[1]]
    <3>1. Len(sent) \in Nat
      OBVIOUS
    <3>2. \A n \in 1 .. Len(sent) : n \in 1 .. Len(sent')
      BY <3>1
    <3>3. QED
      BY <2>2, <3>2
  <2>4. QED
    BY <2>1, <2>2, <2>3 DEF Known
<1>3. ASSUME Known(got[j][1], sent), NEW i \in 1 .. Len(Stream')
      PROVE  got[j][1][1] <= Stream'[i][1] /\ (Stream'[i][2] = 1 => got[j][1][1] < Stream'[i][1])
  <2>1. CASE Stream'[i][1] = Len(sent) + 1
    <3>1. got[j][1][1] \in 1 .. Len(sent)
      BY <1>3 DEF Known
    <3>2. got[j][1][1] < Stream'[i][1]
      BY <2>1, <3>1
    <3>3. QED
      BY <2>1, <3>1, <3>2
  <2>2. CASE \E k \in 1 .. Len(Stream) : Stream'[i] = Stream[k]
    BY <1>1, <2>2 DEF After
  <2>3. QED
    BY <2>1, <2>2
<1>4. QED
  BY <1>1, <1>2, <1>3 DEF After

LEMMA GotAdds ==
    ASSUME TypeOK, StreamInv, ReadInv, GotInv, pc = "newline", UNCHANGED sent,
           got' = Append(got, Flat),
           \A i \in 1 .. Len(Stream') :
              \E j \in 2 .. Len(Stream) : Stream'[i] = Stream[j]
    PROVE  GotInv'
<1>1. /\ got \in Seq(Seq(Byte)) /\ Flat \in Seq(Byte) /\ Flat # <<>>
      /\ \A i \in 1 .. Len(Flat) : Known(Flat[i], sent)
  BY Returned DEF TypeOK
<1>2. /\ Len(got') = Len(got) + 1 /\ Len(got) \in Nat /\ got'[Len(got) + 1] = Flat
      /\ \A j \in 1 .. Len(got) : got'[j] = got[j]
  BY <1>1, AppendProperties
<1>3. Flat[1] = Stream[1] /\ 1 \in 1 .. Len(Stream)
  BY <1>1, Types
<1>4. After(Flat[1][1], Stream')
  <2> SUFFICES ASSUME NEW i \in 1 .. Len(Stream')
               PROVE  /\ Flat[1][1] <= Stream'[i][1]
                      /\ Stream'[i][2] = 1 => Flat[1][1] < Stream'[i][1]
    BY DEF After
  <2>1. PICK j \in 2 .. Len(Stream) : Stream'[i] = Stream[j]
    OBVIOUS
  <2>2. j \in 1 .. Len(Stream) /\ 1 < j
    BY <2>1
  <2>3. Stream[1][1] <= Stream[j][1] /\ (Stream[j][2] = 1 => Stream[1][1] < Stream[j][1])
    BY <1>3, <2>2 DEF StreamInv, InOrder
  <2>4. QED
    BY <1>3, <2>1, <2>3
<1>5. ASSUME NEW j \in 1 .. Len(got)
      PROVE  /\ got[j] # <<>> /\ \A i \in 1 .. Len(got[j]) : Known(got[j][i], sent)
             /\ After(got[j][1][1], Stream')
  <2>1. /\ got[j] # <<>> /\ \A i \in 1 .. Len(got[j]) : Known(got[j][i], sent)
        /\ After(got[j][1][1], Stream)
    BY DEF GotInv
  <2>2. ASSUME NEW i \in 1 .. Len(Stream') PROVE \E k \in 1 .. Len(Stream) : Stream'[i] = Stream[k]
    <3>1. PICK k \in 2 .. Len(Stream) : Stream'[i] = Stream[k]
      OBVIOUS
    <3>2. k \in 1 .. Len(Stream)
      BY <3>1
    <3>3. QED
      BY <3>1, <3>2
  <2>3. QED
    BY <2>1, <2>2 DEF After
<1>6. ASSUME NEW j \in 1 .. Len(got')
      PROVE  /\ got'[j] # <<>> /\ \A i \in 1 .. Len(got'[j]) : Known(got'[j][i], sent)
             /\ After(got'[j][1][1], Stream')
  <2>1. j \in 1 .. Len(got) \/ j = Len(got) + 1
    BY <1>2
  <2>2. CASE j \in 1 .. Len(got)
    BY <1>2, <1>5, <2>2
  <2>3. CASE j = Len(got) + 1
    BY <1>1, <1>2, <1>4, <2>3
  <2>4. QED
    BY <2>1, <2>2, <2>3
<1>7. QED
  BY <1>6 DEF GotInv, Known

LEMMA GotStep ==
    ASSUME TypeOK, StreamInv, ReadInv, GotInv, [Next]_vars PROVE GotInv'
<1>1. sent \in Seq(Nat) /\ Len(sent) \in Nat
  BY Types
<1>2. ASSUME UNCHANGED <<got, sent>>,
             \A i \in 1 .. Len(Stream') : \E j \in 1 .. Len(Stream) : Stream'[i] = Stream[j]
      PROVE  GotInv'
  BY <1>1, <1>2, GotKept
<1>3. CASE \/ PeerCloses \/ BeginRead \/ RecvQuiet \/ BeginWrite \/ SendSome \/ SendFails
           \/ UNCHANGED vars \/ (RecvError /\ pc = "text")
  BY <1>2, <1>3, QuietSteps
<1>4. CASE RecvByte
  <2>1. UNCHANGED <<got, sent>> /\ Stream' = Stream
    BY <1>4, ReadByte DEF RecvByte
  <2>2. QED
    BY <1>2, <2>1
<1>5. CASE BrokerSends
  <2>1. PICK k \in Nat \ {0}, n \in Nat \ {0}, m \in {0, 1}, frame \in Seq(Byte) :
            /\ k = Len(sent) + 1 /\ frame = FrameOf(k, n, m) /\ IsFrame(frame, k, n, m)
            /\ sent' = Append(sent, n) /\ cut' = (IF m = 1 THEN cut ELSE cut \cup {k})
            /\ Stream' = Stream \o frame
    BY <1>5, BrokerAdds
  <2>2. \A i \in 1 .. Len(frame) : frame[i][1] = Len(sent) + 1
    BY <2>1 DEF IsFrame
  <2>3. /\ Len(sent') = Len(sent) + 1 /\ \A i \in 1 .. Len(sent) : sent'[i] = sent[i]
    BY <1>1, <2>1
  <2>4. PICK s : s = Stream
    OBVIOUS
  <2>5. s \in Seq(Byte) /\ Len(s) \in Nat
    BY <2>4, Types
  <2>6. ASSUME NEW i \in 1 .. Len(s \o frame)
        PROVE  \/ (s \o frame)[i][1] = Len(sent) + 1
               \/ \E j \in 1 .. Len(s) : (s \o frame)[i] = s[j]
    <3>1. CASE i \in 1 .. Len(s)
      BY <2>5, <3>1, Concat
    <3>2. CASE i \notin 1 .. Len(s)
      <4>1. PICK j \in 1 .. Len(frame) : i = Len(s) + j
        <5>1. Len(s \o frame) = Len(s) + Len(frame)
          BY <2>5, Concat
        <5>2. i - Len(s) \in 1 .. Len(frame) /\ i = Len(s) + (i - Len(s))
          BY <2>5, <3>2, <5>1
        <5>3. QED
          BY <5>2
      <4>2. (s \o frame)[i] = frame[j]
        BY <2>5, <4>1, Concat
      <4>3. QED
        BY <2>2, <4>2
    <3>3. QED
      BY <3>1, <3>2
  <2>7. got' = got
    BY <1>5 DEF BrokerSends, reading
  <2>8. QED
    BY <1>1, <2>1, <2>3, <2>4, <2>6, <2>7, GotKept
<1>6. CASE PeerResets
  <2>1. UNCHANGED <<got, sent, blocks>> /\ wire' = <<>>
    BY <1>6 DEF PeerResets, reading
  <2>2. PICK f : f = Flat
    OBVIOUS
  <2>3. f \in Seq(Byte) /\ Len(f) <= Len(Stream) /\ \A i \in 1 .. Len(f) : f[i] = Stream[i]
        /\ Len(f) \in Nat /\ Len(Stream) \in Nat
    BY <2>2, Types
  <2>4. Stream' = f
    <3>1. Flat' = f /\ f \o <<>> = f
      BY <2>1, <2>2, <2>3 DEF Flat
    <3>2. QED
      BY <2>1, <3>1 DEF Stream
  <2>5. \A i \in 1 .. Len(f) : i \in 1 .. Len(Stream)
    BY <2>3
  <2>6. QED
    BY <1>2, <2>1, <2>3, <2>4, <2>5
<1>7. CASE RecvNewline \/ RecvOther \/ RecvStall
  <2>1. /\ blocks' = <<>> /\ UNCHANGED sent
        /\ \/ wire' = Tail(wire) /\ wire # <<>>
           \/ wire' = wire
    BY <1>7 DEF RecvNewline, RecvOther, RecvStall
  <2>2. PICK o \in Nat :
          /\ o = Len(Flat) \/ o = Len(Flat) + 1
          /\ wire' # wire => o = Len(Flat) + 1
          /\ wire' = wire => o = Len(Flat)
          /\ Stream' = wire' /\ wire' \in Seq(Byte) /\ Len(wire') + o = Len(Stream)
          /\ \A i \in 1 .. Len(wire') : wire'[i] = Stream[i + o]
    BY <2>1, TakenOff
  <2>3. o >= 1
    <3>1. Flat # <<>> /\ Flat \in Seq(Byte)
      BY <1>7, Types DEF RecvNewline, RecvOther, RecvStall, ReadInv
    <3>2. Len(Flat) \in Nat \ {0}
      BY <3>1
    <3>3. QED
      BY <2>2, <3>2
  <2>4. ASSUME NEW i \in 1 .. Len(Stream')
        PROVE  \E j \in 2 .. Len(Stream) : Stream'[i] = Stream[j]
    <3>1. Len(Stream') \in Nat /\ Len(Stream) \in Nat
      BY <2>2, Types
    <3>2. i + o \in 2 .. Len(Stream)
      BY <2>2, <2>3, <3>1
    <3>3. QED
      BY <2>2, <3>2
  <2>5. CASE got' = got
    <3>1. ASSUME NEW i \in 1 .. Len(Stream')
          PROVE  \E j \in 1 .. Len(Stream) : Stream'[i] = Stream[j]
      <4>1. PICK j \in 2 .. Len(Stream) : Stream'[i] = Stream[j]
        BY <2>4
      <4>2. j \in 1 .. Len(Stream)
        BY <4>1
      <4>3. QED
        BY <4>1, <4>2
    <3>2. QED
      BY <1>2, <2>1, <2>5, <3>1
  <2>6. CASE RecvNewline
    <3>1. got' = Append(got, Flat) /\ pc = "newline"
      BY <2>6, Returned DEF RecvNewline
    <3>2. QED
      BY <2>1, <2>4, <3>1, GotAdds
  <2>7. QED
    BY <1>7, <2>5, <2>6 DEF RecvOther, RecvStall
<1>8. CASE RecvEof \/ Connect \/ (RecvError /\ pc = "newline")
  <2>1. Stream' = <<>> /\ Len(<<>>) = 0
    BY <1>8, StreamGone
  <2>2. UNCHANGED sent
    BY <1>8 DEF RecvEof, Connect, RecvError
  <2>3. CASE got' = got
    BY <1>2, <2>1, <2>2, <2>3
  <2>4. CASE got' # got
    <3>1. pc = "newline" /\ got' = Append(got, Flat)
      BY <1>8, <2>4, Returned DEF RecvEof, Connect, RecvError, reading
    <3>2. QED
      BY <2>1, <2>2, <3>1, GotAdds
  <2>5. QED
    BY <2>3, <2>4
<1>9. QED
  BY <1>3, <1>4, <1>5, <1>6, <1>7, <1>8, Steps

-----------------------------------------------------------------------------
(* What a buffer says of its frames stays true, and is true of a new one.  *)
LEMMA Harmed ==
    ASSUME cut \subseteq cut' PROVE Damaged \subseteq Damaged'
BY DEF Damaged

LEMMA Undamaged ==
    ASSUME got \in Seq(Seq(Byte)), GotInv, DamageContained, got' = got, cut \subseteq cut',
           \A k \in 1 .. Len(sent) : sent'[k] = sent[k]
    PROVE  DamageContained'
<1>1. Damaged \subseteq Damaged'
  BY Harmed
<1>2. \A k \in 1 .. Len(sent) : Whole(k)' = Whole(k)
  BY DEF Whole
<1>3. ASSUME NEW i \in DOMAIN got
      PROVE  /\ \A k \in FramesOf(got[i]) : k \in 1 .. Len(sent)
             /\ Head(got[i])[1] \in 1 .. Len(sent)
  <2>1. /\ i \in 1 .. Len(got) /\ got[i] \in Seq(Byte) /\ got[i] # <<>>
        /\ \A j \in 1 .. Len(got[i]) : Known(got[i][j], sent)
    BY DEF GotInv
  <2>2. DOMAIN got[i] = 1 .. Len(got[i]) /\ 1 \in 1 .. Len(got[i]) /\ Head(got[i]) = got[i][1]
    BY <2>1
  <2>3. QED
    BY <2>1, <2>2 DEF FramesOf, ToSet, Known
<1>4. ASSUME NEW i \in DOMAIN got
      PROVE  /\ \A k \in FramesOf(got[i]) : k \in Damaged' \/ got[i] = Whole(k)'
             /\ IsMessage(got[i]) =>
                   /\ got[i] = Whole(Head(got[i])[1])'
                   /\ \A j \in 1 .. i - 1 : Head(got[j])[1] < Head(got[i])[1]
  <2>1. ASSUME NEW k \in FramesOf(got[i]) PROVE k \in Damaged' \/ got[i] = Whole(k)'
    BY <1>1, <1>2, <1>3 DEF DamageContained
  <2>2. QED
    BY <1>2, <1>3, <2>1 DEF DamageContained
<1>5. QED
  BY <1>4 DEF DamageContained

LEMMA OneMore ==
    ASSUME TypeOK, StreamInv, ReadInv, GotInv, DamageContained, pc = "newline",
           got' = Append(got, Flat), UNCHANGED <<sent, cut>>
    PROVE  DamageContained'
<1>1. PICK f : f = Flat
  OBVIOUS
<1>2. /\ got \in Seq(Seq(Byte)) /\ f \in Seq(Byte) /\ f # <<>> /\ Len(f) \in Nat \ {0}
      /\ f[1][2] = 1 => f = Whole(f[1][1]) /\ FramesOf(f) = {f[1][1]}
      /\ f[1][2] # 1 => FramesOf(f) \subseteq Damaged
      /\ Head(f) = f[1]
  <2>1. f \in Seq(Byte) /\ f # <<>>
    BY <1>1, Returned
  <2>2. QED
    BY <1>1, <2>1, Returned DEF TypeOK
<1>3. PICK n \in Nat : n = Len(got)
  BY <1>2
<1>4. /\ Len(got') = n + 1 /\ got'[n + 1] = f /\ DOMAIN got' = 1 .. n + 1
      /\ DOMAIN got = 1 .. n /\ \A j \in 1 .. n : got'[j] = got[j]
  <2>1. /\ Append(got, f) \in Seq(Seq(Byte)) /\ Len(Append(got, f)) = Len(got) + 1
        /\ \A i \in 1 .. Len(got) : Append(got, f)[i] = got[i]
        /\ Append(got, f)[Len(got) + 1] = f
    BY <1>2, AppendProperties
  <2>2. got' = Append(got, f)
    BY <1>1
  <2>3. DOMAIN Append(got, f) = 1 .. Len(Append(got, f)) /\ DOMAIN got = 1 .. Len(got)
    BY <1>2, <2>1
  <2>4. QED
    BY <1>3, <2>1, <2>2, <2>3
<1>5. Damaged' = Damaged /\ \A k : Whole(k)' = Whole(k)
  BY DEF Damaged, Whole
<1>6. ASSUME NEW i \in 1 .. n
      PROVE  /\ \A k \in FramesOf(got'[i]) : k \in Damaged \/ got'[i] = Whole(k)
             /\ IsMessage(got'[i]) =>
                   /\ got'[i] = Whole(Head(got'[i])[1])
                   /\ \A j \in 1 .. i - 1 : Head(got'[j])[1] < Head(got'[i])[1]
  <2>1. got'[i] = got[i] /\ \A j \in 1 .. i - 1 : got'[j] = got[j]
    <3>1. \A j \in 1 .. i - 1 : j \in 1 .. n
      BY <1>3
    <3>2. QED
      BY <1>4, <3>1
  <2>2. i \in DOMAIN got
    BY <1>4
  <2>3. QED
    BY <2>1, <2>2 DEF DamageContained
<1>7. /\ \A k \in FramesOf(f) : k \in Damaged \/ f = Whole(k)
      /\ IsMessage(f) => /\ f = Whole(Head(f)[1])
                         /\ \A j \in 1 .. n : Head(got[j])[1] < Head(f)[1]
  <2>1. \A k \in FramesOf(f) : k \in Damaged \/ f = Whole(k)
    BY <1>2
  <2>2. ASSUME IsMessage(f) PROVE f[1][2] = 1
    BY <1>2, <2>2 DEF IsMessage
  <2>3. ASSUME f[1][2] = 1, NEW j \in 1 .. n PROVE Head(got[j])[1] < f[1][1]
    <3>1. got[j] # <<>> /\ After(got[j][1][1], Stream) /\ got[j] \in Seq(Byte)
      BY <1>2, <1>3 DEF GotInv
    <3>2. Head(got[j]) = got[j][1]
      BY <3>1
    <3>3. Stream[1] = f[1] /\ 1 \in 1 .. Len(Stream)
      BY <1>1, <1>2, Types
    <3>4. QED
      BY <2>3, <3>1, <3>2, <3>3 DEF After
  <2>4. QED
    BY <1>2, <2>1, <2>2, <2>3
<1>8. ASSUME NEW i \in DOMAIN got'
      PROVE  /\ \A k \in FramesOf(got'[i]) : k \in Damaged \/ got'[i] = Whole(k)
             /\ IsMessage(got'[i]) =>
                   /\ got'[i] = Whole(Head(got'[i])[1])
                   /\ \A j \in 1 .. i - 1 : Head(got'[j])[1] < Head(got'[i])[1]
  <2>1. CASE i \in 1 .. n
    BY <1>6, <2>1
  <2>2. CASE i = n + 1
    <3>1. got'[i] = f /\ \A j \in 1 .. i - 1 : j \in 1 .. n /\ got'[j] = got[j]
      BY <1>3, <1>4, <2>2
    <3>2. QED
      BY <1>7, <3>1
  <2>3. QED
    BY <1>3, <1>4, <2>1, <2>2
<1>9. QED
  BY <1>5, <1>8 DEF DamageContained

LEMMA DamageStep ==
    ASSUME TypeOK, StreamInv, ReadInv, GotInv, DamageContained, [Next]_vars
    PROVE  DamageContained'
<1>1. got \in Seq(Seq(Byte)) /\ sent \in Seq(Nat)
  BY Types DEF TypeOK
<1>2. CASE RecvNewline
  <2>1. got' = Append(got, Flat) /\ pc = "newline" /\ UNCHANGED <<sent, cut>>
    BY <1>2, Returned DEF RecvNewline, history
  <2>2. QED
    BY <2>1, OneMore
<1>3. CASE RecvError /\ got' # got
  <2>1. got' = Append(got, Flat) /\ pc = "newline" /\ UNCHANGED <<sent, cut>>
    BY <1>3, Returned DEF RecvError
  <2>2. QED
    BY <2>1, OneMore
<1>4. CASE BrokerSends
  <2>1. got' = got /\ cut \subseteq cut' /\ \E n \in 1 .. MaxText : sent' = Append(sent, n)
    BY <1>4 DEF BrokerSends, reading
  <2>2. \A k \in 1 .. Len(sent) : sent'[k] = sent[k]
    BY <1>1, <2>1
  <2>3. QED
    BY <1>1, <2>1, <2>2, Undamaged
<1>5. CASE ~(RecvNewline \/ BrokerSends \/ (RecvError /\ got' # got))
  <2>1. got' = got /\ cut \subseteq cut' /\ UNCHANGED sent
    BY <1>5 DEF Next, Broker, Read, Write, PeerCloses, PeerResets, BeginRead, RecvByte, RecvOther,
                RecvQuiet, RecvStall, RecvEof, RecvError, BeginWrite, SendSome, SendFails, Connect,
                vars, reading, history
  <2>2. QED
    BY <1>1, <2>1, Undamaged
<1>6. QED
  BY <1>2, <1>3, <1>4, <1>5

-----------------------------------------------------------------------------
(* Where a frame that was sent has gone.                                   *)
Accounted(k) ==
    k \in Pending \cup Damaged \cup lost \/ \E i \in DOMAIN got : got[i] = Whole(k)

LEMMA FrameNumbers ==
    ASSUME NEW s \in Seq(Byte), NEW k
    PROVE  k \in FramesOf(s) <=> \E i \in 1 .. Len(s) : s[i][1] = k
<1>1. DOMAIN s = 1 .. Len(s)
  OBVIOUS
<1>2. QED
  BY <1>1 DEF FramesOf, ToSet

LEMMA Appended ==
    ASSUME NEW A, NEW s \in Seq(A), NEW e \in A
    PROVE  /\ \A i \in DOMAIN s : i \in DOMAIN Append(s, e) /\ Append(s, e)[i] = s[i]
           /\ \E i \in DOMAIN Append(s, e) : Append(s, e)[i] = e
<1>1. /\ Append(s, e) \in Seq(A) /\ Len(Append(s, e)) = Len(s) + 1
      /\ \A i \in 1 .. Len(s) : Append(s, e)[i] = s[i]
      /\ Append(s, e)[Len(s) + 1] = e
  BY AppendProperties
<1>2. DOMAIN s = 1 .. Len(s) /\ DOMAIN Append(s, e) = 1 .. Len(s) + 1 /\ Len(s) \in Nat
  BY <1>1
<1>3. QED
  BY <1>1, <1>2

LEMMA FirstOrRest ==
    ASSUME NEW s \in Seq(Byte), s # <<>>, NEW k \in FramesOf(s)
    PROVE  k = s[1][1] \/ k \in FramesOf(Tail(s))
<1>1. PICK i \in 1 .. Len(s) : s[i][1] = k
  BY FrameNumbers
<1>2. CASE i = 1
  BY <1>1, <1>2
<1>3. CASE i # 1
  <2>1. /\ Tail(s) \in Seq(Byte) /\ Len(Tail(s)) = Len(s) - 1
        /\ \A j \in 1 .. Len(Tail(s)) : Tail(s)[j] = s[j + 1]
    BY HeadTailProperties
  <2>2. PICK j : j = i - 1
    OBVIOUS
  <2>3. j \in 1 .. Len(Tail(s)) /\ j + 1 = i
    BY <1>3, <2>1, <2>2
  <2>4. Tail(s)[j][1] = k
    BY <1>1, <2>1, <2>3
  <2>5. QED
    BY <2>1, <2>3, <2>4, FrameNumbers
<1>4. QED
  BY <1>2, <1>3

\* After the NUL of a frame that was read comes its newline, unless the broker
\* left it out and cut the frame short.
LEMMA AfterNul ==
    ASSUME TypeOK, StreamInv, ReadInv, pc = "newline", wire # <<>>
    PROVE  \E k \in FramesOf(Flat) :
              /\ wire[1][2] = -1 => wire[1][1] = k
              /\ wire[1][2] # -1 => k \in cut /\ wire[1][1] = k + 1
              /\ Flat[1][2] = 1 => FramesOf(Flat) = {k}
<1>1. PICK f, n : f = Flat /\ n = Len(f)
  OBVIOUS
<1>2. f \in Seq(Byte) /\ f # <<>> /\ wire \in Seq(Byte)
  BY <1>1, Types DEF ReadInv
<1>3. /\ n \in Nat \ {0} /\ n \in 1 .. Len(f) /\ n \in 1 .. Len(Stream) - 1
      /\ Stream[n] = f[n] /\ Stream[n + 1] = wire[1]
  <2>1. n \in Nat \ {0} /\ n \in 1 .. Len(f) /\ 1 \in 1 .. Len(wire) /\ Len(wire) \in Nat
    BY <1>1, <1>2
  <2>2. QED
    BY <1>1, <2>1, Types
<1>4. Follows(f[n], wire[1], sent, cut)
  BY <1>3 DEF StreamInv, InOrder
<1>5. f[n][2] = 0
  BY <1>1, <1>3 DEF ReadInv
<1>6. PICK k : k = f[n][1]
  OBVIOUS
<1>7. /\ wire[1][2] = -1 => wire[1][1] = k
      /\ wire[1][2] # -1 => k \in cut /\ wire[1][1] = k + 1
  BY <1>4, <1>5, <1>6 DEF Follows
<1>8. k \in FramesOf(Flat)
  BY <1>1, <1>2, <1>3, <1>6, FrameNumbers
<1>9. Flat[1][2] = 1 => FramesOf(Flat) = {k}
  BY <1>8, Returned
<1>10. QED
  BY <1>7, <1>8, <1>9

LEMMA StillAccounted ==
    ASSUME TypeOK, NEW k \in 1 .. Len(sent), Accounted(k),
           sent'[k] = sent[k], cut \subseteq cut', lost \subseteq lost',
           got' = got \/ got' = Append(got, Flat),
           k \in Pending => k \in Pending' \cup Damaged' \cup lost' \/ (got' # got /\ Flat = Whole(k))
    PROVE  Accounted(k)'
<1>1. got \in Seq(Seq(Byte)) /\ Flat \in Seq(Byte)
  BY Types DEF TypeOK
<1>2. Damaged \subseteq Damaged' /\ Whole(k)' = Whole(k)
  BY Harmed DEF Whole
<1>3. \A i \in DOMAIN got : i \in DOMAIN got' /\ got'[i] = got[i]
  <2>1. \A i \in DOMAIN got : i \in DOMAIN Append(got, Flat) /\ Append(got, Flat)[i] = got[i]
    BY <1>1, Appended
  <2>2. CASE got' = got
    BY <2>2
  <2>3. CASE got' = Append(got, Flat)
    BY <2>1, <2>3
  <2>4. QED
    BY <2>2, <2>3
<1>4. CASE \E i \in DOMAIN got : got[i] = Whole(k)
  BY <1>2, <1>3, <1>4 DEF Accounted
<1>5. CASE k \in Damaged \cup lost
  BY <1>2, <1>5 DEF Accounted
<1>6. CASE k \in Pending
  <2>1. CASE k \in Pending' \cup Damaged' \cup lost'
    BY <2>1 DEF Accounted
  <2>2. CASE got' # got /\ Flat = Whole(k)
    <3>1. \E i \in DOMAIN got' : got'[i] = Flat
      BY <1>1, <2>2, Appended
    <3>2. QED
      BY <1>2, <2>2, <3>1 DEF Accounted
  <2>3. QED
    BY <1>6, <2>1, <2>2
<1>7. QED
  BY <1>4, <1>5, <1>6 DEF Accounted

LEMMA TakenAccounted ==
    ASSUME TypeOK, StreamInv, ReadInv, RecvNewline \/ RecvOther \/ RecvStall,
           NEW k \in 1 .. Len(sent), Accounted(k)
    PROVE  Accounted(k)'
<1>1. /\ blocks' = <<>> /\ sent' = sent /\ cut \subseteq cut' /\ lost' = lost
      /\ wire' = Tail(wire) \/ wire' = wire
      /\ Flat # <<>> /\ (RecvNewline \/ RecvOther => wire # <<>>)
  BY DEF RecvNewline, RecvOther, RecvStall, history, ReadInv
<1>2. Flat \in Seq(Byte) /\ wire \in Seq(Byte)
  BY Types
<1>3. got' = got \/ got' = Append(got, Flat)
  BY Returned DEF RecvNewline, RecvOther, RecvStall
<1>4. k \in FramesOf(wire') => k \in Pending'
  BY DEF Pending
<1>5. ASSUME k \in FramesOf(wire)
      PROVE  \/ k \in FramesOf(wire')
             \/ RecvNewline /\ k \in FramesOf(Flat)
             \/ k \in Damaged'
  <2>1. CASE wire' = wire
    BY <1>5, <2>1
  <2>2. CASE wire' # wire
    <3>1. wire' = Tail(wire) /\ pc = "newline" /\ cut' = cut
          /\ ((RecvNewline /\ wire[1][2] = -1) \/ (RecvOther /\ wire[1][2] # -1))
      BY <1>1, <1>2, <2>2 DEF RecvNewline, RecvOther, RecvStall, IsNewline, history
    <3>2. k = wire[1][1] \/ k \in FramesOf(wire')
      BY <1>1, <1>2, <1>5, <3>1, FirstOrRest
    <3>3. PICK n \in FramesOf(Flat) :
              /\ wire[1][2] = -1 => wire[1][1] = n
              /\ wire[1][2] # -1 => n \in cut /\ wire[1][1] = n + 1
      BY <1>1, <3>1, AfterNul
    <3>4. CASE RecvNewline /\ wire[1][2] = -1
      BY <3>2, <3>3, <3>4
    <3>5. CASE RecvOther /\ wire[1][2] # -1
      <4>1. n + 1 \in Damaged'
        BY <3>1, <3>3, <3>5 DEF Damaged
      <4>2. QED
        BY <3>2, <3>3, <3>5, <4>1
    <3>6. QED
      BY <3>1, <3>4, <3>5
  <2>3. QED
    BY <2>1, <2>2
<1>6. ASSUME k \in FramesOf(Flat)
      PROVE  k \in Damaged' \/ (got' # got /\ Flat = Whole(k))
  <2>1. Damaged \subseteq Damaged'
    BY <1>1, Harmed
  <2>2. CASE RecvNewline
    <3>1. got' = Append(got, Flat) /\ pc = "newline"
      BY <2>2, Returned DEF RecvNewline
    <3>2. got' # got
      <4>1. got \in Seq(Seq(Byte))
        BY DEF TypeOK
      <4>2. Len(Append(got, Flat)) = Len(got) + 1 /\ Len(got) \in Nat
        BY <1>2, <4>1, AppendProperties
      <4>3. QED
        BY <3>1, <4>2
    <3>3. Flat = Whole(k) \/ k \in Damaged
      BY <1>6, <3>1, Returned
    <3>4. QED
      BY <2>1, <3>2, <3>3
  <2>3. CASE RecvOther
    <3>1. pc = "newline" /\ wire[1][2] # -1
      BY <1>2, <2>3 DEF RecvOther, IsNewline
    <3>2. PICK n \in FramesOf(Flat) :
              /\ wire[1][2] # -1 => n \in cut /\ wire[1][1] = n + 1
              /\ Flat[1][2] = 1 => FramesOf(Flat) = {n}
      BY <1>1, <2>3, <3>1, AfterNul
    <3>3. k \in Damaged
      BY <1>6, <3>1, <3>2, Returned DEF Damaged
    <3>4. QED
      BY <2>1, <3>3
  <2>4. CASE RecvStall
    BY <1>6, <2>4 DEF RecvStall, Damaged
  <2>5. QED
    BY <2>2, <2>3, <2>4
<1>7. k \in Pending => k \in Pending' \cup Damaged' \cup lost' \/ (got' # got /\ Flat = Whole(k))
  BY <1>4, <1>5, <1>6 DEF Pending
<1>8. sent'[k] = sent[k] /\ lost \subseteq lost'
  BY <1>1
<1>9. QED
  BY <1>1, <1>3, <1>7, <1>8, StillAccounted

LEMMA SentType ==
    ASSUME TypeOK, BrokerSends
    PROVE  sent' \in Seq(1 .. MaxText) /\ wire' \in Seq(Byte) /\ cut' \subseteq Nat
<1>1. PICK k \in Nat \ {0}, n \in Nat \ {0}, m \in {0, 1}, frame \in Seq(Byte) :
          /\ k = Len(sent) + 1 /\ sent' = Append(sent, n)
          /\ cut' = (IF m = 1 THEN cut ELSE cut \cup {k}) /\ wire' = wire \o frame
  BY BrokerAdds
<1>2. PICK t \in 1 .. MaxText : sent' = Append(sent, t)
  BY DEF BrokerSends
<1>3. sent \in Seq(1 .. MaxText) /\ wire \in Seq(Byte) /\ cut \subseteq Nat
  BY DEF TypeOK
<1>4. sent' \in Seq(1 .. MaxText)
  BY <1>2, <1>3
<1>5. wire' \in Seq(Byte)
  BY <1>1, <1>3, ConcatProperties
<1>6. cut' \subseteq Nat
  BY <1>1, <1>3
<1>7. QED
  BY <1>4, <1>5, <1>6

LEMMA TypeStep ==
    ASSUME TypeOK, StreamInv, ReadInv, [Next]_vars PROVE TypeOK'
<1>1. /\ sent \in Seq(1 .. MaxText) /\ wire \in Seq(Byte)
      /\ peer \in {"open", "closed", "reset", "none"} /\ socket \in BOOLEAN
      /\ pc \in {"idle", "text", "newline", "write"}
      /\ blocks \in Seq(Seq(Byte)) /\ got \in Seq(Seq(Byte))
      /\ \A i \in DOMAIN blocks : Len(blocks[i]) <= BlockSize
      /\ left \in 0 .. OutLength /\ out \in Seq(1 .. OutLength)
      /\ cut \subseteq Nat /\ lost \subseteq Nat
      /\ stalls \in 0 .. MaxStalls /\ connects \in 1 .. MaxConnects
  BY DEF TypeOK
<1>2. FramesOf(Flat) \subseteq Nat /\ FramesOf(wire) \subseteq Nat
  <2>1. Flat \in Seq(Byte) /\ wire \in Seq(Byte)
    BY Types
  <2>2. \A s \in Seq(Byte) : \A i \in 1 .. Len(s) : s[i][1] \in Nat
    <3>1. ASSUME NEW s \in Seq(Byte), NEW i \in 1 .. Len(s) PROVE s[i][1] \in Nat
      <4>1. s[i] \in Byte
        OBVIOUS
      <4>2. QED
        BY <4>1 DEF Byte
    <3>2. QED
      BY <3>1
  <2>3. DOMAIN Flat = 1 .. Len(Flat) /\ DOMAIN wire = 1 .. Len(wire)
    BY <2>1
  <2>4. QED
    BY <2>1, <2>2, <2>3 DEF FramesOf, ToSet
<1>3. <<>> \in Seq(Seq(Byte)) /\ <<>> \in Seq(Byte) /\ <<>> \in Seq(1 .. OutLength)
      /\ DOMAIN <<>> = {}
  OBVIOUS
<1>4. CASE BrokerSends
  BY <1>1, <1>4, SentType DEF BrokerSends, reading, writing, TypeOK
<1>5. CASE PeerCloses \/ PeerResets
  BY <1>1, <1>2, <1>3, <1>5 DEF PeerCloses, PeerResets, reading, writing, history, TypeOK
<1>6. CASE BeginRead
  <2>1. << <<>> >> \in Seq(Seq(Byte)) /\ DOMAIN << <<>> >> = {1} /\ << <<>> >>[1] = <<>>
        /\ Len(<<>>) = 0
    OBVIOUS
  <2>2. QED
    BY <1>1, <1>6, <2>1, SizeAssumption DEF BeginRead, writing, history, TypeOK
<1>7. CASE RecvByte
  <2>1. /\ blocks' \in Seq(Seq(Byte)) /\ \A i \in 1 .. Len(blocks') : Len(blocks'[i]) <= BlockSize
    BY <1>7, ReadByte DEF BlocksOK
  <2>2. DOMAIN blocks' = 1 .. Len(blocks')
    BY <2>1
  <2>3. wire' \in Seq(Byte) /\ pc' \in {"newline", "text"}
    BY <1>1, <1>7 DEF RecvByte
  <2>4. QED
    BY <1>1, <1>7, <2>1, <2>2, <2>3 DEF RecvByte, writing, history, TypeOK
<1>8. ASSUME Flat \in Seq(Byte) PROVE Append(got, Flat) \in Seq(Seq(Byte))
  BY <1>1, <1>8
<1>9. CASE RecvNewline
  <2>1. wire' \in Seq(Byte) /\ got' \in Seq(Seq(Byte))
    BY <1>1, <1>8, <1>9, Returned DEF RecvNewline
  <2>2. QED
    BY <1>1, <1>3, <1>9, <2>1 DEF RecvNewline, writing, history, TypeOK
<1>10. CASE RecvOther
  <2>1. wire' \in Seq(Byte)
    BY <1>1, <1>10 DEF RecvOther
  <2>2. QED
    BY <1>1, <1>3, <1>10, <2>1 DEF RecvOther, writing, history, TypeOK
<1>11. CASE RecvQuiet \/ RecvEof
  BY <1>1, <1>2, <1>3, <1>11 DEF RecvQuiet, RecvEof, writing, history, TypeOK
<1>12. CASE RecvStall
  <2>1. stalls' \in 0 .. MaxStalls
    BY <1>1, <1>12, SizeAssumption DEF RecvStall
  <2>2. QED
    BY <1>1, <1>2, <1>3, <1>12, <2>1 DEF RecvStall, writing, TypeOK
<1>13. CASE RecvError
  <2>1. CASE pc = "text"
    BY <1>1, <1>13, <2>1 DEF RecvError, writing, TypeOK
  <2>2. CASE pc # "text"
    <3>1. pc = "newline" /\ got' \in {got, Append(got, Copied)} /\ blocks' = <<>> /\ pc' = "idle"
          /\ lost' = lost \cup FramesOf(Flat)
      BY <1>13, <2>2 DEF RecvError
    <3>2. got' \in Seq(Seq(Byte))
      BY <1>1, <1>8, <3>1, Returned
    <3>3. QED
      BY <1>1, <1>2, <1>3, <1>13, <3>1, <3>2 DEF RecvError, writing, TypeOK
  <2>3. QED
    BY <2>1, <2>2
<1>14. CASE BeginWrite \/ SendFails
  <2>1. OutLength \in 0 .. OutLength /\ 0 \in 0 .. OutLength
    BY SizeAssumption
  <2>2. QED
    BY <1>1, <1>14, <2>1 DEF BeginWrite, SendFails, reading, history, TypeOK
<1>15. CASE SendSome
  <2>1. PICK n \in 1 .. left :
              /\ \/ out' = out \o [i \in 1 .. n |-> OutLength - left + i]
                 \/ out' = out
              /\ left' = left - n
              /\ pc' = IF n = left THEN "idle" ELSE "write"
    BY <1>15 DEF SendSome
  <2>2. n \in Nat /\ left \in Nat /\ OutLength \in Nat
    BY <1>1, SizeAssumption
  <2>3. [i \in 1 .. n |-> OutLength - left + i] \in Seq(1 .. OutLength)
    <3>1. \A i \in 1 .. n : OutLength - left + i \in 1 .. OutLength
      BY <1>1, <2>1, <2>2
    <3>2. [i \in 1 .. n |-> OutLength - left + i] \in [1 .. n -> 1 .. OutLength]
      BY <3>1
    <3>3. QED
      BY <2>2, <3>2
  <2>4. out' \in Seq(1 .. OutLength) /\ left' \in 0 .. OutLength
    <3>1. out' \in Seq(1 .. OutLength)
      BY <1>1, <2>1, <2>3, ConcatProperties
    <3>2. left' \in 0 .. OutLength
      BY <1>1, <2>1, <2>2
    <3>3. QED
      BY <3>1, <3>2
  <2>5. QED
    BY <1>1, <1>15, <2>1, <2>4 DEF SendSome, reading, history, TypeOK
<1>16. CASE Connect
  <2>1. connects' \in 1 .. MaxConnects
    BY <1>1, <1>16, SizeAssumption DEF Connect
  <2>2. QED
    BY <1>1, <1>2, <1>3, <1>16, <2>1 DEF Connect, reading, TypeOK
<1>17. CASE UNCHANGED vars
  BY <1>1, <1>17 DEF vars, reading, writing, history, TypeOK
<1>18. QED
  BY <1>4, <1>5, <1>6, <1>7, <1>9, <1>10, <1>11, <1>12, <1>13, <1>14, <1>15, <1>16, <1>17
     DEF Next, Broker, Read, Write

LEMMA InTwoParts ==
    ASSUME NEW f \in Seq(Byte), NEW w \in Seq(Byte)
    PROVE  FramesOf(f \o w) = FramesOf(f) \cup FramesOf(w)
<1>1. /\ f \o w \in Seq(Byte) /\ Len(f \o w) = Len(f) + Len(w)
      /\ \A i \in 1 .. Len(f) : (f \o w)[i] = f[i]
      /\ \A i \in 1 .. Len(w) : (f \o w)[Len(f) + i] = w[i]
  BY Concat
<1>2. Len(f) \in Nat /\ Len(w) \in Nat
  OBVIOUS
<1>3. ASSUME NEW k \in FramesOf(f \o w) PROVE k \in FramesOf(f) \cup FramesOf(w)
  <2>1. PICK i \in 1 .. Len(f \o w) : (f \o w)[i][1] = k
    <3>1. f \o w \in Seq(Byte)
      BY <1>1
    <3>2. QED
      BY <3>1, FrameNumbers
  <2>2. CASE i \in 1 .. Len(f)
    BY <1>1, <2>1, <2>2, FrameNumbers
  <2>3. CASE i \notin 1 .. Len(f)
    <3>1. PICK j \in 1 .. Len(w) : i = Len(f) + j
      <4>1. i - Len(f) \in 1 .. Len(w) /\ i = Len(f) + (i - Len(f))
        BY <1>1, <1>2, <2>3
      <4>2. QED
        BY <4>1
    <3>2. w[j][1] = k
      BY <1>1, <2>1, <3>1
    <3>3. QED
      BY <3>2, FrameNumbers
  <2>4. QED
    BY <2>2, <2>3
<1>4. ASSUME NEW k \in FramesOf(f) PROVE k \in FramesOf(f \o w)
  <2>1. PICK i \in 1 .. Len(f) : f[i][1] = k
    BY FrameNumbers
  <2>2. i \in 1 .. Len(f \o w) /\ (f \o w)[i][1] = k
    BY <1>1, <1>2, <2>1
  <2>3. QED
    BY <1>1, <2>2, FrameNumbers
<1>5. ASSUME NEW k \in FramesOf(w) PROVE k \in FramesOf(f \o w)
  <2>1. PICK i \in 1 .. Len(w) : w[i][1] = k
    BY FrameNumbers
  <2>2. Len(f) + i \in 1 .. Len(f \o w) /\ (f \o w)[Len(f) + i][1] = k
    BY <1>1, <1>2, <2>1
  <2>3. QED
    BY <1>1, <2>2, FrameNumbers
<1>6. QED
  BY <1>3, <1>4, <1>5

LEMMA SkipStep ==
    ASSUME TypeOK, StreamInv, ReadInv, NothingSkipped, [Next]_vars
    PROVE  NothingSkipped'
<1>1. sent \in Seq(Nat) /\ Len(sent) \in Nat /\ DOMAIN sent = 1 .. Len(sent)
  BY Types
<1>2. \A k \in 1 .. Len(sent) : Accounted(k)
  BY <1>1 DEF NothingSkipped, Accounted
<1>3. Pending = FramesOf(Stream) /\ Pending' = FramesOf(Stream')
  <2>1. Pending = FramesOf(Stream)
    BY Types, InTwoParts DEF Pending, Stream
  <2>2. Flat' \in Seq(Byte) /\ wire' \in Seq(Byte)
    <3>1. TypeOK'
      BY TypeStep
    <3>2. blocks' \in Seq(Seq(Byte)) /\ wire' \in Seq(Byte)
      BY <3>1 DEF TypeOK
    <3>3. FlattenSeq(blocks') \in Seq(Byte)
      BY <3>2, FlattenType
    <3>4. QED
      BY <3>2, <3>3 DEF Flat
  <2>3. FramesOf(Flat' \o wire') = FramesOf(Flat') \cup FramesOf(wire')
    BY <2>2, InTwoParts
  <2>4. Pending' = FramesOf(wire') \cup FramesOf(Flat')
    BY DEF Pending, FramesOf, ToSet
  <2>5. QED
    BY <2>1, <2>3, <2>4 DEF Stream
<1>4. ASSUME UNCHANGED sent, \A k \in 1 .. Len(sent) : Accounted(k)' PROVE NothingSkipped'
  BY <1>1, <1>4 DEF NothingSkipped, Accounted
<1>5. CASE RecvByte \/ \/ PeerCloses \/ BeginRead \/ RecvQuiet \/ BeginWrite \/ SendSome \/ SendFails
                       \/ UNCHANGED vars \/ (RecvError /\ pc = "text")
  <2>1. Stream' = Stream /\ UNCHANGED <<sent, cut, lost, got>>
    BY <1>5, ReadByte, QuietSteps DEF RecvByte, history
  <2>2. Pending' = Pending /\ Damaged' = Damaged
    BY <1>3, <2>1 DEF Damaged
  <2>3. \A k \in 1 .. Len(sent) : Accounted(k)'
    BY <1>2, <2>1, <2>2 DEF Accounted, Whole
  <2>4. QED
    BY <1>4, <2>1, <2>3
<1>6. CASE BrokerSends
  <2>1. PICK n \in Nat \ {0}, frame \in Seq(Byte), k \in Nat, m \in {0, 1} :
            /\ k = Len(sent) + 1 /\ IsFrame(frame, k, n, m)
            /\ sent' = Append(sent, n) /\ cut' = (IF m = 1 THEN cut ELSE cut \cup {k})
            /\ Stream' = Stream \o frame
    BY <1>6, BrokerAdds
  <2>2. UNCHANGED <<lost, got>> /\ cut \subseteq cut'
    BY <1>6, <2>1 DEF BrokerSends, reading
  <2>3. Pending' = Pending \cup FramesOf(frame)
    <3>1. Stream \in Seq(Byte)
      BY Types
    <3>2. FramesOf(Stream \o frame) = FramesOf(Stream) \cup FramesOf(frame)
      BY <3>1, InTwoParts
    <3>3. QED
      BY <1>3, <2>1, <3>2
  <2>4. k \in FramesOf(frame)
    <3>1. 1 \in 1 .. Len(frame) /\ frame[1][1] = k
      BY <2>1 DEF IsFrame
    <3>2. QED
      BY <3>1, FrameNumbers
  <2>5. /\ DOMAIN sent' = 1 .. Len(sent) + 1
        /\ \A i \in 1 .. Len(sent) : sent'[i] = sent[i]
    BY <1>1, <2>1
  <2>6. ASSUME NEW i \in 1 .. Len(sent) PROVE Accounted(i)'
    <3>1. Accounted(i) /\ sent'[i] = sent[i]
      BY <1>2, <2>5
    <3>2. i \in Pending => i \in Pending'
      BY <2>3
    <3>3. QED
      BY <2>2, <3>1, <3>2, StillAccounted
  <2>7. Accounted(k)'
    BY <2>3, <2>4 DEF Accounted
  <2>8. \A i \in DOMAIN sent' : i \in 1 .. Len(sent) \/ i = k
    BY <1>1, <2>1, <2>5
  <2>9. \A i \in DOMAIN sent' : Accounted(i)'
    BY <2>6, <2>7, <2>8
  <2>10. QED
    BY <2>9 DEF NothingSkipped, Accounted
<1>7. CASE PeerResets \/ RecvEof \/ Connect \/ (RecvError /\ pc = "newline")
  <2>1. UNCHANGED <<sent, cut>>
    BY <1>7 DEF PeerResets, RecvEof, Connect, RecvError, history
  <2>2. lost \subseteq lost' /\ Pending \subseteq Pending' \cup lost'
    <3>1. CASE PeerResets
      <4>1. Flat' = Flat /\ lost' = lost \cup FramesOf(wire)
        BY <3>1 DEF PeerResets, reading, Flat
      <4>2. QED
        BY <4>1 DEF Pending
    <3>2. CASE RecvEof \/ (RecvError /\ pc = "newline")
      <4>1. wire = <<>> /\ lost' = lost \cup FramesOf(Flat)
        BY <3>2 DEF RecvEof, RecvError, ReadInv
      <4>2. FramesOf(<<>>) = {}
        BY DEF FramesOf, ToSet
      <4>3. QED
        BY <4>1, <4>2 DEF Pending
    <3>3. CASE Connect
      <4>1. Flat = <<>> /\ lost' = lost \cup FramesOf(wire)
        BY <3>3, NothingRead DEF Connect, ReadInv
      <4>2. FramesOf(<<>>) = {}
        BY DEF FramesOf, ToSet
      <4>3. QED
        BY <4>1, <4>2 DEF Pending
    <3>4. QED
      BY <1>7, <3>1, <3>2, <3>3
  <2>3. got' = got \/ got' = Append(got, Flat)
    BY <1>7, Returned DEF PeerResets, RecvEof, Connect, RecvError, reading
  <2>4. ASSUME NEW k \in 1 .. Len(sent) PROVE Accounted(k)'
    <3>1. Accounted(k) /\ sent'[k] = sent[k] /\ cut \subseteq cut'
          /\ (k \in Pending => k \in Pending' \cup Damaged' \cup lost')
      BY <1>2, <2>1, <2>2
    <3>2. QED
      BY <2>2, <2>3, <3>1, StillAccounted
  <2>5. QED
    BY <1>4, <2>1, <2>4
<1>8. CASE RecvNewline \/ RecvOther \/ RecvStall
  <2>1. UNCHANGED sent
    BY <1>8 DEF RecvNewline, RecvOther, RecvStall
  <2>2. \A k \in 1 .. Len(sent) : Accounted(k)'
    BY <1>2, <1>8, TakenAccounted
  <2>3. QED
    BY <1>4, <2>1, <2>2
<1>9. QED
  BY <1>5, <1>6, <1>7, <1>8, Steps

-----------------------------------------------------------------------------
FramesInv == TypeOK /\ StreamInv /\ ReadInv /\ GotInv /\ DamageContained /\ NothingSkipped

LEMMA FramesCorrect == Spec => []FramesInv
<1>1. Init => FramesInv
  <2> SUFFICES ASSUME Init PROVE FramesInv
    OBVIOUS
  <2>1. StreamInv /\ ReadInv /\ GotInv
    BY StreamInit
  <2>2. DOMAIN <<>> = {} /\ \A A : <<>> \in Seq(A)
    OBVIOUS
  <2>3. TypeOK
    BY <2>2, SizeAssumption DEF Init, TypeOK
  <2>4. DamageContained /\ NothingSkipped
    BY <2>2 DEF Init, DamageContained, NothingSkipped
  <2>5. QED
    BY <2>1, <2>3, <2>4 DEF FramesInv
<1>2. FramesInv /\ [Next]_vars => FramesInv'
  BY TypeStep, StreamStep, ReadStep, GotStep, DamageStep, SkipStep DEF FramesInv
<1>3. QED
  BY <1>1, <1>2, PTL DEF Spec

(* Every variable holds a value of its type (stomp.c).                     *)
THEOREM FramesTyped == Spec => []TypeOK
<1>1. FramesInv => TypeOK
  BY DEF FramesInv
<1>2. QED
  BY <1>1, FramesCorrect, PTL

(* A buffer that stomp_read_buffer returns is the text of one frame, whole *)
(* and in the order sent, whatever the sizes of frames and blocks and      *)
(* however many reads time out and connections fail: one cut damages its   *)
(* frame and at most the next one, and a message is always whole and never *)
(* read twice or out of order.                                             *)
THEOREM DamageStaysContained == Spec => []DamageContained
<1>1. FramesInv => DamageContained
  BY DEF FramesInv
<1>2. QED
  BY <1>1, FramesCorrect, PTL

(* Every frame the broker sent is on its way, was returned whole, is       *)
(* damaged by a cut or went down with a connection                         *)
(* (stomp_read_buffer, stomp_disconnect).                                  *)
THEOREM NoFrameSkipped == Spec => []NothingSkipped
<1>1. FramesInv => NothingSkipped
  BY DEF FramesInv
<1>2. QED
  BY <1>1, FramesCorrect, PTL
=============================================================================
