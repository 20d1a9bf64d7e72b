----------------------- MODULE SharedBacktraceProofs -----------------------
(***************************************************************************)
(* Proofs about SharedBacktrace for any number of threads and backtraces,  *)
(* any stacks, and any width of the word.                                  *)
(***************************************************************************)
EXTENDS SharedBacktrace, WellFoundedInduction, TLAPS

(* A backtrace in use is a capture, or a clone of one, of a known stack.   *)
FromCapture ==
  \A b \in InUse :
    /\ taken[b] \in [stack : Stacks, skip : Skips]
    /\ \E g \in [1..Depth(taken[b].stack, taken[b].skip) -> Garbage] :
         backtrace[b].frames = Copied(taken[b].stack, taken[b].skip, g)

(* A thread in a call works on a backtrace in use, and the loop on a frame *)
(* that exists.                                                            *)
CallsInUse ==
  \A t \in Threads :
    /\ pc[t] # "idle" => target[t] \in InUse
    /\ pc[t] \in {"loop", "add"} => i[t] \in Nat \ {0}
    /\ pc[t] = "add" => InLoop(t)

IInv == TypeOK /\ FromCapture /\ CallsInUse

(* What the two histories record.                                          *)
RacesAreSeen ==
  /\ \A b \in Backtraces \ raced : ~Contended(b)
  /\ \A t \in Threads \ torn : ~Tears(t)

(* The multiplier of frame n, and the hash of the first m frames.          *)
MultAt(n) == IF n <= Significant THEN Power[n - 1] % Word ELSE 0

HashUpTo(frames, m) ==
  Exact(frames)[IF m > Significant THEN Significant ELSE m] % Word

(* What a thread in the loop has added up: it is in the register, or in    *)
(* memory between two rounds of the build that goes to memory.             *)
SoFar(t) ==
  IF inRegister \/ pc[t] = "add" THEN sum[t] ELSE backtrace[target[t]].hash

(* What a call knows, step by step.  A sum in memory is trusted, and the   *)
(* flag known to be up, while nobody else has computed it too.             *)
CallRight(t) ==
  LET x == backtrace[target[t]]
  IN /\ pc[t] = "idle" => i[t] = 0 /\ copy[t] = NoCopy
     /\ Computing(t) /\ ~inRegister /\ target[t] \notin raced => x.hashIsNotValid = 1
     /\ pc[t] \in {"loop", "add"} /\ (inRegister \/ target[t] \notin raced) =>
          /\ i[t] <= Len(x.frames) + 1 /\ unMult[t] = MultAt(i[t])
          /\ SoFar(t) = HashUpTo(x.frames, i[t] - 1)
     /\ pc[t] = "store" => x.hashIsNotValid = 0 /\ sum[t] = HashOf(x.frames)
     /\ pc[t] = "lower" => x.hash = HashOf(x.frames) /\ sum[t] = HashOf(x.frames)
     /\ pc[t] \in {"store", "lower"} => inRegister
     /\ pc[t] = "answer" =>
          x.hashIsNotValid = 0 /\ (inRegister /\ i[t] > 0 => sum[t] = HashOf(x.frames))
     /\ pc[t] = "clone" /\ t \notin torn =>
          \A member \in DOMAIN NoCopy : copy[t][member] \in {NotYet, x[member]}

(* A hash that claims to be valid is, but for a race or a store to come.   *)
ValidIsRight(b) ==
  b \in InUse \ raced /\ backtrace[b].hashIsNotValid = 0 /\ ~StoreToCome(b) =>
    backtrace[b].hash = HashOf(backtrace[b].frames)

AllRight == (\A b \in Backtraces : ValidIsRight(b)) /\ \A t \in Threads : CallRight(t)

HashInv == RacesAreSeen /\ AllRight

ThreadStep(t) ==
  \/ Clear(t) \/ Load(t) \/ Add(t) \/ Store(t) \/ Lower(t) \/ Answer(t) \/ CopyMember(t)
  \/ \E b \in Backtraces : Hash(t, b) \/ Clone(t, b) \/ Cloned(t, b)

LEMMA StepCases ==
  ASSUME Next
  PROVE  /\ UNCHANGED inRegister
         /\ raced' = raced \cup {b \in Backtraces : Contended(b)' \/ TornClone(b)}
         /\ torn' = {t \in Threads : pc'[t] = "clone" /\ (t \in torn \/ Tears(t)')}
         /\ \/ \E b \in Backtraces, s \in Stacks, k \in Skips : Capture(b, s, k)
            \/ \E t \in Threads : ThreadStep(t)
BY Zenon DEF Next, ThreadStep

-----------------------------------------------------------------------------
(* Induction in the form of sets, from the library's theorem that a set    *)
(* of natural numbers has a least element.                                 *)
LEMMA Induction ==
  ASSUME NEW S, 0 \in S, \A n \in Nat : n \in S => n + 1 \in S
  PROVE  Nat \subseteq S
<1> DEFINE T == Nat \ S
<1>1. SUFFICES ASSUME T # {} PROVE FALSE
  OBVIOUS
<1>2. T \subseteq Nat
  OBVIOUS
<1> HIDE DEF T
<1>3. PICK m \in T : \A n \in T : <<n, m>> \notin OpToRel(<, Nat)
  BY <1>1, <1>2, WFMin, NatLessThanWellFounded, Zenon
<1>4. \A n \in T : ~(n < m)
  BY <1>2, <1>3, Zenon DEF OpToRel
<1>5. m \in Nat \ {0}
  BY DEF T
<1>6. m - 1 \in Nat /\ m - 1 < m /\ (m - 1) + 1 = m
  BY <1>5
<1>7. m - 1 \notin T
  BY <1>4, <1>6
<1>8. QED
  BY <1>6, <1>7 DEF T

(* A function by recursion on 0..n exists: F gives the value at k from k   *)
(* and the value before.                                                   *)
IsRecursion(f, n, z, F) ==
  f = [k \in 0..n |-> IF k = 0 THEN z ELSE F[<<k, f[k - 1]>>]]

LEMMA RecursionExists ==
  ASSUME NEW n \in Nat, NEW V, NEW z \in V, NEW F \in [(1..n) \X V -> V]
  PROVE  \E f \in [0..n -> V] : IsRecursion(f, n, z, F)
<1> DEFINE Solves(f, m) == f[0] = z /\ \A k \in 1..m : f[k] = F[<<k, f[k - 1]>>]
           S == {m \in Nat : m <= n => \E f \in [0..m -> V] : Solves(f, m)}
<1>1. 0 \in S
  <2> DEFINE f == [k \in 0..0 |-> z]
  <2>1. f \in [0..0 -> V] /\ Solves(f, 0)
    OBVIOUS
  <2>2. QED
    BY <2>1
<1>2. ASSUME NEW m \in Nat, m \in S, m + 1 <= n
      PROVE  \E f \in [0..(m + 1) -> V] : Solves(f, m + 1)
  <2>1. PICK f \in [0..m -> V] : Solves(f, m)
    BY <1>2
  <2> DEFINE g == [k \in 0..(m + 1) |-> IF k = m + 1 THEN F[<<m + 1, f[m]>>] ELSE f[k]]
  <2>2. F[<<m + 1, f[m]>>] \in V
    <3>1. m + 1 \in 1..n /\ f[m] \in V
      BY <1>2
    <3>2. QED
      BY <3>1
  <2>3. g \in [0..(m + 1) -> V]
    BY <2>2
  <2>4. g[0] = z
    BY <2>1
  <2>5. \A k \in 1..(m + 1) : g[k] = F[<<k, g[k - 1]>>]
    <3> SUFFICES ASSUME NEW k \in 1..(m + 1) PROVE g[k] = F[<<k, g[k - 1]>>]
      OBVIOUS
    <3>1. k - 1 \in 0..m /\ k \in 0..(m + 1) /\ k - 1 \in 0..(m + 1) /\ k - 1 # m + 1
      OBVIOUS
    <3>2. g[k - 1] = f[k - 1]
      BY <3>1
    <3>3. CASE k = m + 1
      <4>1. k - 1 = m
        BY <3>3
      <4>2. QED
        BY <3>1, <3>2, <3>3, <4>1
    <3>4. CASE k # m + 1
      <4>1. k \in 1..m /\ g[k] = f[k]
        BY <3>1, <3>4
      <4>2. f[k] = F[<<k, f[k - 1]>>]
        BY <2>1, <4>1
      <4>3. QED
        BY <3>2, <4>1, <4>2
    <3>5. QED
      BY <3>3, <3>4
  <2>6. Solves(g, m + 1)
    BY <2>4, <2>5
  <2>7. QED
    BY <2>3, <2>6
<1>3. n \in S
  <2>1. \A m \in Nat : m \in S => m + 1 \in S
    BY <1>2
  <2> HIDE DEF S
  <2>2. QED
    BY <1>1, <2>1, Induction
<1>4. PICK f \in [0..n -> V] : Solves(f, n)
  BY <1>3
<1>5. f = [k \in 0..n |-> IF k = 0 THEN z ELSE F[<<k, f[k - 1]>>]]
  <2>1. \A k \in 0..n : f[k] = IF k = 0 THEN z ELSE F[<<k, f[k - 1]>>]
    BY <1>4
  <2>2. f = [k \in 0..n |-> f[k]]
    OBVIOUS
  <2> HIDE DEF Solves
  <2>3. QED
    BY <2>1, <2>2
<1>6. QED
  BY <1>5 DEF IsRecursion

(* What holds at 0 and is handed on from k - 1 to k holds up to n.         *)
LEMMA HandedOn ==
  ASSUME NEW n \in Nat, NEW V, NEW f, f[0] \in V, \A k \in 1..n : f[k - 1] \in V => f[k] \in V
  PROVE  \A k \in 0..n : f[k] \in V
<1> DEFINE S == {m \in Nat : m <= n => f[m] \in V}
<1>1. 0 \in S
  OBVIOUS
<1>2. ASSUME NEW m \in Nat, m \in S PROVE m + 1 \in S
  <2>1. ASSUME m + 1 <= n PROVE f[m + 1] \in V
    <3>1. m + 1 \in 1..n /\ (m + 1) - 1 = m /\ f[m] \in V
      BY <1>2, <2>1
    <3>2. QED
      BY <3>1
  <2>2. QED
    BY <2>1
<1>3. Nat \subseteq S
  <2> HIDE DEF S
  <2>1. QED
    BY <1>1, <1>2, Induction
<1>4. QED
  BY <1>3

-----------------------------------------------------------------------------
LEMMA PowerFacts ==
  /\ Significant \in Nat /\ Significant >= 1
  /\ Power \in [0..Significant -> Nat] /\ Power[0] = 1
  /\ \A k \in 1..Significant : Power[k] = Power[k - 1] * Multiplier
<1>1. Significant \in Nat /\ Multiplier \in Nat
  BY BoundsAssumption
<1> DEFINE F == [p \in (1..Significant) \X Nat |-> p[2] * Multiplier]
           Def(f) == [k \in 0..Significant |-> IF k = 0 THEN 1 ELSE f[k - 1] * Multiplier]
<1>2. F \in [(1..Significant) \X Nat -> Nat]
  BY <1>1
<1>3. PICK f \in [0..Significant -> Nat] : IsRecursion(f, Significant, 1, F)
  <2>1. 1 \in Nat
    OBVIOUS
  <2> HIDE DEF F
  <2>2. QED
    BY <1>1, <1>2, <2>1, RecursionExists, Zenon
<1>4. f = Def(f)
  <2>1. \A k \in 1..Significant : k - 1 \in 0..Significant
    BY <1>1
  <2>2. \A k \in 1..Significant : F[<<k, f[k - 1]>>] = f[k - 1] * Multiplier
    BY <2>1
  <2> HIDE DEF F
  <2>3. \A k \in 0..Significant : k # 0 => k \in 1..Significant
    BY <1>1
  <2>4. QED
    BY <1>3, <2>2, <2>3 DEF IsRecursion
<1>5. Power = Def(Power)
  BY <1>4 DEF Power
<1> HIDE DEF F
<1>6. \A k \in 1..Significant : Power[k] = Power[k - 1] * Multiplier
  BY <1>1, <1>5
<1>7. Power[0] = 1
  BY <1>1, <1>5
<1>8. \A k \in 0..Significant : Power[k] \in Nat
  <2>1. Power[0] \in Nat /\ \A k \in 1..Significant : Power[k - 1] \in Nat => Power[k] \in Nat
    BY <1>1, <1>6, <1>7
  <2>2. QED
    BY <1>1, <2>1, HandedOn, Zenon
<1>9. Power \in [0..Significant -> Nat]
  BY <1>5, <1>8
<1>10. Significant # 0
  <2>1. ASSUME Significant = 0 PROVE FALSE
    BY <2>1, <1>7, SignificantAssumption, BoundsAssumption
  <2>2. QED
    BY <2>1
<1>11. QED
  BY <1>1, <1>6, <1>7, <1>9, <1>10

LEMMA ExactFacts ==
  ASSUME NEW frames \in Seq(Words)
  PROVE  /\ Counted(frames) \in 0..Len(frames) /\ Counted(frames) <= Significant
         /\ Exact(frames)[0] = 0
         /\ \A k \in 0..Counted(frames) : Exact(frames)[k] \in Nat
         /\ \A k \in 1..Counted(frames) :
              Exact(frames)[k] = Exact(frames)[k - 1] + frames[k] * Power[k - 1]
<1> DEFINE n == Counted(frames)
           F == [p \in (1..n) \X Nat |-> p[2] + frames[p[1]] * Power[p[1] - 1]]
           Def(f) == [k \in 0..n |-> IF k = 0 THEN 0 ELSE f[k - 1] + frames[k] * Power[k - 1]]
<1>1. n \in Nat /\ n \in 0..Len(frames) /\ n <= Significant
  BY PowerFacts DEF Counted
<1>2. \A k \in 1..n : frames[k] \in Nat /\ Power[k - 1] \in Nat /\ frames[k] * Power[k - 1] \in Nat
  <2> SUFFICES ASSUME NEW k \in 1..n
               PROVE  frames[k] \in Nat /\ Power[k - 1] \in Nat /\ frames[k] * Power[k - 1] \in Nat
    OBVIOUS
  <2> HIDE DEF n
  <2>1. k \in 1..Len(frames) /\ k - 1 \in 0..Significant
    BY <1>1, PowerFacts
  <2>2. frames[k] \in Nat
    BY <2>1, BoundsAssumption DEF Words
  <2>3. Power[k - 1] \in Nat
    BY <2>1, PowerFacts
  <2>4. QED
    BY <2>2, <2>3
<1> HIDE DEF n
<1>3. F \in [(1..n) \X Nat -> Nat]
  <2>1. ASSUME NEW p \in (1..n) \X Nat
        PROVE  p[2] + frames[p[1]] * Power[p[1] - 1] \in Nat
    <3>1. p[1] \in 1..n /\ p[2] \in Nat
      OBVIOUS
    <3>2. frames[p[1]] * Power[p[1] - 1] \in Nat
      BY <1>2, <3>1
    <3>3. QED
      BY <3>1, <3>2
  <2>2. QED
    BY <2>1
<1>4. PICK f \in [0..n -> Nat] : IsRecursion(f, n, 0, F)
  <2>1. 0 \in Nat
    OBVIOUS
  <2> HIDE DEF F
  <2>2. QED
    BY <1>1, <1>3, <2>1, RecursionExists, Zenon
<1>5. f = Def(f)
  <2>1. \A k \in 1..n : k - 1 \in 0..n
    BY <1>1
  <2>2. \A k \in 1..n : F[<<k, f[k - 1]>>] = f[k - 1] + frames[k] * Power[k - 1]
    BY <2>1
  <2> HIDE DEF F
  <2>3. \A k \in 0..n : k # 0 => k \in 1..n
    BY <1>1
  <2>4. QED
    BY <1>4, <2>2, <2>3 DEF IsRecursion
<1> DEFINE e == Exact(frames)
<1>6. e = Def(e)
  BY <1>5 DEF Exact, n
<1> HIDE DEF F, e
<1>7. \A k \in 1..n : e[k] = e[k - 1] + frames[k] * Power[k - 1]
  BY <1>1, <1>6
<1>8. e[0] = 0
  BY <1>1, <1>6
<1>9. \A k \in 0..n : e[k] \in Nat
  <2>1. e[0] \in Nat /\ \A k \in 1..n : e[k - 1] \in Nat => e[k] \in Nat
    BY <1>2, <1>7, <1>8
  <2>2. QED
    BY <1>1, <2>1, HandedOn, Zenon
<1>10. QED
  BY <1>1, <1>7, <1>8, <1>9 DEF n, e

-----------------------------------------------------------------------------
(* A remainder is told from the others by its range.                       *)
LEMMA ModUnique ==
  ASSUME NEW q \in Int, NEW r \in Words
  PROVE  (Word * q + r) % Word = r
BY BoundsAssumption DEF Words

LEMMA ModSplits ==
  ASSUME NEW a \in Int
  PROVE  \E q \in Int : a = Word * q + (a % Word)
<1> DEFINE r == a % Word
           q == (a - r) \div Word
<1>1. Word \in Nat /\ Word > 0 /\ r \in Int
  BY BoundsAssumption
<1>2. a - r = Word * q
  BY <1>1
<1>3. q \in Int
  <2>1. a - r \in Int
    BY <1>1
  <2> HIDE DEF r
  <2>2. QED
    BY <1>1, <2>1
<1> HIDE DEF q, r
<1>4. Word * q \in Int
  BY <1>1, <1>3
<1>5. a = Word * q + r
  BY <1>1, <1>2, <1>4
<1>6. QED
  BY <1>3, <1>5 DEF r

(* Sums and products may be cut to a word at any time.                     *)
LEMMA ModSum ==
  ASSUME NEW a \in Int, NEW b \in Int
  PROVE  ((a % Word) + b) % Word = (a + b) % Word
<1> DEFINE r == a % Word
           s == (r + b) % Word
<1>1. Word \in Int /\ r \in Int /\ r + b \in Int
  BY BoundsAssumption
<1>2. s \in Words
  <2> HIDE DEF r
  <2>1. QED
    BY <1>1, BoundsAssumption DEF Words
<1>3. PICK q \in Int : a = Word * q + r
  BY ModSplits
<1>4. PICK p \in Int : r + b = Word * p + s
  <2> HIDE DEF r
  <2>1. QED
    BY <1>1, ModSplits
<1> HIDE DEF r, s
<1>5. Word * q \in Int /\ Word * p \in Int /\ Word * (q + p) = Word * q + Word * p /\ s \in Int
  BY <1>1, <1>2, BoundsAssumption DEF Words
<1>6. a + b = Word * (q + p) + s
  BY <1>1, <1>3, <1>4, <1>5
<1>7. q + p \in Int
  OBVIOUS
<1>8. (a + b) % Word = s
  BY <1>2, <1>6, <1>7, ModUnique
<1>9. QED
  BY <1>8 DEF s, r

LEMMA ModProduct ==
  ASSUME NEW a \in Int, NEW b \in Int
  PROVE  ((a % Word) * b) % Word = (a * b) % Word
<1> DEFINE r == a % Word
           s == (r * b) % Word
<1>1. Word \in Int /\ r \in Int /\ r * b \in Int
  BY BoundsAssumption
<1>2. s \in Words
  <2> HIDE DEF r
  <2>1. QED
    BY <1>1, BoundsAssumption DEF Words
<1>3. PICK q \in Int : a = Word * q + r
  BY ModSplits
<1>4. PICK p \in Int : r * b = Word * p + s
  <2> HIDE DEF r
  <2>1. QED
    BY <1>1, ModSplits
<1> HIDE DEF r, s
<1>5. Word * q \in Int /\ Word * p \in Int /\ q * b \in Int /\ q * b + p \in Int /\ s \in Int
  BY <1>1, <1>2, BoundsAssumption DEF Words
<1>6. a * b = (Word * q) * b + r * b
  BY <1>1, <1>3, <1>5
<1>7. (Word * q) * b = Word * (q * b)
  BY <1>1
<1>8. Word * (q * b + p) = Word * (q * b) + Word * p /\ Word * (q * b) \in Int
  BY <1>1, <1>5
<1>9. a * b = Word * (q * b + p) + s
  <2> DEFINE x == Word * (q * b)
             y == Word * p
             z == Word * (q * b + p)
             u == r * b
  <2>1. a * b = x + u /\ u = y + s /\ z = x + y /\ x \in Int /\ y \in Int /\ s \in Int
    BY <1>4, <1>5, <1>6, <1>7, <1>8
  <2> HIDE DEF x, y, z, u
  <2>2. a * b = z + s
    BY <2>1
  <2>3. QED
    BY <2>2 DEF z
<1>10. (a * b) % Word = s
  BY <1>2, <1>5, <1>9, ModUnique
<1>11. QED
  BY <1>10 DEF s, r

LEMMA AccumulatedIs ==
  ASSUME NEW a \in Int, NEW f \in Int, NEW p \in Int
  PROVE  Accumulated(a % Word, f, p % Word) = (a + f * p) % Word
<1> DEFINE b == (p % Word) * f
           c == p * f
<1>1. b \in Int /\ c \in Int /\ b = f * (p % Word) /\ c = f * p
  <2>1. p % Word \in Int
    BY BoundsAssumption
  <2>2. QED
    BY <2>1
<1>2. b % Word = c % Word
  BY ModProduct
<1>3. Accumulated(a % Word, f, p % Word) = ((a % Word) + b) % Word
  BY <1>1 DEF Accumulated
<1> HIDE DEF b, c
<1>4. ((a % Word) + b) % Word = (a + b) % Word
  BY <1>1, ModSum
<1>5. ((b % Word) + a) % Word = (b + a) % Word /\ ((c % Word) + a) % Word = (c + a) % Word
  BY <1>1, ModSum
<1>6. a + b = b + a /\ a + f * p = c + a
  BY <1>1
<1>7. QED
  BY <1>2, <1>3, <1>4, <1>5, <1>6

(* The loop of the hash: how it begins, a round, and how it ends.          *)
LEMMA LoopBegins ==
  ASSUME NEW frames \in Seq(Words)
  PROVE  HashUpTo(frames, 0) = 0 /\ MultAt(1) = 1
<1>1. HashUpTo(frames, 0) = 0 % Word
  BY PowerFacts, ExactFacts DEF HashUpTo
<1>2. MultAt(1) = 1 % Word
  BY PowerFacts DEF MultAt
<1>3. QED
  BY <1>1, <1>2, BoundsAssumption

LEMMA RoundMultiplies ==
  ASSUME NEW n \in Nat \ {0}
  PROVE  NextMult(MultAt(n)) = MultAt(n + 1)
<1>1. CASE n <= Significant
  <2>1. n - 1 \in 0..Significant /\ n \in 1..Significant
    BY <1>1, PowerFacts
  <2>2. Power[n - 1] \in Int /\ Power[n] = Power[n - 1] * Multiplier
    BY <2>1, PowerFacts
  <2>3. NextMult(MultAt(n)) = Power[n] % Word
    <3>1. NextMult(MultAt(n)) = ((Power[n - 1] % Word) * Multiplier) % Word
      BY <1>1 DEF NextMult, MultAt
    <3>2. Multiplier \in Int
      BY BoundsAssumption
    <3>3. QED
      BY <2>2, <3>1, <3>2, ModProduct
  <2>4. CASE n = Significant
    BY <2>3, <2>4, PowerFacts, SignificantAssumption DEF MultAt
  <2>5. CASE n # Significant
    <3>1. n + 1 <= Significant /\ (n + 1) - 1 = n
      BY <1>1, <2>5, PowerFacts
    <3>2. QED
      BY <2>3, <3>1 DEF MultAt
  <2>6. QED
    BY <2>4, <2>5
<1>2. CASE ~(n <= Significant)
  <2>1. MultAt(n) = 0 /\ MultAt(n + 1) = 0
    BY <1>2, PowerFacts DEF MultAt
  <2>2. QED
    BY <2>1, BoundsAssumption DEF NextMult
<1>3. QED
  BY <1>1, <1>2

LEMMA RoundAdds ==
  ASSUME NEW frames \in Seq(Words), NEW n \in 1..Len(frames)
  PROVE  Accumulated(HashUpTo(frames, n - 1), frames[n], MultAt(n)) = HashUpTo(frames, n)
<1>1. n \in Nat \ {0} /\ Len(frames) \in Nat /\ frames[n] \in Int
  BY BoundsAssumption DEF Words
<1>2. CASE n <= Significant
  <2>1. n \in 1..Counted(frames) /\ n - 1 \in 0..Counted(frames)
    BY <1>1, <1>2, PowerFacts DEF Counted
  <2> DEFINE a == Exact(frames)[n - 1]
             p == Power[n - 1]
  <2>2. a \in Int
    BY <2>1, ExactFacts
  <2>3. p \in Int
    BY <1>1, <1>2, PowerFacts
  <2>4. Exact(frames)[n] = a + frames[n] * p
    BY <2>1, ExactFacts
  <2>5. HashUpTo(frames, n - 1) = a % Word /\ HashUpTo(frames, n) = Exact(frames)[n] % Word
    BY <1>1, <1>2, PowerFacts DEF HashUpTo
  <2>6. MultAt(n) = p % Word
    BY <1>2 DEF MultAt
  <2> HIDE DEF a, p
  <2>7. QED
    BY <1>1, <2>2, <2>3, <2>4, <2>5, <2>6, AccumulatedIs
<1>3. CASE ~(n <= Significant)
  <2> DEFINE a == Exact(frames)[Significant]
  <2>1. Counted(frames) = Significant
    BY <1>1, <1>3, PowerFacts DEF Counted
  <2>2. a \in Int
    BY <2>1, PowerFacts, ExactFacts
  <2>3. HashUpTo(frames, n) = a % Word
    BY <1>1, <1>3, PowerFacts DEF HashUpTo
  <2>4. HashUpTo(frames, n - 1) = a % Word
    <3>1. CASE n - 1 > Significant
      BY <3>1 DEF HashUpTo
    <3>2. CASE n - 1 = Significant
      BY <3>2, PowerFacts DEF HashUpTo
    <3>3. QED
      BY <1>1, <1>3, <3>1, <3>2, PowerFacts
  <2>5. MultAt(n) = 0 /\ 0 = 0 % Word
    BY <1>3, BoundsAssumption DEF MultAt
  <2> HIDE DEF a
  <2>6. Accumulated(a % Word, frames[n], 0 % Word) = (a + frames[n] * 0) % Word
    <3>1. 0 \in Int
      OBVIOUS
    <3>2. QED
      BY <1>1, <2>2, <3>1, AccumulatedIs, Zenon
  <2>7. a + frames[n] * 0 = a
    BY <1>1, <2>2
  <2>8. QED
    BY <2>3, <2>4, <2>5, <2>6, <2>7
<1>4. QED
  BY <1>2, <1>3

LEMMA LoopEnds ==
  ASSUME NEW frames \in Seq(Words)
  PROVE  HashUpTo(frames, Len(frames)) = HashOf(frames)
BY DEF HashUpTo, HashOf, Counted

-----------------------------------------------------------------------------
(* What is computed modulo Word is a word, and so are 0 and 1 of the code. *)
LEMMA ModIsWord ==
  ASSUME NEW x \in Int
  PROVE  x % Word \in Words
BY BoundsAssumption DEF Words

LEMMA AccumulatedIsWord ==
  ASSUME NEW h \in Words, NEW f \in Words, NEW m \in Words
  PROVE  Accumulated(h, f, m) \in Words /\ NextMult(m) \in Words
<1>1. h \in Int /\ f \in Int /\ m \in Int
  BY BoundsAssumption DEF Words
<1>2. f * m \in Int /\ m * Multiplier \in Int
  BY <1>1, BoundsAssumption
<1>3. h + f * m \in Int
  BY <1>1, <1>2
<1>4. QED
  BY <1>2, <1>3, ModIsWord DEF Accumulated, NextMult

(* The depth of a capture, and its frames, are those of a backtrace.       *)
LEMMA CopiedIsFrames ==
  ASSUME NEW s \in Stacks, NEW k \in Skips, NEW g \in [1..Depth(s, k) -> Garbage]
  PROVE  Depth(s, k) \in Nat /\ Copied(s, k, g) \in Seq(Words)
<1>1. s \in Seq(Words) /\ Len(s) \in Nat /\ k \in Int /\ MaxSymbols + k >= 0
  BY StacksAssumption, BoundsAssumption DEF Skips
<1>2. Initial(s, k) \in Nat /\ Initial(s, k) <= Len(s)
  BY <1>1, BoundsAssumption DEF Initial, CountMax
<1>3. Depth(s, k) \in Nat
  BY <1>1, <1>2 DEF Depth
<1>4. ASSUME NEW n \in 1..Depth(s, k)
      PROVE  (IF k + n \in 1..Initial(s, k) THEN s[k + n] ELSE g[n]) \in Words
  <2>1. CASE k + n \in 1..Initial(s, k)
    <3>1. k + n \in 1..Len(s)
      BY <1>1, <1>2, <1>3, <2>1
    <3>2. QED
      BY <3>1, <2>1, <1>1
  <2>2. CASE ~(k + n \in 1..Initial(s, k))
    BY <2>2, GarbageAssumption
  <2>3. QED
    BY <2>1, <2>2
<1>5. Copied(s, k, g) \in [1..Depth(s, k) -> Words]
  BY <1>4 DEF Copied
<1>6. QED
  BY <1>3, <1>5

(* A member of the backtrace at a is stored.                               *)
LEMMA StoreMember ==
  ASSUME TypeOK, FromCapture, NEW a \in InUse, NEW r \in Backtrace,
         r.frames = backtrace[a].frames,
         backtrace' = [backtrace EXCEPT ![a] = r], UNCHANGED taken
  PROVE  /\ backtrace' \in [Backtraces -> Backtrace \cup {Unused}]
         /\ InUse' = InUse
         /\ \A b \in InUse : backtrace'[b].frames = backtrace[b].frames
         /\ FromCapture'
<1> USE UnusedAssumption
<1>1. backtrace' \in [Backtraces -> Backtrace \cup {Unused}]
  BY DEF TypeOK, InUse
<1>2. InUse' = InUse
  BY DEF TypeOK, InUse
<1>3. \A b \in InUse : backtrace'[b].frames = backtrace[b].frames
  BY DEF TypeOK, InUse
<1>4. QED
  BY <1>1, <1>2, <1>3 DEF FromCapture

-----------------------------------------------------------------------------
(* A new backtrace is put at a free address.                               *)
LEMMA NewBacktrace ==
  ASSUME TypeOK, FromCapture, NEW a \in Backtraces, backtrace[a] = Unused,
         NEW r \in Backtrace, NEW origin \in [stack : Stacks, skip : Skips],
         \E g \in [1..Depth(origin.stack, origin.skip) -> Garbage] :
           r.frames = Copied(origin.stack, origin.skip, g),
         backtrace' = [backtrace EXCEPT ![a] = r], taken' = [taken EXCEPT ![a] = origin]
  PROVE  /\ backtrace' \in [Backtraces -> Backtrace \cup {Unused}]
         /\ taken' \in [Backtraces -> [stack : Stacks, skip : Skips] \cup {Unused}]
         /\ InUse' = InUse \cup {a} /\ a \notin InUse
         /\ \A b \in InUse : backtrace'[b] = backtrace[b]
         /\ FromCapture'
<1> USE UnusedAssumption
<1>1. /\ backtrace' \in [Backtraces -> Backtrace \cup {Unused}]
      /\ taken' \in [Backtraces -> [stack : Stacks, skip : Skips] \cup {Unused}]
  BY DEF TypeOK
<1>2. InUse' = InUse \cup {a} /\ a \notin InUse
  BY DEF TypeOK, InUse
<1>3. \A b \in InUse : backtrace'[b] = backtrace[b] /\ taken'[b] = taken[b]
  BY <1>2 DEF TypeOK, InUse
<1>4. backtrace'[a] = r /\ taken'[a] = origin
  BY DEF TypeOK
<1>5. FromCapture'
  BY <1>2, <1>3, <1>4 DEF FromCapture
<1>6. QED
  BY <1>1, <1>2, <1>3, <1>5

(* The threads' calls are not disturbed by a step that keeps the locals    *)
(* and what is in use.                                                     *)
LEMMA CallsKept ==
  ASSUME CallsInUse, UNCHANGED <<pc, locals>>, InUse \subseteq InUse',
         \A b \in InUse : backtrace'[b].frames = backtrace[b].frames
  PROVE  CallsInUse'
BY DEF CallsInUse, locals, InLoop

LEMMA CaptureStep ==
  ASSUME IInv, NEW b \in Backtraces, NEW s \in Stacks, NEW k \in Skips, Capture(b, s, k),
         UNCHANGED inRegister, raced' \subseteq Backtraces, torn' \subseteq Threads
  PROVE  IInv'
<1>1. PICK h \in Garbage, g \in [1..Depth(s, k) -> Garbage] :
        backtrace' = [backtrace EXCEPT
          ![b] = [frames |-> Copied(s, k, g), hash |-> h, hashIsNotValid |-> 1]]
  BY DEF Capture
<1> DEFINE r == [frames |-> Copied(s, k, g), hash |-> h, hashIsNotValid |-> 1]
           origin == [stack |-> s, skip |-> k]
<1>2. r \in Backtrace
  BY CopiedIsFrames, GarbageAssumption DEF Backtrace
<1>3. origin \in [stack : Stacks, skip : Skips]
  OBVIOUS
<1>4. \E g1 \in [1..Depth(origin.stack, origin.skip) -> Garbage] :
        r.frames = Copied(origin.stack, origin.skip, g1)
  OBVIOUS
<1>5. backtrace[b] = Unused /\ taken' = [taken EXCEPT ![b] = origin] /\ UNCHANGED <<pc, locals>>
  BY DEF Capture
<1> HIDE DEF r, origin
<1>6. backtrace' = [backtrace EXCEPT ![b] = r]
  BY <1>1 DEF r
<1>7. /\ backtrace' \in [Backtraces -> Backtrace \cup {Unused}]
      /\ taken' \in [Backtraces -> [stack : Stacks, skip : Skips] \cup {Unused}]
      /\ InUse' = InUse \cup {b}
      /\ \A c \in InUse : backtrace'[c] = backtrace[c]
      /\ FromCapture'
  BY <1>2, <1>3, <1>4, <1>5, <1>6, NewBacktrace DEF IInv
<1>8. TypeOK'
  BY <1>5, <1>7 DEF IInv, TypeOK, locals
<1>9. CallsInUse'
  BY <1>5, <1>7, CallsKept DEF IInv
<1>10. QED
  BY <1>7, <1>8, <1>9 DEF IInv
(* What is known of a thread that works on a backtrace.                    *)
LEMMA AtWork ==
  ASSUME IInv, NEW t \in Threads, pc[t] # "idle"
  PROVE  /\ target[t] \in Backtraces /\ target[t] \in InUse
         /\ backtrace[target[t]] \in Backtrace
         /\ Len(backtrace[target[t]].frames) \in Nat
         /\ \A n \in 1..Len(backtrace[target[t]].frames) : backtrace[target[t]].frames[n] \in Words
         /\ taken[target[t]] \in [stack : Stacks, skip : Skips]
<1>1. target[t] \in InUse /\ target[t] \in Backtraces
  BY DEF IInv, CallsInUse, InUse
<1>2. backtrace[target[t]] \in Backtrace
  BY <1>1 DEF IInv, TypeOK, InUse
<1>3. backtrace[target[t]].frames \in Seq(Words)
  BY <1>2 DEF Backtrace
<1>4. taken[target[t]] \in [stack : Stacks, skip : Skips]
  BY <1>1 DEF IInv, FromCapture
<1>5. QED
  BY <1>1, <1>2, <1>3, <1>4

LEMMA HashStep ==
  ASSUME IInv, NEW t \in Threads, NEW b \in Backtraces, Hash(t, b) \/ Clone(t, b),
         UNCHANGED inRegister, raced' \subseteq Backtraces, torn' \subseteq Threads
  PROVE  IInv'
<1>1. UNCHANGED <<taken, backtrace, i>> /\ b \in InUse
  BY DEF Hash, Clone, InUse
<1>2. TypeOK'
  BY DEF IInv, TypeOK, Hash, Clone
<1>3. FromCapture'
  BY <1>1 DEF IInv, FromCapture, InUse
<1>4. /\ target' = [target EXCEPT ![t] = b]
      /\ pc'[t] \in {"clear", "answer", "clone"} /\ \A u \in Threads : u # t => pc'[u] = pc[u]
  BY DEF IInv, TypeOK, Hash, Clone
<1>5. CallsInUse'
  BY <1>1, <1>4 DEF IInv, TypeOK, CallsInUse, InUse, InLoop
<1>6. QED
  BY <1>2, <1>3, <1>5 DEF IInv

LEMMA ClearStep ==
  ASSUME IInv, NEW t \in Threads, Clear(t), UNCHANGED inRegister,
         raced' \subseteq Backtraces, torn' \subseteq Threads
  PROVE  IInv'
<1> DEFINE a == target[t]
           r == IF inRegister THEN backtrace[a] ELSE [backtrace[a] EXCEPT !.hash = 0]
<1>1. a \in Backtraces /\ a \in InUse /\ backtrace[a] \in Backtrace
  BY AtWork DEF Clear
<1>2. r \in Backtrace /\ r.frames = backtrace[a].frames
  BY <1>1, BoundsAssumption DEF Backtrace, Words
<1>3. backtrace' = [backtrace EXCEPT ![a] = r] /\ UNCHANGED <<taken, target, copy>>
  BY <1>1 DEF Clear, IInv, TypeOK
<1>4. /\ backtrace' \in [Backtraces -> Backtrace \cup {Unused}] /\ InUse' = InUse
      /\ \A b \in InUse : backtrace'[b].frames = backtrace[b].frames
      /\ FromCapture'
  <2> HIDE DEF r
  <2>1. QED
    BY <1>1, <1>2, <1>3, StoreMember DEF IInv
<1>5. /\ pc' = [pc EXCEPT ![t] = "loop"] /\ i' = [i EXCEPT ![t] = 1]
      /\ unMult' = [unMult EXCEPT ![t] = 1] /\ sum' = [sum EXCEPT ![t] = 0]
  BY DEF Clear
<1> HIDE DEF r, a
<1>6. 0 \in Words /\ 1 \in Words
  BY BoundsAssumption DEF Words
<1>7. TypeOK'
  BY <1>3, <1>4, <1>5, <1>6 DEF IInv, TypeOK
<1>8. CallsInUse'
  <2>1. pc[t] # "idle"
    BY DEF Clear
  <2>2. QED
    BY <2>1, <1>3, <1>4, <1>5 DEF IInv, TypeOK, CallsInUse, InLoop
<1>9. QED
  BY <1>4, <1>7, <1>8 DEF IInv

LEMMA LoadStep ==
  ASSUME IInv, NEW t \in Threads, Load(t), UNCHANGED inRegister,
         raced' \subseteq Backtraces, torn' \subseteq Threads
  PROVE  IInv'
<1>1. backtrace[target[t]] \in Backtrace
  BY AtWork DEF Load
<1>2. TypeOK'
  BY <1>1 DEF IInv, TypeOK, Load, Backtrace
<1>3. FromCapture'
  BY DEF IInv, FromCapture, InUse, Load
<1>4. CallsInUse'
  BY DEF IInv, TypeOK, CallsInUse, InUse, InLoop, Load
<1>5. QED
  BY <1>2, <1>3, <1>4 DEF IInv

LEMMA AddStep ==
  ASSUME IInv, NEW t \in Threads, Add(t), UNCHANGED inRegister,
         raced' \subseteq Backtraces, torn' \subseteq Threads
  PROVE  IInv'
<1> DEFINE a == target[t]
           w == Accumulated(sum[t], backtrace[a].frames[i[t]], unMult[t])
           r == IF inRegister THEN backtrace[a] ELSE [backtrace[a] EXCEPT !.hash = w]
<1>1. /\ a \in Backtraces /\ a \in InUse /\ backtrace[a] \in Backtrace
      /\ \A n \in 1..Len(backtrace[a].frames) : backtrace[a].frames[n] \in Words
      /\ Len(backtrace[a].frames) \in Nat
  BY AtWork DEF Add
<1>2. w \in Words /\ NextMult(unMult[t]) \in Words
  <2>1. i[t] \in 1..Len(backtrace[a].frames)
    BY <1>1 DEF Add, IInv, CallsInUse, InLoop
  <2>2. sum[t] \in Words /\ unMult[t] \in Words
    BY DEF IInv, TypeOK
  <2>3. QED
    BY <1>1, <2>1, <2>2, AccumulatedIsWord
<1>3. r \in Backtrace /\ r.frames = backtrace[a].frames
  <2> HIDE DEF w
  <2>1. QED
    BY <1>1, <1>2 DEF Backtrace
<1>4. sum' = [sum EXCEPT ![t] = w]
  BY DEF Add
<1>5. backtrace' = [backtrace EXCEPT ![a] = r] /\ UNCHANGED <<taken, target, copy>>
  <2>1. sum'[t] = w
    <3> HIDE DEF w
    <3>1. QED
      BY <1>4 DEF IInv, TypeOK
  <2>2. backtrace' = IF inRegister THEN backtrace ELSE [backtrace EXCEPT ![a].hash = sum'[t]]
    BY DEF Add
  <2> HIDE DEF w
  <2>3. QED
    BY <1>1, <2>1, <2>2 DEF Add, IInv, TypeOK
<1>6. /\ backtrace' \in [Backtraces -> Backtrace \cup {Unused}] /\ InUse' = InUse
      /\ \A b \in InUse : backtrace'[b].frames = backtrace[b].frames
      /\ FromCapture'
  <2> HIDE DEF r
  <2>1. QED
    BY <1>1, <1>3, <1>5, StoreMember DEF IInv
<1>7. /\ pc[t] = "add" /\ pc' = [pc EXCEPT ![t] = "loop"]
      /\ unMult' = [unMult EXCEPT ![t] = NextMult(unMult[t])]
      /\ i' = [i EXCEPT ![t] = i[t] + 1]
  BY DEF Add
<1> HIDE DEF r, w, a
<1>8. TypeOK'
  BY <1>2, <1>4, <1>5, <1>6, <1>7 DEF IInv, TypeOK
<1>9. CallsInUse'
  BY <1>5, <1>6, <1>7 DEF IInv, TypeOK, CallsInUse, InLoop
<1>10. QED
  BY <1>6, <1>8, <1>9 DEF IInv
LEMMA StoreStep ==
  ASSUME IInv, NEW t \in Threads, Store(t), UNCHANGED inRegister,
         raced' \subseteq Backtraces, torn' \subseteq Threads
  PROVE  IInv'
<1> DEFINE a == target[t]
           r == [backtrace[a] EXCEPT !.hash = sum[t]]
<1>1. a \in InUse /\ backtrace[a] \in Backtrace
  BY AtWork DEF Store
<1>2. r \in Backtrace /\ r.frames = backtrace[a].frames
  BY <1>1 DEF IInv, TypeOK, Backtrace
<1>3. backtrace' = [backtrace EXCEPT ![a] = r] /\ UNCHANGED <<taken, locals>>
  BY <1>1 DEF Store, InUse, IInv, TypeOK
<1>4. /\ backtrace' \in [Backtraces -> Backtrace \cup {Unused}] /\ InUse' = InUse
      /\ \A b \in InUse : backtrace'[b].frames = backtrace[b].frames
      /\ FromCapture'
  <2> HIDE DEF r
  <2>1. QED
    BY <1>1, <1>2, <1>3, StoreMember DEF IInv
<1>5. /\ pc[t] # "idle" /\ pc'[t] \in {"lower", "answer"}
      /\ pc' = [pc EXCEPT ![t] = pc'[t]]
  BY DEF Store, IInv, TypeOK
<1> HIDE DEF r, a
<1>6. TypeOK'
  BY <1>3, <1>4, <1>5 DEF IInv, TypeOK, locals
<1>7. CallsInUse'
  BY <1>3, <1>4, <1>5 DEF IInv, TypeOK, CallsInUse, InLoop, locals
<1>8. QED
  BY <1>4, <1>6, <1>7 DEF IInv

LEMMA LowerStep ==
  ASSUME IInv, NEW t \in Threads, Lower(t), UNCHANGED inRegister,
         raced' \subseteq Backtraces, torn' \subseteq Threads
  PROVE  IInv'
<1> DEFINE a == target[t]
           r == [backtrace[a] EXCEPT !.hashIsNotValid = 0]
<1>1. a \in InUse /\ backtrace[a] \in Backtrace
  BY AtWork DEF Lower
<1>2. r \in Backtrace /\ r.frames = backtrace[a].frames
  BY <1>1 DEF Backtrace
<1>3. backtrace' = [backtrace EXCEPT ![a] = r] /\ UNCHANGED <<taken, locals>>
  BY <1>1 DEF Lower, InUse, IInv, TypeOK
<1>4. /\ backtrace' \in [Backtraces -> Backtrace \cup {Unused}] /\ InUse' = InUse
      /\ \A b \in InUse : backtrace'[b].frames = backtrace[b].frames
      /\ FromCapture'
  <2> HIDE DEF r
  <2>1. QED
    BY <1>1, <1>2, <1>3, StoreMember DEF IInv
<1>5. /\ pc[t] # "idle" /\ pc'[t] \in {"store", "answer"}
      /\ pc' = [pc EXCEPT ![t] = pc'[t]]
  BY DEF Lower, IInv, TypeOK
<1> HIDE DEF r, a
<1>6. TypeOK'
  BY <1>3, <1>4, <1>5 DEF IInv, TypeOK, locals
<1>7. CallsInUse'
  BY <1>3, <1>4, <1>5 DEF IInv, TypeOK, CallsInUse, InLoop, locals
<1>8. QED
  BY <1>4, <1>6, <1>7 DEF IInv

LEMMA AnswerStep ==
  ASSUME IInv, NEW t \in Threads, Answer(t), UNCHANGED inRegister,
         raced' \subseteq Backtraces, torn' \subseteq Threads
  PROVE  IInv'
<1>1. 0 \in Words /\ NoCopy \in [hash : Words \cup {NotYet}, hashIsNotValid : {0, 1, NotYet}]
  BY BoundsAssumption DEF Words, NoCopy
<1>2. TypeOK'
  BY <1>1 DEF IInv, TypeOK, Answer, Return
<1>3. FromCapture'
  BY DEF IInv, FromCapture, InUse, Answer
<1>4. CallsInUse'
  BY DEF IInv, TypeOK, CallsInUse, InUse, InLoop, Answer, Return
<1>5. QED
  BY <1>2, <1>3, <1>4 DEF IInv

LEMMA CopyMemberStep ==
  ASSUME IInv, NEW t \in Threads, CopyMember(t), UNCHANGED inRegister,
         raced' \subseteq Backtraces, torn' \subseteq Threads
  PROVE  IInv'
<1>1. backtrace[target[t]] \in Backtrace
  BY AtWork DEF CopyMember
<1>2. /\ backtrace[target[t]].hash \in Words
      /\ backtrace[target[t]].hashIsNotValid \in {0, 1}
  BY <1>1 DEF Backtrace
<1>3. PICK m \in {"hash", "hashIsNotValid"} :
        copy' = [copy EXCEPT ![t] = [copy[t] EXCEPT ![m] = backtrace[target[t]][m]]]
  BY DEF CopyMember, NoCopy
<1>4. copy' \in [Threads -> [hash : Words \cup {NotYet}, hashIsNotValid : {0, 1, NotYet}]]
  <2>1. CASE m = "hash"
    BY <1>2, <1>3, <2>1 DEF IInv, TypeOK
  <2>2. CASE m = "hashIsNotValid"
    BY <1>2, <1>3, <2>2 DEF IInv, TypeOK
  <2>3. QED
    BY <2>1, <2>2
<1>5. UNCHANGED <<taken, backtrace, pc, target, i, unMult, sum>>
  BY DEF CopyMember
<1>6. TypeOK' /\ FromCapture' /\ CallsInUse'
  BY <1>4, <1>5 DEF IInv, TypeOK, FromCapture, CallsInUse, InUse, InLoop
<1>7. QED
  BY <1>6 DEF IInv

LEMMA ClonedStep ==
  ASSUME IInv, NEW t \in Threads, NEW b \in Backtraces, Cloned(t, b), UNCHANGED inRegister,
         raced' \subseteq Backtraces, torn' \subseteq Threads
  PROVE  IInv'
<1> DEFINE a == target[t]
           r == [frames |-> backtrace[a].frames,
                 hash |-> copy[t].hash, hashIsNotValid |-> copy[t].hashIsNotValid]
           origin == taken[a]
<1>1. /\ a \in InUse /\ backtrace[a] \in Backtrace
      /\ origin \in [stack : Stacks, skip : Skips]
  BY AtWork DEF Cloned
<1>2. copy[t].hash \in Words /\ copy[t].hashIsNotValid \in {0, 1}
  BY DEF Cloned, NoCopy, IInv, TypeOK
<1>3. r \in Backtrace
  BY <1>1, <1>2 DEF Backtrace
<1>4. \E g \in [1..Depth(origin.stack, origin.skip) -> Garbage] :
        r.frames = Copied(origin.stack, origin.skip, g)
  BY <1>1 DEF IInv, FromCapture
<1>5. /\ backtrace[b] = Unused /\ backtrace' = [backtrace EXCEPT ![b] = r]
      /\ taken' = [taken EXCEPT ![b] = origin] /\ Return(t)
  BY DEF Cloned
<1> HIDE DEF r, origin, a
<1>6. /\ backtrace' \in [Backtraces -> Backtrace \cup {Unused}]
      /\ taken' \in [Backtraces -> [stack : Stacks, skip : Skips] \cup {Unused}]
      /\ InUse' = InUse \cup {b}
      /\ \A c \in InUse : backtrace'[c] = backtrace[c]
      /\ FromCapture'
  BY <1>1, <1>3, <1>4, <1>5, NewBacktrace DEF IInv
<1>7. 0 \in Words /\ NoCopy \in [hash : Words \cup {NotYet}, hashIsNotValid : {0, 1, NotYet}]
  BY BoundsAssumption DEF Words, NoCopy
<1>8. TypeOK'
  BY <1>5, <1>6, <1>7 DEF IInv, TypeOK, Return
<1>9. CallsInUse'
  BY <1>5, <1>6 DEF IInv, TypeOK, CallsInUse, InLoop, Return
<1>10. QED
  BY <1>6, <1>8, <1>9 DEF IInv

THEOREM Invariance == Spec => []IInv
<1>1. Init => IInv
  <2> SUFFICES ASSUME Init PROVE IInv
    OBVIOUS
  <2>1. 0 \in Words /\ NoCopy \in [hash : Words \cup {NotYet}, hashIsNotValid : {0, 1, NotYet}]
    BY BoundsAssumption DEF Words, NoCopy
  <2>2. TypeOK
    BY <2>1 DEF Init, TypeOK
  <2>3. FromCapture /\ CallsInUse
    BY DEF Init, FromCapture, CallsInUse, InUse
  <2>4. QED
    BY <2>2, <2>3 DEF IInv
<1>2. IInv /\ [Next]_vars => IInv'
  <2> SUFFICES ASSUME IInv, [Next]_vars PROVE IInv'
    OBVIOUS
  <2>1. CASE Next
    <3>1. UNCHANGED inRegister /\ raced' \subseteq Backtraces /\ torn' \subseteq Threads
      BY <2>1, StepCases DEF IInv, TypeOK
    <3>2. CASE \E b \in Backtraces, s \in Stacks, k \in Skips : Capture(b, s, k)
      BY <3>1, <3>2, CaptureStep
    <3>3. CASE \E t \in Threads : ThreadStep(t)
      BY <3>1, <3>3, HashStep, ClearStep, LoadStep, AddStep, StoreStep, LowerStep, AnswerStep,
         CopyMemberStep, ClonedStep DEF ThreadStep
    <3>4. QED
      BY <2>1, <3>2, <3>3, StepCases
  <2>2. CASE UNCHANGED vars
    BY <2>2 DEF IInv, TypeOK, FromCapture, CallsInUse, InUse, InLoop, vars, locals
  <2>3. QED
    BY <2>1, <2>2
<1>3. QED
  BY <1>1, <1>2, PTL DEF Spec
(* Every reachable state is well typed.                                    *)
THEOREM TypeCorrect == Spec => []TypeOK
<1>1. IInv => TypeOK
  BY DEF IInv
<1>2. QED
  BY Invariance, <1>1, PTL

-----------------------------------------------------------------------------
(* A capture from a stack that is deeper than the frames to skip has the   *)
(* depth of the frames beyond them, or all it has room for.                *)
LEMMA DepthOfCaller ==
  ASSUME NEW s \in Stacks, NEW k \in Skips, k \in 0..(Len(s) - 1)
  PROVE  /\ Depth(s, k) = (IF Len(s) - k > MaxSymbols THEN MaxSymbols ELSE Len(s) - k)
         /\ k + Depth(s, k) = Initial(s, k) /\ Initial(s, k) <= Len(s)
<1>1. Len(s) \in Nat /\ k \in Nat /\ MaxSymbols \in Nat \ {0}
  BY StacksAssumption, BoundsAssumption
<1>2. QED
  BY <1>1 DEF Depth, Initial, CountMax

(* A capture holds the frames of the caller and outwards, whatever the     *)
(* stack and however many backtraces are cloned from it.                   *)
THEOREM CaptureTakesCallers == Spec => []CaptureIsCallers
<1>1. IInv => CaptureIsCallers
  <2> SUFFICES ASSUME IInv, NEW b \in InUse,
                      taken[b].skip \in 0..(Len(taken[b].stack) - 1)
               PROVE  LET s == taken[b].stack
                          k == taken[b].skip
                          n == IF Len(s) - k > MaxSymbols THEN MaxSymbols ELSE Len(s) - k
                      IN backtrace[b].frames = SubSeq(s, k + 1, k + n)
    BY DEF CaptureIsCallers
  <2> DEFINE s == taken[b].stack
             k == taken[b].skip
             n == Depth(s, k)
  <2>1. s \in Stacks /\ k \in Skips
    BY DEF IInv, FromCapture
  <2>2. PICK g \in [1..n -> Garbage] : backtrace[b].frames = Copied(s, k, g)
    BY DEF IInv, FromCapture
  <2>3. s \in Seq(Words) /\ Len(s) \in Nat /\ k \in Nat
    BY <2>1, StacksAssumption, BoundsAssumption
  <2>4. /\ n = (IF Len(s) - k > MaxSymbols THEN MaxSymbols ELSE Len(s) - k)
        /\ k + n = Initial(s, k) /\ Initial(s, k) <= Len(s)
    BY <2>1, DepthOfCaller
  <2>5. n \in Nat
    BY <2>3, <2>4, BoundsAssumption
  <2>6. backtrace[b].frames = [m \in 1..n |-> s[k + m]]
    <3>1. \A m \in 1..n : k + m \in 1..Initial(s, k)
      <4> HIDE DEF n, s, k
      <4>1. QED
        BY <2>3, <2>4, <2>5
    <3>2. Copied(s, k, g) = [m \in 1..n |-> IF k + m \in 1..Initial(s, k) THEN s[k + m] ELSE g[m]]
      BY DEF Copied
    <3> HIDE DEF n, s, k
    <3>3. QED
      BY <2>2, <3>1, <3>2
  <2>7. SubSeq(s, k + 1, k + n) = [m \in 1..n |-> s[k + m]]
    <3> HIDE DEF n, s, k
    <3>1. SubSeq(s, k + 1, k + n) = [m \in 1..((k + n) - (k + 1) + 1) |-> s[(k + 1) + m - 1]]
      BY <2>3, <2>5
    <3>2. (k + n) - (k + 1) + 1 = n /\ \A m \in 1..n : (k + 1) + m - 1 = k + m
      BY <2>3, <2>5
    <3>3. QED
      BY <3>1, <3>2
  <2>8. QED
    BY <2>4, <2>6, <2>7
<1>2. QED
  BY Invariance, <1>1, PTL

(* Copying out of ppBuffer stays inside it, but for the two exceptions.     *)
THEOREM CopyReadsBuffer == Spec => []CopyStaysInside
<1>1. ASSUME NEW s \in Stacks, NEW k \in Skips, ReadsOutside(s, k)
      PROVE  k < 0 \/ (k >= Len(s) /\ Len(s) > MaxSymbols)
  <2>1. Len(s) \in Nat /\ k \in Int /\ MaxSymbols \in Nat \ {0}
    BY StacksAssumption, BoundsAssumption DEF Skips
  <2>2. QED
    BY <1>1, <2>1 DEF ReadsOutside, Depth, Initial, CountMax
<1>2. IInv => CopyStaysInside
  BY <1>1 DEF IInv, FromCapture, CopyStaysInside
<1>3. QED
  BY Invariance, <1>2, PTL

-----------------------------------------------------------------------------
(* A thread that computes stores into the backtrace it works on alone, and *)
(* only a thread that saw a raised flag begins to compute.                 *)
LEMMA SettledStays ==
  ASSUME IInv, Next, NEW b \in Backtraces, Settled(b)
  PROVE  Settled(b)' /\ backtrace'[b] = backtrace[b]
<1>1. b \in InUse /\ backtrace[b] # Unused /\ backtrace[b].hashIsNotValid = 0
      /\ \A t \in Threads : Computing(t) => target[t] # b
  BY DEF Settled, InUse
<1> SUFFICES /\ backtrace'[b] = backtrace[b]
             /\ \A t \in Threads : Computing(t)' => target'[t] # b
  BY <1>1 DEF Settled, InUse
<1>2. CASE \E c \in Backtraces, s \in Stacks, k \in Skips : Capture(c, s, k)
  BY <1>1, <1>2 DEF IInv, TypeOK, Capture, Computing, locals
<1>3. CASE \E t \in Threads : ThreadStep(t)
  <2>1. PICK t \in Threads : ThreadStep(t)
    BY <1>3
  <2>2. CASE Clear(t) \/ Load(t) \/ Add(t) \/ Store(t) \/ Lower(t)
    <3>1. Computing(t) /\ target[t] # b
      BY <1>1, <2>2 DEF Clear, Load, Add, Store, Lower, Computing
    <3>2. UNCHANGED target /\ \A u \in Threads : u # t => pc'[u] = pc[u]
      BY <2>2 DEF IInv, TypeOK, Clear, Load, Add, Store, Lower, locals
    <3>3. backtrace'[b] = backtrace[b]
      BY <2>2, <3>1 DEF IInv, TypeOK, Clear, Load, Add, Store, Lower
    <3>4. QED
      BY <1>1, <3>1, <3>2, <3>3 DEF Computing
  <2>3. CASE Answer(t) \/ CopyMember(t)
    BY <1>1, <2>3 DEF IInv, TypeOK, Answer, CopyMember, Return, Computing
  <2>4. CASE \E c \in Backtraces : Hash(t, c)
    BY <1>1, <2>4 DEF IInv, TypeOK, Hash, Computing
  <2>5. CASE \E c \in Backtraces : Clone(t, c) \/ Cloned(t, c)
    BY <1>1, <2>5 DEF IInv, TypeOK, Clone, Cloned, Return, Computing
  <2>6. QED
    BY <2>1, <2>2, <2>3, <2>4, <2>5 DEF ThreadStep
<1>4. QED
  BY <1>2, <1>3, StepCases

(* A hash that has settled never changes again, in either build and        *)
(* whether or not it was raced.                                            *)
THEOREM HashStays == Spec => HashSettles
<1>1. IInv /\ [Next]_vars =>
        [\A b \in Backtraces : Settled(b) => Settled(b)' /\ backtrace'[b] = backtrace[b]]_vars
  BY SettledStays
<1>2. QED
  BY Invariance, <1>1, PTL DEF Spec, HashSettles

-----------------------------------------------------------------------------
(* What a step of Next does to the histories.                              *)
Observed ==
  /\ UNCHANGED inRegister
  /\ raced \subseteq raced'
  /\ \A b \in Backtraces : TornClone(b) => b \in raced'
  /\ \A t \in Threads : pc'[t] = "clone" /\ t \notin torn' => t \notin torn

LEMMA StepObserved ==
  ASSUME Next
  PROVE  Observed /\ RacesAreSeen'
<1>1. Observed
  BY StepCases DEF Observed
<1>2. RacesAreSeen'
  BY StepCases DEF RacesAreSeen, Tears
<1>3. QED
  BY <1>1, <1>2

(* A step of another thread, or of the capture, keeps what u knows.  It    *)
(* either leaves the backtrace of u alone or computes its hash too.        *)
LEMMA CallKept ==
  ASSUME IInv, Observed, NEW u \in Threads, CallRight(u),
         pc'[u] = pc[u], target'[u] = target[u], i'[u] = i[u], unMult'[u] = unMult[u],
         sum'[u] = sum[u], copy'[u] = copy[u],
         NEW x, x = backtrace[target[u]], NEW y, y = backtrace'[target[u]],
         pc[u] # "idle" =>
           \/ y = x
           \/ /\ y.frames = x.frames /\ (x.hashIsNotValid = 0 => y.hashIsNotValid = 0)
              /\ inRegister => y.hash = x.hash \/ y.hash = HashOf(x.frames)
              /\ ~inRegister /\ Computing(u) => target[u] \in raced
              /\ pc[u] = "clone" => u \in torn
  PROVE  CallRight(u)'
<1>1. CASE pc[u] = "idle"
  BY <1>1 DEF CallRight, Computing
<1>2. CASE pc[u] # "idle" /\ y = x
  <2>1. SoFar(u)' = SoFar(u)
    BY <1>2 DEF SoFar, Observed
  <2>2. Computing(u)' = Computing(u)
    BY DEF Computing
  <2>3. QED
    BY <1>2, <2>1, <2>2 DEF CallRight, Observed
<1>3. CASE pc[u] # "idle" /\ y # x
  <2>1. inRegister => SoFar(u)' = SoFar(u)
    BY DEF SoFar, Observed
  <2>2. Computing(u)' = Computing(u) /\ (pc[u] \in {"loop", "add", "store", "lower"} => Computing(u))
    BY DEF Computing
  <2>3. pc[u] = "clone" => u \in torn'
    BY <1>3 DEF Observed
  <2>4. QED
    BY <1>3, <2>1, <2>2, <2>3 DEF CallRight, Observed
<1>4. QED
  BY <1>1, <1>2, <1>3

(* A hash that the step does not touch stays right.                        *)
LEMMA ValidKept ==
  ASSUME Observed, NEW b \in Backtraces, ValidIsRight(b), backtrace'[b] = backtrace[b],
         StoreToCome(b) => StoreToCome(b)'
  PROVE  ValidIsRight(b)'
BY DEF ValidIsRight, InUse, Observed

(* A step of t that stores nothing, before and after which t has no store  *)
(* to come.                                                                *)
LEMMA QuietRight ==
  ASSUME IInv, AllRight, Observed, NEW t \in Threads, UNCHANGED backtrace,
         \A u \in Threads : u # t =>
           /\ pc'[u] = pc[u] /\ target'[u] = target[u] /\ i'[u] = i[u]
           /\ unMult'[u] = unMult[u] /\ sum'[u] = sum[u] /\ copy'[u] = copy[u],
         pc[t] # "store", CallRight(t)'
  PROVE  AllRight'
<1>1. ASSUME NEW b \in Backtraces PROVE ValidIsRight(b)'
  <2>1. StoreToCome(b) => StoreToCome(b)'
    BY DEF StoreToCome
  <2>2. QED
    BY <2>1, ValidKept DEF AllRight
<1>2. ASSUME NEW u \in Threads, u # t PROVE CallRight(u)'
  BY <1>2, CallKept DEF AllRight
<1>3. QED
  BY <1>1, <1>2 DEF AllRight

(* A step of the computation of t.  Those who work on the same backtrace   *)
(* meanwhile are raced, torn, or compute in registers.                     *)
LEMMA ComputeRight ==
  ASSUME IInv, RacesAreSeen, AllRight, Observed, NEW t \in Threads, Computing(t),
         UNCHANGED <<target, copy>>,
         \A u \in Threads : u # t =>
           pc'[u] = pc[u] /\ i'[u] = i[u] /\ unMult'[u] = unMult[u] /\ sum'[u] = sum[u],
         \A c \in Backtraces : c # target[t] => backtrace'[c] = backtrace[c],
         NEW x, x = backtrace[target[t]], NEW y, y = backtrace'[target[t]],
         y.frames = x.frames, x.hashIsNotValid = 0 => y.hashIsNotValid = 0,
         inRegister => y.hash = x.hash \/ y.hash = HashOf(x.frames),
         CallRight(t)', ValidIsRight(target[t])'
  PROVE  AllRight'
<1>1. ASSUME NEW c \in Backtraces PROVE ValidIsRight(c)'
  <2>1. CASE c # target[t]
    <3>1. StoreToCome(c) => StoreToCome(c)'
      BY <2>1 DEF StoreToCome
    <3>2. QED
      BY <2>1, <3>1, ValidKept DEF AllRight
  <2>2. QED
    BY <2>1
<1>2. ASSUME NEW u \in Threads, u # t PROVE CallRight(u)'
  <2>1. CallRight(u)
    BY DEF AllRight
  <2>2. CASE target[u] = target[t]
    <3>1. target[t] \in Backtraces
      BY AtWork DEF Computing
    <3>2. ~inRegister /\ Computing(u) => target[u] \in raced
      BY <1>2, <2>2, <3>1 DEF RacesAreSeen, Contended
    <3>3. pc[u] = "clone" => u \in torn
      BY <2>2 DEF RacesAreSeen, Tears
    <3>4. QED
      BY <1>2, <2>1, <2>2, <3>2, <3>3, CallKept
  <2>3. CASE target[u] # target[t]
    <3>1. pc[u] # "idle" => backtrace'[target[u]] = backtrace[target[u]]
      BY <2>3, AtWork
    <3>2. QED
      BY <1>2, <2>1, <3>1, CallKept
  <2>4. QED
    BY <2>2, <2>3
<1>3. QED
  BY <1>1, <1>2 DEF AllRight

(* A backtrace is put at b, and no thread but t takes a step.              *)
LEMMA NewRight ==
  ASSUME IInv, AllRight, Observed, NEW b \in Backtraces, b \notin InUse,
         \A c \in Backtraces : c # b => backtrace'[c] = backtrace[c],
         NEW S, S \subseteq Threads,
         \A u \in Threads \ S :
           /\ pc'[u] = pc[u] /\ target'[u] = target[u] /\ i'[u] = i[u]
           /\ unMult'[u] = unMult[u] /\ sum'[u] = sum[u] /\ copy'[u] = copy[u],
         \A t \in S : pc[t] # "store" /\ CallRight(t)',
         ValidIsRight(b)'
  PROVE  AllRight'
<1>1. ASSUME NEW c \in Backtraces, c # b PROVE ValidIsRight(c)'
  <2>1. StoreToCome(c) => StoreToCome(c)'
    BY DEF StoreToCome
  <2>2. QED
    BY <1>1, <2>1, ValidKept DEF AllRight
<1>2. ASSUME NEW u \in Threads \ S PROVE CallRight(u)'
  <2>1. pc[u] # "idle" => backtrace'[target[u]] = backtrace[target[u]]
    BY AtWork
  <2>2. QED
    BY <2>1, CallKept DEF AllRight
<1>3. QED
  BY <1>1, <1>2 DEF AllRight

-----------------------------------------------------------------------------
LEMMA CaptureRight ==
  ASSUME IInv, AllRight, Observed, NEW b \in Backtraces, NEW s \in Stacks, NEW k \in Skips,
         Capture(b, s, k)
  PROVE  AllRight'
<1>1. UNCHANGED <<pc, target, i, unMult, sum, copy>> /\ b \notin InUse
  BY DEF Capture, locals, InUse
<1>2. \A c \in Backtraces : c # b => backtrace'[c] = backtrace[c]
  BY DEF Capture, IInv, TypeOK
<1>3. backtrace'[b].hashIsNotValid = 1
  BY DEF Capture, IInv, TypeOK
<1>4. ValidIsRight(b)'
  BY <1>3 DEF ValidIsRight
<1> DEFINE S == {}
<1>5. /\ S \subseteq Threads
      /\ \A t \in S : pc[t] # "store" /\ CallRight(t)'
      /\ \A u \in Threads \ S :
           /\ pc'[u] = pc[u] /\ target'[u] = target[u] /\ i'[u] = i[u]
           /\ unMult'[u] = unMult[u] /\ sum'[u] = sum[u] /\ copy'[u] = copy[u]
  BY <1>1
<1> HIDE DEF S
<1>6. QED
  BY <1>1, <1>2, <1>4, <1>5, NewRight

LEMMA HashRight ==
  ASSUME IInv, AllRight, Observed, NEW t \in Threads, NEW b \in Backtraces, Hash(t, b)
  PROVE  AllRight'
<1>1. UNCHANGED <<backtrace, i, unMult, sum, copy>> /\ pc[t] = "idle" /\ b \in InUse
  BY DEF Hash, InUse
<1>2. target' = [target EXCEPT ![t] = b]
      /\ pc' = [pc EXCEPT ![t] = IF backtrace[b].hashIsNotValid = 1 THEN "clear" ELSE "answer"]
  BY DEF Hash
<1>3. target'[t] = b /\ pc'[t] = (IF backtrace[b].hashIsNotValid = 1 THEN "clear" ELSE "answer")
  BY <1>2 DEF IInv, TypeOK
<1>4. i[t] = 0
  BY <1>1 DEF AllRight, CallRight
<1>5. backtrace[b].hashIsNotValid \in {0, 1}
  BY <1>1 DEF IInv, TypeOK, InUse, Backtrace
<1>6. CallRight(t)'
  <2>1. CASE pc'[t] = "clear"
    <3>1. backtrace'[target'[t]].hashIsNotValid = 1
      BY <1>1, <1>3, <2>1
    <3>2. QED
      BY <2>1, <3>1 DEF CallRight
  <2>2. CASE pc'[t] = "answer"
    <3>1. backtrace'[target'[t]].hashIsNotValid = 0
      BY <1>1, <1>3, <1>5, <2>2
    <3>2. QED
      BY <1>1, <1>4, <2>2, <3>1 DEF CallRight, Computing
  <2>3. QED
    BY <1>3, <2>1, <2>2
<1>7. \A u \in Threads : u # t => pc'[u] = pc[u] /\ target'[u] = target[u]
  BY <1>2 DEF IInv, TypeOK
<1>8. QED
  BY <1>1, <1>6, <1>7, QuietRight

LEMMA CloneRight ==
  ASSUME IInv, AllRight, Observed, NEW t \in Threads, NEW b \in Backtraces, Clone(t, b)
  PROVE  AllRight'
<1>1. UNCHANGED <<backtrace, i, unMult, sum, copy>> /\ pc[t] = "idle"
  BY DEF Clone
<1>2. target' = [target EXCEPT ![t] = b] /\ pc' = [pc EXCEPT ![t] = "clone"]
  BY DEF Clone
<1>3. pc'[t] = "clone" /\ copy'[t] = NoCopy
  BY <1>1, <1>2 DEF IInv, TypeOK, AllRight, CallRight
<1>4. CallRight(t)'
  <2>1. \A member \in DOMAIN NoCopy : copy'[t][member] = NotYet
    BY <1>3 DEF NoCopy
  <2>2. QED
    BY <1>3, <2>1 DEF CallRight, Computing
<1>5. \A u \in Threads : u # t => pc'[u] = pc[u] /\ target'[u] = target[u]
  BY <1>2 DEF IInv, TypeOK
<1>6. QED
  BY <1>1, <1>4, <1>5, QuietRight

LEMMA AnswerRight ==
  ASSUME IInv, AllRight, Observed, NEW t \in Threads, Answer(t)
  PROVE  AllRight'
<1>1. /\ pc'[t] = "idle" /\ i'[t] = 0 /\ copy'[t] = NoCopy
      /\ \A u \in Threads : u # t =>
           /\ pc'[u] = pc[u] /\ target'[u] = target[u] /\ i'[u] = i[u]
           /\ unMult'[u] = unMult[u] /\ sum'[u] = sum[u] /\ copy'[u] = copy[u]
  BY DEF IInv, TypeOK, Answer, Return
<1>2. CallRight(t)'
  BY <1>1 DEF CallRight, Computing
<1>3. pc[t] # "store" /\ UNCHANGED backtrace
  BY DEF Answer
<1>4. QED
  BY <1>1, <1>2, <1>3, QuietRight

LEMMA CopyMemberRight ==
  ASSUME IInv, AllRight, Observed, NEW t \in Threads, CopyMember(t)
  PROVE  AllRight'
<1>1. PICK m \in DOMAIN NoCopy : copy' = [copy EXCEPT ![t][m] = backtrace[target[t]][m]]
  BY DEF CopyMember
<1>2. UNCHANGED <<backtrace, pc, target, i, unMult, sum>> /\ pc[t] = "clone"
  BY DEF CopyMember
<1>3. t \notin torn' => \A n \in DOMAIN NoCopy : copy'[t][n] \in {NotYet, backtrace[target[t]][n]}
  <2> SUFFICES ASSUME t \notin torn'
               PROVE  \A n \in DOMAIN NoCopy : copy'[t][n] \in {NotYet, backtrace[target[t]][n]}
    OBVIOUS
  <2>1. \A n \in DOMAIN NoCopy : copy[t][n] \in {NotYet, backtrace[target[t]][n]}
    BY <1>2 DEF AllRight, CallRight, Observed
  <2>2. QED
    BY <1>1, <2>1 DEF IInv, TypeOK, NoCopy
<1>4. CallRight(t)'
  BY <1>2, <1>3 DEF CallRight, Computing
<1>5. \A u \in Threads : u # t => copy'[u] = copy[u]
  BY <1>1 DEF IInv, TypeOK
<1>6. QED
  BY <1>2, <1>4, <1>5, QuietRight

(* A clone that claims a valid hash was torn or is of a settled backtrace. *)
LEMMA ClonedRight ==
  ASSUME IInv, RacesAreSeen, AllRight, Observed, NEW t \in Threads, NEW b \in Backtraces,
         Cloned(t, b)
  PROVE  AllRight'
<1> DEFINE x == backtrace[target[t]]
           r == [frames |-> x.frames, hash |-> copy[t].hash,
                 hashIsNotValid |-> copy[t].hashIsNotValid]
<1>1. /\ pc[t] = "clone" /\ b \notin InUse
      /\ \A member \in DOMAIN NoCopy : copy[t][member] # NotYet
  BY DEF Cloned, InUse
<1>2. target[t] \in InUse /\ target[t] \in Backtraces
  BY <1>1, AtWork
<1>3. backtrace'[b] = r /\ \A c \in Backtraces : c # b => backtrace'[c] = backtrace[c]
  BY DEF IInv, TypeOK, Cloned
<1>4. /\ pc'[t] = "idle" /\ i'[t] = 0 /\ copy'[t] = NoCopy
      /\ \A u \in Threads : u # t =>
           /\ pc'[u] = pc[u] /\ target'[u] = target[u] /\ i'[u] = i[u]
           /\ unMult'[u] = unMult[u] /\ sum'[u] = sum[u] /\ copy'[u] = copy[u]
  BY DEF IInv, TypeOK, Cloned, Return
<1>5. ValidIsRight(b)'
  <2> SUFFICES ASSUME b \notin raced', backtrace'[b].hashIsNotValid = 0
               PROVE  backtrace'[b].hash = HashOf(backtrace'[b].frames)
    BY DEF ValidIsRight
  <2>1. copy[t].hashIsNotValid = 0
    BY <1>3
  <2>2. t \notin torn
    BY <2>1 DEF Observed, TornClone
  <2>3. target[t] \notin raced /\ ~StoreToCome(target[t])
    BY <1>1, <2>2 DEF RacesAreSeen, Tears, StoreToCome, Computing
  <2>4. \A member \in DOMAIN NoCopy : copy[t][member] = x[member]
    BY <1>1, <2>2 DEF AllRight, CallRight
  <2>5. copy[t].hash = x.hash /\ copy[t].hashIsNotValid = x.hashIsNotValid
    BY <2>4 DEF NoCopy
  <2>6. x.hash = HashOf(x.frames)
    BY <1>2, <2>1, <2>3, <2>5 DEF AllRight, ValidIsRight
  <2>7. QED
    BY <1>3, <2>5, <2>6
<1>6. CallRight(t)'
  BY <1>4 DEF CallRight, Computing
<1> DEFINE S == {t}
<1>7. /\ S \subseteq Threads
      /\ \A u \in S : pc[u] # "store" /\ CallRight(u)'
      /\ \A u \in Threads \ S :
           /\ pc'[u] = pc[u] /\ target'[u] = target[u] /\ i'[u] = i[u]
           /\ unMult'[u] = unMult[u] /\ sum'[u] = sum[u] /\ copy'[u] = copy[u]
  BY <1>1, <1>4, <1>6
<1> HIDE DEF S
<1>8. QED
  BY <1>1, <1>3, <1>5, <1>7, NewRight

-----------------------------------------------------------------------------
(* A round leaves a valid hash alone: with registers it stores nothing,    *)
(* and in memory only a hash is computed that is not valid, or raced.      *)
LEMMA RoundRight ==
  ASSUME IInv, RacesAreSeen, AllRight, Observed, NEW t \in Threads, Computing(t),
         pc[t] # "store", pc'[t] # "store", UNCHANGED <<target, copy>>,
         \A u \in Threads : u # t =>
           pc'[u] = pc[u] /\ i'[u] = i[u] /\ unMult'[u] = unMult[u] /\ sum'[u] = sum[u],
         \A c \in Backtraces : c # target[t] => backtrace'[c] = backtrace[c],
         NEW x, x = backtrace[target[t]], NEW y, y = backtrace'[target[t]],
         y.frames = x.frames, y.hashIsNotValid = x.hashIsNotValid,
         inRegister => UNCHANGED backtrace,
         CallRight(t)'
  PROVE  AllRight'
<1>1. target[t] \in Backtraces
  BY AtWork DEF Computing
<1>2. ValidIsRight(target[t])'
  <2>1. CASE inRegister
    <3>1. StoreToCome(target[t]) => StoreToCome(target[t])'
      BY DEF StoreToCome
    <3>2. QED
      BY <1>1, <2>1, <3>1, ValidKept DEF AllRight
  <2>2. CASE ~inRegister
    <3>1. target[t] \notin raced => x.hashIsNotValid = 1
      BY <2>2 DEF AllRight, CallRight
    <3>2. QED
      BY <3>1 DEF ValidIsRight, Observed
  <2>3. QED
    BY <2>1, <2>2
<1>3. QED
  BY <1>2, ComputeRight

LEMMA ClearRight ==
  ASSUME IInv, RacesAreSeen, AllRight, Observed, NEW t \in Threads, Clear(t)
  PROVE  AllRight'
<1> DEFINE x == backtrace[target[t]]
           y == backtrace'[target[t]]
<1>1. /\ target[t] \in Backtraces /\ x \in Backtrace /\ x.frames \in Seq(Words)
      /\ Len(x.frames) \in Nat
  BY AtWork DEF Clear, Backtrace
<1>2. Computing(t) /\ pc[t] = "clear" /\ pc'[t] = "loop"
  BY DEF IInv, TypeOK, Clear, Computing
<1>3. i'[t] = 1 /\ unMult'[t] = 1 /\ sum'[t] = 0 /\ UNCHANGED <<target, copy, inRegister>>
  BY DEF IInv, TypeOK, Clear, Observed
<1>4. \A c \in Backtraces : c # target[t] => backtrace'[c] = backtrace[c]
  BY DEF IInv, TypeOK, Clear
<1>5. /\ y.frames = x.frames /\ y.hashIsNotValid = x.hashIsNotValid
      /\ inRegister => UNCHANGED backtrace
      /\ ~inRegister => y.hash = 0
  BY <1>1 DEF IInv, TypeOK, Clear, Backtrace
<1>6. HashUpTo(x.frames, 0) = 0 /\ MultAt(1) = 1
  BY <1>1, LoopBegins
<1>7. CallRight(t)'
  <2>1. i'[t] - 1 = 0 /\ i'[t] <= Len(x.frames) + 1
    BY <1>1, <1>3
  <2>2. SoFar(t)' = 0
    BY <1>2, <1>3, <1>5 DEF SoFar
  <2>3. ~inRegister /\ target[t] \notin raced' => y.hashIsNotValid = 1
    BY <1>2, <1>5 DEF AllRight, CallRight, Observed
  <2>4. QED
    BY <1>2, <1>3, <1>5, <1>6, <2>1, <2>2, <2>3 DEF CallRight
<1>8. \A u \in Threads : u # t =>
        pc'[u] = pc[u] /\ i'[u] = i[u] /\ unMult'[u] = unMult[u] /\ sum'[u] = sum[u]
  BY DEF IInv, TypeOK, Clear
<1>9. QED
  BY <1>2, <1>3, <1>4, <1>5, <1>7, <1>8, RoundRight

LEMMA LoadRight ==
  ASSUME IInv, RacesAreSeen, AllRight, Observed, NEW t \in Threads, Load(t)
  PROVE  AllRight'
<1>1. Computing(t) /\ Computing(t)' /\ pc[t] = "loop" /\ pc'[t] = "add"
  BY DEF IInv, TypeOK, Load, Computing
<1>2. UNCHANGED <<backtrace, target, i, unMult, copy, inRegister>>
  BY DEF Load, Observed
<1>3. sum'[t] = SoFar(t)
  BY <1>1 DEF IInv, TypeOK, Load, SoFar
<1>4. SoFar(t)' = SoFar(t)
  BY <1>1, <1>3 DEF SoFar
<1>5. CallRight(t)'
  <2>1. CallRight(t)
    BY DEF AllRight
  <2>2. QED
    BY <1>1, <1>2, <1>4, <2>1 DEF CallRight, Observed
<1>6. \A u \in Threads : u # t => pc'[u] = pc[u] /\ sum'[u] = sum[u]
  BY DEF IInv, TypeOK, Load
<1>7. QED
  BY <1>1, <1>2, <1>5, <1>6, RoundRight

LEMMA AddRight ==
  ASSUME IInv, RacesAreSeen, AllRight, Observed, NEW t \in Threads, Add(t)
  PROVE  AllRight'
<1> DEFINE x == backtrace[target[t]]
           y == backtrace'[target[t]]
           w == Accumulated(sum[t], x.frames[i[t]], unMult[t])
<1>1. /\ target[t] \in Backtraces /\ x \in Backtrace /\ x.frames \in Seq(Words)
      /\ Len(x.frames) \in Nat
  BY AtWork DEF Add, Backtrace
<1>2. Computing(t) /\ Computing(t)' /\ pc[t] = "add" /\ pc'[t] = "loop"
  BY DEF IInv, TypeOK, Add, Computing
<1>3. /\ i'[t] = i[t] + 1 /\ unMult'[t] = NextMult(unMult[t]) /\ sum'[t] = w
      /\ UNCHANGED <<target, copy, inRegister>>
  <2>1. sum' = [sum EXCEPT ![t] = w]
    BY DEF Add
  <2>2. i' = [i EXCEPT ![t] = i[t] + 1] /\ unMult' = [unMult EXCEPT ![t] = NextMult(unMult[t])]
    BY DEF Add
  <2> HIDE DEF w
  <2>3. QED
    BY <2>1, <2>2 DEF Add, IInv, TypeOK, Observed
<1>4. \A c \in Backtraces : c # target[t] => backtrace'[c] = backtrace[c]
  BY DEF IInv, TypeOK, Add
<1> DEFINE h == sum'[t]
<1>5. /\ y.frames = x.frames /\ y.hashIsNotValid = x.hashIsNotValid
      /\ inRegister => UNCHANGED backtrace
      /\ ~inRegister => y.hash = h
  <2>1. backtrace' = IF inRegister THEN backtrace ELSE [backtrace EXCEPT ![target[t]].hash = h]
    BY DEF Add
  <2> HIDE DEF h
  <2>2. QED
    BY <1>1, <2>1 DEF IInv, TypeOK, Backtrace
<1>6. i[t] \in 1..Len(x.frames)
  BY <1>1, <1>2 DEF IInv, CallsInUse, InLoop
<1>7. ASSUME inRegister \/ target[t] \notin raced'
      PROVE  h = HashUpTo(x.frames, i'[t] - 1) /\ unMult'[t] = MultAt(i'[t])
  <2>1. sum[t] = HashUpTo(x.frames, i[t] - 1) /\ unMult[t] = MultAt(i[t])
    BY <1>2, <1>7 DEF AllRight, CallRight, SoFar, Observed
  <2>2. w = HashUpTo(x.frames, i[t])
    <3>1. w = Accumulated(HashUpTo(x.frames, i[t] - 1), x.frames[i[t]], MultAt(i[t]))
      BY <2>1
    <3> HIDE DEF w, x
    <3>2. QED
      BY <1>1, <1>6, <3>1, RoundAdds
  <2>3. NextMult(unMult[t]) = MultAt(i[t] + 1)
    BY <1>6, <2>1, RoundMultiplies
  <2>4. i'[t] - 1 = i[t]
    BY <1>3, <1>6
  <2> HIDE DEF w
  <2>5. QED
    BY <1>3, <2>2, <2>3, <2>4
<1>8. CallRight(t)'
  <2>1. i'[t] <= Len(x.frames) + 1
    BY <1>1, <1>3, <1>6
  <2>2. SoFar(t)' = h
    BY <1>2, <1>3, <1>5 DEF SoFar
  <2>3. ~inRegister /\ target[t] \notin raced' => y.hashIsNotValid = 1
    BY <1>2, <1>5 DEF AllRight, CallRight, Observed
  <2> HIDE DEF h
  <2>4. QED
    BY <1>2, <1>3, <1>5, <1>7, <2>1, <2>2, <2>3 DEF CallRight
<1>9. \A u \in Threads : u # t =>
        pc'[u] = pc[u] /\ i'[u] = i[u] /\ unMult'[u] = unMult[u] /\ sum'[u] = sum[u]
  BY DEF IInv, TypeOK, Add
<1>10. QED
  BY <1>2, <1>3, <1>4, <1>5, <1>8, <1>9, RoundRight

(* At the end of the loop the whole hash has been added up.                *)
LEMMA WholeSum ==
  ASSUME IInv, AllRight, NEW t \in Threads, pc[t] = "loop", ~InLoop(t),
         inRegister \/ target[t] \notin raced
  PROVE  SoFar(t) = HashOf(backtrace[target[t]].frames)
<1> DEFINE x == backtrace[target[t]]
<1>1. x.frames \in Seq(Words) /\ Len(x.frames) \in Nat
  BY AtWork DEF Backtrace
<1>2. i[t] - 1 = Len(x.frames)
  <2>1. i[t] \in Nat /\ i[t] <= Len(x.frames) + 1 /\ ~(i[t] <= Len(x.frames))
    BY DEF IInv, TypeOK, AllRight, CallRight, InLoop
  <2>2. QED
    BY <1>1, <2>1
<1>3. SoFar(t) = HashUpTo(x.frames, i[t] - 1)
  BY DEF AllRight, CallRight
<1>4. QED
  BY <1>1, <1>2, <1>3, LoopEnds

LEMMA StoreRight ==
  ASSUME IInv, RacesAreSeen, AllRight, Observed, NEW t \in Threads, Store(t)
  PROVE  AllRight'
<1> DEFINE x == backtrace[target[t]]
           y == backtrace'[target[t]]
<1>1. target[t] \in Backtraces /\ x \in Backtrace
  BY AtWork DEF Store
<1>2. UNCHANGED <<target, i, unMult, sum, copy>> /\ inRegister /\ inRegister' /\ Computing(t)
  BY DEF Store, locals, Computing, Observed
<1>3. \A c \in Backtraces : c # target[t] => backtrace'[c] = backtrace[c]
  BY DEF IInv, TypeOK, Store
<1>4. y.frames = x.frames /\ y.hash = sum[t] /\ y.hashIsNotValid = x.hashIsNotValid
  BY <1>1 DEF IInv, TypeOK, Store, Backtrace
<1>5. sum[t] = HashOf(x.frames)
  <2>1. CASE pc[t] = "loop"
    BY <1>2, <2>1, WholeSum DEF Store, SoFar
  <2>2. CASE pc[t] = "store"
    BY <2>2 DEF AllRight, CallRight
  <2>3. QED
    BY <2>1, <2>2 DEF Store
<1>6. \/ pc[t] = "loop" /\ pc'[t] = "lower"
      \/ pc[t] = "store" /\ pc'[t] = "answer"
  BY DEF IInv, TypeOK, Store
<1>7. pc[t] = "store" => x.hashIsNotValid = 0
  BY DEF AllRight, CallRight
<1>8. CallRight(t)'
  BY <1>2, <1>4, <1>5, <1>6, <1>7 DEF CallRight
<1>9. \A u \in Threads : u # t => pc'[u] = pc[u]
  BY DEF IInv, TypeOK, Store
<1>10. ValidIsRight(target[t])'
  BY <1>2, <1>4, <1>5 DEF ValidIsRight
<1>11. QED
  BY <1>2, <1>3, <1>4, <1>5, <1>8, <1>9, <1>10, ComputeRight

LEMMA LowerRight ==
  ASSUME IInv, RacesAreSeen, AllRight, Observed, NEW t \in Threads, Lower(t)
  PROVE  AllRight'
<1> DEFINE x == backtrace[target[t]]
           y == backtrace'[target[t]]
<1>1. target[t] \in Backtraces /\ x \in Backtrace
  BY AtWork DEF Lower
<1>2. UNCHANGED <<target, i, unMult, sum, copy, inRegister>> /\ Computing(t)
  BY DEF Lower, locals, Computing, Observed
<1>3. \A c \in Backtraces : c # target[t] => backtrace'[c] = backtrace[c]
  BY DEF IInv, TypeOK, Lower
<1>4. y.frames = x.frames /\ y.hash = x.hash /\ y.hashIsNotValid = 0
  BY <1>1 DEF IInv, TypeOK, Lower, Backtrace
<1>5. \/ pc[t] = "loop" /\ ~InLoop(t) /\ pc'[t] = (IF inRegister THEN "store" ELSE "answer")
      \/ pc[t] = "lower" /\ pc'[t] = "answer"
  BY DEF IInv, TypeOK, Lower
<1>6. /\ pc[t] = "lower" => inRegister /\ x.hash = HashOf(x.frames)
      /\ inRegister => sum[t] = HashOf(x.frames)
  <2>1. CASE pc[t] = "loop"
    BY <2>1, <1>5, WholeSum DEF SoFar
  <2>2. CASE pc[t] = "lower"
    BY <2>2 DEF AllRight, CallRight
  <2>3. QED
    BY <1>5, <2>1, <2>2
<1>7. CallRight(t)'
  BY <1>2, <1>4, <1>5, <1>6 DEF CallRight, Computing
<1>8. \A u \in Threads : u # t => pc'[u] = pc[u]
  BY DEF IInv, TypeOK, Lower
<1>9. ValidIsRight(target[t])'
  <2>1. CASE pc[t] = "lower"
    BY <1>2, <1>4, <1>6, <2>1 DEF ValidIsRight
  <2>2. CASE pc[t] = "loop" /\ inRegister
    BY <1>2, <1>5, <2>2 DEF ValidIsRight, StoreToCome
  <2>3. CASE pc[t] = "loop" /\ ~inRegister
    <3>1. target[t] \notin raced => x.hash = HashOf(x.frames)
      BY <1>5, <2>3, WholeSum DEF SoFar
    <3>2. QED
      BY <1>2, <1>4, <3>1 DEF ValidIsRight, Observed
  <2>4. QED
    BY <1>5, <2>1, <2>2, <2>3
<1>10. QED
  BY <1>2, <1>3, <1>4, <1>7, <1>8, <1>9, ComputeRight

LEMMA StepRight ==
  ASSUME IInv, RacesAreSeen, AllRight, Observed, Next
  PROVE  AllRight'
<1>1. CASE \E b \in Backtraces, s \in Stacks, k \in Skips : Capture(b, s, k)
  BY <1>1, CaptureRight
<1>2. CASE \E t \in Threads : ThreadStep(t)
  BY <1>2, HashRight, ClearRight, LoadRight, AddRight, StoreRight, LowerRight, AnswerRight,
     CloneRight, CopyMemberRight, ClonedRight DEF ThreadStep
<1>3. QED
  BY <1>1, <1>2, StepCases

(* The hash invariant: the histories see every race, and what they do not  *)
(* see one for is right.                                                   *)
THEOREM HashInvariance == Spec => []HashInv
<1>1. Init => HashInv
  <2> SUFFICES ASSUME Init PROVE HashInv
    OBVIOUS
  <2>1. RacesAreSeen
    BY DEF Init, RacesAreSeen, Contended, Tears, Computing
  <2>2. AllRight
    BY DEF Init, AllRight, CallRight, ValidIsRight, Computing, InUse
  <2>3. QED
    BY <2>1, <2>2 DEF HashInv
<1>2. IInv /\ HashInv /\ [Next]_vars => HashInv'
  <2> SUFFICES ASSUME IInv, HashInv, [Next]_vars PROVE HashInv'
    OBVIOUS
  <2>1. CASE Next
    BY <2>1, StepObserved, StepRight DEF HashInv
  <2>2. CASE UNCHANGED vars
    BY <2>2 DEF HashInv, RacesAreSeen, Contended, Tears, AllRight, CallRight, ValidIsRight,
       StoreToCome, SoFar, Computing, InUse, vars, locals
  <2>3. QED
    BY <2>1, <2>2
<1>3. QED
  BY Invariance, <1>1, <1>2, PTL DEF Spec

(* Settled hashes and answers are right, with the exceptions that          *)
(* HashRightUnlessRaced names: two computations that met in memory, and    *)
(* a clone that copied a valid flag while the hash was computed.           *)
THEOREM HashIsRight == Spec => []HashRightUnlessRaced
<1>1. IInv /\ HashInv => HashRightUnlessRaced
  <2> SUFFICES ASSUME IInv, HashInv PROVE HashRightUnlessRaced
    OBVIOUS
  <2>1. ASSUME NEW b \in InUse \ raced, Settled(b)
        PROVE  backtrace[b].hash = HashOf(backtrace[b].frames)
    <3>1. ~StoreToCome(b) /\ b \in Backtraces
      BY <2>1 DEF Settled, StoreToCome, Computing, InUse
    <3>2. QED
      BY <2>1, <3>1 DEF HashInv, AllRight, ValidIsRight, Settled
  <2>2. ASSUME NEW t \in Threads, pc[t] = "answer",
               (inRegister /\ i[t] > 0) \/ (target[t] \notin raced /\ ~StoreToCome(target[t]))
        PROVE  Answered(t) = HashOf(backtrace[target[t]].frames)
    <3>1. CallRight(t)
      BY DEF HashInv, AllRight
    <3>2. CASE inRegister /\ i[t] > 0
      BY <2>2, <3>1, <3>2 DEF CallRight, Answered
    <3>3. CASE ~(inRegister /\ i[t] > 0)
      <4>1. target[t] \in InUse /\ target[t] \in Backtraces
        BY <2>2, AtWork
      <4>2. backtrace[target[t]].hashIsNotValid = 0
        BY <2>2, <3>1 DEF CallRight
      <4>3. backtrace[target[t]].hash = HashOf(backtrace[target[t]].frames)
        BY <2>2, <3>3, <4>1, <4>2 DEF HashInv, AllRight, ValidIsRight
      <4>4. QED
        BY <3>3, <4>3 DEF Answered
    <3>4. QED
      BY <3>2, <3>3
  <2>3. QED
    BY <2>1, <2>2 DEF HashRightUnlessRaced
<1>2. QED
  BY Invariance, HashInvariance, <1>1, PTL
=============================================================================
