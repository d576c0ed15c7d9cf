------------------------- MODULE SlidingWindowProofs -------------------------
(***************************************************************************)
(* Proofs about SlidingWindow for any width of the numbers, any numbers of *)
(* buffers and bits of an acknowledgement that fit it, any packets, and    *)
(* any losses, repetitions and reorderings of the channel: the buffers     *)
(* hold what the window admits, what the digitizer takes for acknowledged  *)
(* is held, and the packets handed over are an ordered feed.               *)
(***************************************************************************)
EXTENDS SlidingWindow, WellFoundedInduction, TLAPS

LEMMA Sizes ==
  /\ SeqMod \in Nat \ {0} /\ NBufs \in Nat \ {0} /\ SendWin \in Nat \ {0} /\ WinBufs \in Nat \ {0, 1}
  /\ AckCnt \in Nat /\ AckTo \in Nat /\ OpenAfter \in Nat /\ MaxAge \in Nat /\ First \in Nat
  /\ Last \in Nat /\ MaxBreaks \in Nat /\ First <= Last
  /\ SeqMod % NBufs = 0 /\ WinBufs <= NBufs /\ SendWin <= WinBufs
  /\ SendWin + WinBufs <= SeqMod /\ MaxAge + WinBufs <= SeqMod
BY SlidingWindowAssumption

USE Sizes

(* The library only receives on a link, and a link that is set up again    *)
(* begins with an empty channel and a digitizer that was not asked yet.    *)
Linked ==
  /\ running => link_recv
  /\ ~ link_recv => data = {} /\ acks = {} /\ acked = {} /\ ~ opened

Numbers == kept <= due /\ fresh <= kept + SendWin

(* What the buffers bufs may hold when packet d is due.                    *)
BuffersFit(bufs, d) ==
  \A b \in 0 .. NBufs - 1 : bufs[b] # Empty =>
    bufs[b] \in d .. d + WinWrap /\ Buffer(bufs[b]) = b

Buffers ==
  /\ \A b \in 0 .. NBufs - 1 : pkt_bufs[b] < fresh
  /\ link_recv =>
       /\ last_packet = Word(due)
       /\ BuffersFit(pkt_bufs, due)
       /\ pkt_bufs[Buffer(due)] = Empty

(* Packet n was handed over or is in a buffer. *)
HeldIn(n, bufs, d) == n < d \/ bufs[Buffer(n)] = n

(* What is under way is not so old that its word means another number.     *)
Recent(n) == n + MaxAge >= fresh \/ n + SendWin >= fresh

DataRecent == \A n \in data : Recent(n)

(* Acknowledgement a, in a state with buffers bufs and packet d due.       *)
DackFits(a, bufs, d) ==
  /\ a.kind = "dack"
  /\ a.n \in First - 1 .. d - 1 /\ a.low = Word(a.n)
  /\ a.bits \subseteq Bits
  /\ \A i \in a.bits : HeldIn(a.n + i, bufs, d)

AcksFit == \A a \in acks : a = Open \/ (DackFits(a, pkt_bufs, due) /\ Recent(a.n + 1))

DataoutFits ==
  link_recv /\ ack_delay =>
    dataout = Open \/ (DackFits(dataout, pkt_bufs, due) /\ dataout.n = due - 1)

WindowInv ==
  /\ TypeOK /\ Linked /\ Numbers /\ Buffers /\ AckedIsHeld
  /\ DataRecent /\ AcksFit /\ DataoutFits
------------------------------------------------------------------------------
(* Remainders. *)
LEMMA Quotient ==
  ASSUME NEW S \in Nat \ {0}, NEW a \in Int
  PROVE  /\ a \div S \in Int /\ a % S \in 0 .. S - 1
         /\ a = S * (a \div S) + (a % S)
OBVIOUS

LEMMA SameRemainder ==
  ASSUME NEW S \in Nat \ {0}, NEW a \in Int, NEW b \in Int,
         a % S = b % S, a - b < S, b - a < S
  PROVE  a = b
<1>1. a - b = S * ((a \div S) - (b \div S))
  OBVIOUS
<1>2. (a \div S) - (b \div S) = 0
  BY <1>1
<1> QED BY <1>1, <1>2

LEMMA RemainderOf ==
  ASSUME NEW S \in Nat \ {0}, NEW r \in 0 .. S - 1, NEW m \in Int
  PROVE  (r + S * m) % S = r
OBVIOUS

LEMMA Turns ==
  ASSUME NEW S \in Nat \ {0}, NEW a \in Int, NEW m \in Int
  PROVE  (a + S * m) % S = a % S
<1> DEFINE r == a % S
           q == a \div S
<1>1. r \in 0 .. S - 1 /\ q \in Int /\ a = S * q + r
  BY Quotient
<1> HIDE DEF r, q
<1>2. a + S * m = r + S * (q + m) /\ q + m \in Int
  BY <1>1
<1>3. (a + S * m) % S = r
  BY <1>1, <1>2, RemainderOf
<1> QED BY <1>3 DEF r

LEMMA OneTurn ==
  ASSUME NEW S \in Nat \ {0}, NEW a \in Int
  PROVE  (a + S) % S = a % S
<1> DEFINE m == 1
<1>1. m \in Int /\ a + S = a + S * m
  OBVIOUS
<1> HIDE DEF m
<1>2. (a + S * m) % S = a % S
  BY <1>1, Turns
<1> QED BY <1>1, <1>2

LEMMA RemainderPlus ==
  ASSUME NEW S \in Nat \ {0}, NEW a \in Int, NEW k \in Int
  PROVE  ((a % S) + k) % S = (a + k) % S
<1> DEFINE r == a % S
           q == a \div S
<1>1. r \in 0 .. S - 1 /\ q \in Int /\ a = S * q + r
  BY Quotient
<1> HIDE DEF r, q
<1>2. a + k = (r + k) + S * q
  BY <1>1
<1>3. ((r + k) + S * q) % S = (r + k) % S
  <2>1. r + k \in Int
    BY <1>1
  <2> HIDE DEF r, q
  <2> QED BY <1>1, <2>1, Turns
<1> QED BY <1>2, <1>3 DEF r

(* A number and its word have the same buffer. *)
LEMMA BufferOfWord ==
  ASSUME NEW a \in Int
  PROVE  Buffer(Word(a)) = Buffer(a)
<1> DEFINE r == a % SeqMod
           q == a \div SeqMod
           t == SeqMod \div NBufs
<1>1. r \in Int /\ q \in Int /\ a = SeqMod * q + r
  BY Quotient
<1>2. t \in Int /\ SeqMod = NBufs * t
  <2>1. SeqMod = NBufs * (SeqMod \div NBufs) + (SeqMod % NBufs) /\ SeqMod \div NBufs \in Int
    BY Quotient
  <2> QED BY <2>1
<1> HIDE DEF r, q, t
<1>3. a = r + NBufs * (t * q) /\ t * q \in Int
  BY <1>1, <1>2
<1>4. a % NBufs = r % NBufs
  BY <1>1, <1>3, Turns
<1> QED BY <1>4 DEF r, Buffer, Word

LEMMA BufferPlus ==
  ASSUME NEW a \in Int, NEW k \in Int
  PROVE  Buffer(Word(a) + k) = Buffer(a + k)
<1>1. Word(a) \in Int
  BY Quotient DEF Word
<1>2. Buffer(Word(a) + k) = Buffer(Buffer(Word(a)) + k)
  BY <1>1, RemainderPlus DEF Buffer
<1>3. Buffer(a + k) = Buffer(Buffer(a) + k)
  BY RemainderPlus DEF Buffer
<1> QED BY <1>2, <1>3, BufferOfWord

LEMMA WordPlus ==
  ASSUME NEW a \in Int, NEW k \in Int
  PROVE  Word(Word(a) + k) = Word(a + k)
BY RemainderPlus DEF Word

LEMMA SameBuffer ==
  ASSUME NEW a \in Int, NEW b \in Int, Buffer(a) = Buffer(b), a - b < NBufs, b - a < NBufs
  PROVE  a = b
BY SameRemainder DEF Buffer

LEMMA Types ==
  ASSUME NEW a \in Int
  PROVE  Word(a) \in 0 .. SeqMod - 1 /\ Buffer(a) \in 0 .. NBufs - 1
BY Quotient DEF Word, Buffer
------------------------------------------------------------------------------
(* The window: a word it admits is that of a number at most WinWrap after  *)
(* the one due, if the number is not too old.                              *)
LEMMA Admitted ==
  ASSUME NEW d \in Int, last_packet = Word(d), NEW n \in Int, InWindow(Word(n)),
         n < d + WinBufs, n + SeqMod >= d + WinBufs
  PROVE  n \in d .. d + WinWrap
<1> DEFINE w == Word(d)
           s == Word(n)
<1>1. w \in 0 .. SeqMod - 1 /\ s \in 0 .. SeqMod - 1
  BY Types
<1>2. Word(w + WinWrap) = IF w + WinWrap < SeqMod THEN w + WinWrap ELSE w + WinWrap - SeqMod
  <2>0. WinWrap \in 1 .. SeqMod - 1
    BY DEF WinWrap
  <2>1. CASE w + WinWrap < SeqMod
    BY <1>1, <2>0, <2>1, SMT DEF Word
  <2>2. CASE w + WinWrap >= SeqMod
    <3>1. w + WinWrap - SeqMod \in 0 .. SeqMod - 1
      BY <1>1, <2>0, <2>2
    <3>2. w + WinWrap = (w + WinWrap - SeqMod) + SeqMod * 1
      BY <1>1, <2>0
    <3>3. ((w + WinWrap - SeqMod) + SeqMod * 1) % SeqMod = w + WinWrap - SeqMod
      BY <3>1, RemainderOf
    <3> QED BY <2>0, <1>1, <2>2, <3>2, <3>3 DEF Word
  <2> QED BY <1>1, <2>0, <2>1, <2>2
<1>3. PICK j \in 0 .. WinWrap, e \in {0, 1} : s = w + j - SeqMod * e
  <2> HIDE DEF w, s
  <2>1. WinWrap \in 1 .. SeqMod - 1
    BY DEF WinWrap
  <2>2. InWindow(s) /\ last_packet = w
    BY DEF w, s
  <2>3. CASE w + WinWrap < SeqMod
    <3>1. s - w \in 0 .. WinWrap
      BY <1>1, <1>2, <2>1, <2>2, <2>3 DEF InWindow
    <3>2. s = w + (s - w) - SeqMod * 0
      BY <1>1
    <3> QED BY <3>1, <3>2
  <2>4. CASE w + WinWrap >= SeqMod
    <3>1. s >= w \/ s <= w + WinWrap - SeqMod
      BY <1>1, <1>2, <2>1, <2>2, <2>4 DEF InWindow
    <3>2. CASE s >= w
      <4>1. s - w \in 0 .. WinWrap /\ s = w + (s - w) - SeqMod * 0
        BY <1>1, <2>1, <2>4, <3>2
      <4> QED BY <4>1
    <3>3. CASE s <= w + WinWrap - SeqMod
      <4>1. s + SeqMod - w \in 0 .. WinWrap /\ s = w + (s + SeqMod - w) - SeqMod * 1
        BY <1>1, <2>1, <2>4, <3>3
      <4> QED BY <4>1
    <3> QED BY <3>1, <3>2, <3>3
  <2> QED BY <1>1, <2>1, <2>3, <2>4
<1>4. Word(d + j) = Word(n)
  <2> DEFINE qd == d \div SeqMod
             qn == n \div SeqMod
  <2>1. qd \in Int /\ qn \in Int /\ d = SeqMod * qd + w /\ n = SeqMod * qn + s
    BY Quotient DEF Word
  <2> HIDE DEF qd, qn, w, s
  <2>2. d + j = n + SeqMod * (qd - qn + e) /\ qd - qn + e \in Int
    BY <2>1, <1>1, <1>3
  <2>3. (n + SeqMod * (qd - qn + e)) % SeqMod = n % SeqMod
    BY <2>2, Turns
  <2> QED BY <2>2, <2>3 DEF Word
<1>5. d + j = n
  <2> DEFINE a == d + j
  <2>1. a - n < SeqMod /\ n - a < SeqMod
    <3>1. j \in 0 .. WinBufs - 1
      BY <1>3 DEF WinWrap
    <3> QED BY <3>1
  <2>2. a \in Int
    BY DEF WinWrap
  <2>3. a % SeqMod = n % SeqMod
    BY <1>4 DEF Word
  <2> HIDE DEF w, s, a
  <2> QED BY <2>1, <2>2, <2>3, SameRemainder DEF a
<1> QED BY <1>3, <1>5 DEF WinWrap
------------------------------------------------------------------------------
(* What a call of send_dack finds in sequence, and what it leaves.         *)
LEMMA Least ==
  ASSUME NEW S \in SUBSET Nat, S # {}
  PROVE  \E n \in S : \A m \in S : n <= m
<1> DEFINE R == OpToRel(<, Nat)
<1>1. IsWellFoundedOn(R, Nat)
  BY NatLessThanWellFounded
<1>2. PICK n \in S : \A m \in S : << m, n >> \notin R
  <2> HIDE DEF R
  <2> QED BY <1>1, WFMin
<1>3. \A m \in S : ~ (m < n)
  BY <1>2 DEF OpToRel
<1> QED BY <1>3

LEMMA ReadyCounts ==
  ASSUME NEW bufs, NEW w
  PROVE  /\ Ready(bufs, w) \in 0 .. NBufs
         /\ \A i \in 0 .. Ready(bufs, w) - 1 : bufs[Buffer(w + i)] # Empty
         /\ Ready(bufs, w) < NBufs => bufs[Buffer(w + Ready(bufs, w))] = Empty
<1> DEFINE Gaps == {k \in 0 .. NBufs : k = NBufs \/ bufs[Buffer(w + k)] = Empty}
           Full(k) == /\ \A i \in 0 .. k - 1 : bufs[Buffer(w + i)] # Empty
                      /\ k < NBufs => bufs[Buffer(w + k)] = Empty
<1>1. Gaps \in SUBSET Nat /\ NBufs \in Gaps
  OBVIOUS
<1>2. PICK k \in Gaps : \A m \in Gaps : k <= m
  <2> HIDE DEF Gaps
  <2> QED BY <1>1, Least
<1>3. k \in 0 .. NBufs /\ Full(k)
  BY <1>2
<1>4. \E m \in 0 .. NBufs : Full(m)
  BY <1>3
<1>5. Ready(bufs, w) = CHOOSE m \in 0 .. NBufs : Full(m)
  BY DEF Ready
<1>6. Ready(bufs, w) \in 0 .. NBufs /\ Full(Ready(bufs, w))
  <2> HIDE DEF Full
  <2> QED BY <1>4, <1>5
<1> QED BY <1>6

(* A buffer of the window that is valid holds the number it stands for.    *)
LEMMA InItsBuffer ==
  ASSUME NEW d \in Int, NEW bufs, BuffersFit(bufs, d),
         NEW k \in 0 .. NBufs - 1, bufs[Buffer(d + k)] # Empty
  PROVE  bufs[Buffer(d + k)] = d + k /\ k <= WinWrap
<1> DEFINE m == bufs[Buffer(d + k)]
<1>1. Buffer(d + k) \in 0 .. NBufs - 1
  BY Types
<1>2. m \in d .. d + WinWrap /\ Buffer(m) = Buffer(d + k)
  BY <1>1 DEF BuffersFit
<1>3. m = d + k
  <2> HIDE DEF m
  <2>1. m \in Int /\ m - (d + k) < NBufs /\ (d + k) - m < NBufs
    BY <1>2 DEF WinWrap
  <2> QED BY <1>2, <2>1, SameBuffer
<1> QED BY <1>2, <1>3 DEF WinWrap

LEMMA DackWith ==
  ASSUME NEW n, NEW bits, NEW low
  PROVE  [Dack(n, bits) EXCEPT !.low = low] = [kind |-> "dack", low |-> low, bits |-> bits, n |-> n]
BY DEF Dack

(* send_dack with the buffers bufs, on a link: what it hands over is due,  *)
(* what it leaves fits the window after that, and everything held before   *)
(* is held still.                                                          *)
LEMMA DackSent ==
  ASSUME NEW bufs, bufs \in [0 .. NBufs - 1 -> {Empty} \cup (First .. fresh - 1)],
         BuffersFit(bufs, due), last_packet = Word(due), due \in Nat, First <= due, due <= fresh, fresh \in Nat,
         SendDack(bufs)
  PROVE  \E k \in 0 .. NBufs :
           /\ due' = due + k /\ due' <= fresh
           /\ batch' = IF k = 0 THEN batch ELSE [i \in 1 .. k |-> due + i - 1]
           /\ last_packet' = Word(due')
           /\ pkt_bufs' \in [0 .. NBufs - 1 -> {Empty} \cup (First .. fresh - 1)]
           /\ BuffersFit(pkt_bufs', due')
           /\ pkt_bufs'[Buffer(due')] = Empty
           /\ \A n \in Int : HeldIn(n, bufs, due) => HeldIn(n, pkt_bufs', due')
           /\ DackFits(dataout', pkt_bufs', due') /\ dataout'.n = due' - 1
           /\ acks' = acks \/ acks' = acks \cup {dataout'}
           /\ ack_delay' \in BOOLEAN
           /\ ack_counter \in Nat => ack_counter' \in Nat /\ (ack_counter' = 0 \/ ack_counter' < AckCnt)
<1> DEFINE k == Ready(bufs, last_packet)
           taken == [i \in 1 .. k |-> bufs[Buffer(last_packet + i - 1)]]
           gone == {Buffer(last_packet + i) : i \in 0 .. k - 1}
           left == Drained(bufs, gone)
           next == Word(last_packet + k)
           after == IF k > 0 THEN taken[k] + 1 ELSE due
           msg == [Dack(after - 1, HeldBits(left, next)) EXCEPT !.low = Word(next - 1)]
<1>0. /\ k \in 0 .. NBufs
      /\ \A i \in 0 .. k - 1 : bufs[Buffer(last_packet + i)] # Empty
      /\ k < NBufs => bufs[Buffer(last_packet + k)] = Empty
  BY ReadyCounts
<1>15. /\ pkt_bufs' = left /\ last_packet' = next /\ due' = after
       /\ batch' = IF k > 0 THEN taken ELSE batch
       /\ dataout' = msg /\ (acks' = acks \/ acks' = acks \cup {msg}) /\ ack_delay' \in BOOLEAN
  BY DEF SendDack
<1>16. ack_counter \in Nat => ack_counter' \in Nat /\ (ack_counter' = 0 \/ ack_counter' < AckCnt)
  BY DEF SendDack
<1> HIDE DEF k
<1>1. \A i \in 0 .. k - 1 : bufs[Buffer(due + i)] = due + i /\ i <= WinWrap
  <2> SUFFICES ASSUME NEW i \in 0 .. k - 1
               PROVE  bufs[Buffer(due + i)] = due + i /\ i <= WinWrap
    OBVIOUS
  <2>1. i \in 0 .. NBufs - 1
    BY <1>0
  <2>2. bufs[Buffer(last_packet + i)] # Empty
    BY <1>0
  <2>3. Buffer(last_packet + i) = Buffer(due + i)
    BY BufferPlus, <2>1
  <2> QED BY <2>1, <2>2, <2>3, InItsBuffer
<1>2. last_packet \in Int
  BY Types
<1>3. \A i \in 1 .. k : taken[i] = due + i - 1
  <2> SUFFICES ASSUME NEW i \in 1 .. k PROVE taken[i] = due + i - 1
    OBVIOUS
  <2>1. i - 1 \in 0 .. k - 1 /\ last_packet + i - 1 = last_packet + (i - 1) /\ i \in Int
    BY <1>0, <1>2
  <2>2. Buffer(last_packet + i - 1) = Buffer(due + (i - 1))
    BY <2>1, BufferPlus
  <2>3. taken[i] = bufs[Buffer(due + (i - 1))]
    BY <2>2
  <2>4. bufs[Buffer(due + (i - 1))] = due + (i - 1)
    BY <1>1, <2>1
  <2> QED BY <2>1, <2>3, <2>4
<1>4. after = due + k
  <2> HIDE DEF taken
  <2> QED BY <1>0, <1>3
<1>5. due + k <= fresh
  <2>1. CASE k = 0
    BY <2>1
  <2>2. CASE k > 0
    <3>0. k - 1 \in 0 .. k - 1 /\ due + (k - 1) \in Int
      BY <1>0, <2>2
    <3>1. bufs[Buffer(due + (k - 1))] = due + (k - 1)
      BY <3>0, <1>1
    <3>2. Buffer(due + (k - 1)) \in 0 .. NBufs - 1
      BY <3>0, Types
    <3>3. due + (k - 1) \in {Empty} \cup (First .. fresh - 1)
      BY <3>1, <3>2
    <3> QED BY <3>3, <1>0, <2>2 DEF Empty
  <2> QED BY <1>0, <2>1, <2>2
<1>6. next = Word(due + k)
  BY <1>0, WordPlus
<1>7. gone = {Buffer(due + i) : i \in 0 .. k - 1}
  <2>1. \A i \in 0 .. k - 1 : Buffer(last_packet + i) = Buffer(due + i)
    BY <1>0, BufferPlus
  <2> QED BY <2>1
<1>8. left \in [0 .. NBufs - 1 -> {Empty} \cup (First .. fresh - 1)]
  BY DEF Drained
<1>9. \A b \in 0 .. NBufs - 1 : left[b] = IF b \in gone THEN Empty ELSE bufs[b]
  BY DEF Drained
<1>10. BuffersFit(left, due + k)
  <2> SUFFICES ASSUME NEW b \in 0 .. NBufs - 1, left[b] # Empty
               PROVE  left[b] \in due + k .. due + k + WinWrap /\ Buffer(left[b]) = b
    BY DEF BuffersFit
  <2>1. b \notin gone /\ left[b] = bufs[b]
    BY <1>9
  <2>2. bufs[b] \in due .. due + WinWrap /\ Buffer(bufs[b]) = b
    BY <2>1 DEF BuffersFit
  <2>3. bufs[b] >= due + k
    <3>1. SUFFICES ASSUME bufs[b] < due + k PROVE FALSE
      BY <1>0, <2>2
    <3>2. bufs[b] - due \in 0 .. k - 1 /\ bufs[b] = due + (bufs[b] - due)
      BY <1>0, <2>2, <3>1
    <3>3. b \in gone
      BY <1>7, <2>2, <3>2
    <3> QED BY <2>1, <3>3
  <2> QED BY <1>0, <2>1, <2>2, <2>3 DEF WinWrap
<1>11. left[Buffer(due + k)] = Empty
  <2>0. due + k \in Int
    BY <1>0
  <2>1. Buffer(due + k) \in 0 .. NBufs - 1
    BY <2>0, Types
  <2>2. CASE k < NBufs
    <3>1. bufs[Buffer(last_packet + k)] = Empty
      BY <1>0, <2>2
    <3>2. Buffer(last_packet + k) = Buffer(due + k)
      BY <1>0, BufferPlus
    <3> QED BY <1>9, <2>1, <3>1, <3>2
  <2>3. CASE k = NBufs
    <3>0. due \in Int
      OBVIOUS
    <3>1. (due + NBufs) % NBufs = due % NBufs
      BY <3>0, OneTurn, Zenon
    <3>2. Buffer(due + k) = Buffer(due + 0) /\ 0 \in 0 .. k - 1
      BY <2>3, <3>1 DEF Buffer
    <3>3. Buffer(due + k) \in gone
      BY <1>7, <3>2
    <3> QED BY <1>9, <2>1, <3>3
  <2> QED BY <1>0, <2>2, <2>3
<1>12. \A n \in Int : HeldIn(n, bufs, due) => HeldIn(n, left, due + k)
  <2> SUFFICES ASSUME NEW n \in Int, HeldIn(n, bufs, due) PROVE HeldIn(n, left, due + k)
    OBVIOUS
  <2>1. Buffer(n) \in 0 .. NBufs - 1
    BY Types
  <2>2. CASE n < due
    BY <1>0, <2>2 DEF HeldIn
  <2>3. CASE bufs[Buffer(n)] = n /\ Buffer(n) \notin gone
    BY <1>9, <2>1, <2>3 DEF HeldIn
  <2>4. CASE bufs[Buffer(n)] = n /\ Buffer(n) \in gone
    <3>1. PICK i \in 0 .. k - 1 : Buffer(n) = Buffer(due + i)
      BY <1>7, <2>4
    <3>2. n = due + i
      BY <1>1, <2>4, <3>1
    <3> QED BY <1>0, <3>2 DEF HeldIn
  <2> QED BY <2>2, <2>3, <2>4 DEF HeldIn
<1>13. msg.kind = "dack" /\ msg.n = due + k - 1 /\ msg.low = Word(due + k - 1) /\ msg.bits = HeldBits(left, next)
  <2>1. Word(next - 1) = Word(due + k - 1)
    <3>1. next - 1 = Word(due + k) + (-1) /\ due + k \in Int /\ -1 \in Int
      BY <1>0, <1>6, Types
    <3>2. Word(Word(due + k) + (-1)) = Word((due + k) + (-1))
      BY <3>1, WordPlus
    <3>3. (due + k) + (-1) = due + k - 1
      BY <1>0
    <3> QED BY <3>1, <3>2, <3>3
  <2> HIDE DEF left, next, after
  <2>2. msg = [kind |-> "dack", low |-> Word(next - 1), bits |-> HeldBits(left, next), n |-> after - 1]
    <3> HIDE DEF msg
    <3>1. msg = [Dack(after - 1, HeldBits(left, next)) EXCEPT !.low = Word(next - 1)]
      BY Zenon DEF msg
    <3> QED BY <3>1, DackWith
  <2>3. after - 1 = due + k - 1
    BY <1>0, <1>4
  <2> HIDE DEF msg
  <2> QED BY <2>1, <2>2, <2>3
<1>14. \A i \in HeldBits(left, next) : i \in Bits /\ HeldIn(due + k - 1 + i, left, due + k)
  <2> SUFFICES ASSUME NEW i \in HeldBits(left, next)
               PROVE  i \in Bits /\ HeldIn(due + k - 1 + i, left, due + k)
    OBVIOUS
  <2> HIDE DEF left
  <2>1. i \in 1 .. WinBufs - 1 /\ left[Buffer(next + i - 1)] # Empty
    BY DEF HeldBits, Bits
  <2>2. next + i - 1 = Word(due + k) + (i - 1) /\ i - 1 \in 0 .. NBufs - 1 /\ due + k \in Int
    BY <1>0, <1>6, <2>1, Types
  <2>3. Buffer(next + i - 1) = Buffer((due + k) + (i - 1))
    BY <2>2, BufferPlus
  <2>4. left[Buffer((due + k) + (i - 1))] = (due + k) + (i - 1)
    BY <1>10, <2>1, <2>2, <2>3, InItsBuffer
  <2>5. (due + k) + (i - 1) = due + k - 1 + i
    BY <2>1, <1>0
  <2> QED BY <2>1, <2>4, <2>5 DEF HeldIn, Bits
<1>17. due' = due + k /\ batch' = IF k = 0 THEN batch ELSE [i \in 1 .. k |-> due + i - 1]
  <2>1. CASE k = 0
    BY <1>0, <1>4, <1>15, <2>1
  <2>2. CASE k > 0
    <3>1. taken = [i \in 1 .. k |-> due + i - 1]
      BY <1>3
    <3> HIDE DEF taken
    <3> QED BY <1>4, <1>15, <2>2, <3>1
  <2> QED BY <1>0, <2>1, <2>2
<1>18. DackFits(dataout', pkt_bufs', due') /\ dataout'.n = due' - 1
  <2>1. due + k - 1 \in First - 1 .. due + k - 1
    BY <1>0
  <2> HIDE DEF msg, left, next, after
  <2>2. dataout' = msg /\ pkt_bufs' = left /\ due' = due + k
    BY <1>15, <1>17
  <2>3. \A i \in msg.bits : i \in Bits /\ HeldIn(msg.n + i, left, due + k)
    BY <1>13, <1>14
  <2>5. msg.n = due + k - 1 /\ msg.kind = "dack" /\ msg.low = Word(msg.n)
    BY <1>13
  <2>6. msg.n \in First - 1 .. (due + k) - 1
    <3>1. First - 1 <= due + k - 1 /\ due + k - 1 \in Int
      BY <1>0
    <3> QED BY <1>0, <2>5, <3>1
  <2>7. msg.bits \subseteq Bits /\ \A i \in msg.bits : HeldIn(msg.n + i, left, due + k)
    BY <2>3
  <2>4. DackFits(msg, left, due + k)
    BY <2>5, <2>6, <2>7, Zenon DEF DackFits
  <2>8. DackFits(dataout', pkt_bufs', due')
    BY <2>2, <2>4, Zenon
  <2>9. dataout'.n = due' - 1
    BY <1>0, <2>2, <2>5
  <2> QED BY <2>8, <2>9
<1> HIDE DEF msg, left, next, after, taken
<1> QED BY <1>0, <1>5, <1>6, <1>8, <1>10, <1>11, <1>12, <1>15, <1>16, <1>17, <1>18
------------------------------------------------------------------------------
(* WindowInv is inductive: the initial states, then one lemma per group of *)
(* actions.                                                                *)
LEMMA WindowInit ==
  ASSUME Init
  PROVE  WindowInv
<1>1. TypeOK
  <2>1. 0 \in 0 .. SeqMod - 1 /\ 0 \in 0 .. MaxBreaks /\ First \in First .. Last /\ First \in First .. First
    OBVIOUS
  <2>2. pkt_bufs \in [0 .. NBufs - 1 -> {Empty} \cup (First .. Last - 1)]
    BY DEF Init
  <2>3. dataout.kind = "open"
    BY DEF Init, Open
  <2> QED BY <2>1, <2>2, <2>3 DEF Init, TypeOK
<1>2. Linked /\ Numbers /\ Buffers /\ DataRecent /\ AcksFit /\ DataoutFits
  BY DEF Init, Linked, Numbers, Buffers, DataRecent, AcksFit, DataoutFits, Empty
<1>3. AckedIsHeld
  BY DEF Init, AckedIsHeld
<1> QED BY <1>1, <1>2, <1>3 DEF WindowInv

LEMMA AgeOfData ==
  ASSUME WindowInv, link_recv, NEW n \in data
  PROVE  n \in First .. fresh - 1 /\ n < due + WinBufs /\ n + SeqMod >= due + WinBufs
<1>1. n \in First .. fresh - 1 /\ due \in Nat /\ due <= fresh /\ fresh \in Nat /\ kept \in Nat
  BY DEF WindowInv, TypeOK
<1>2. kept <= due /\ fresh <= kept + SendWin
  BY DEF WindowInv, Numbers
<1>3. n + MaxAge >= fresh \/ n + SendWin >= fresh
  BY DEF WindowInv, DataRecent, Recent
<1> QED BY <1>1, <1>2, <1>3

(* Packet n put into its buffer, if the window admits its word. *)
LEMMA PacketKept ==
  ASSUME WindowInv, link_recv, NEW n \in data, NEW bufs,
         bufs = IF InWindow(Word(n)) THEN [pkt_bufs EXCEPT ![Buffer(Word(n))] = n] ELSE pkt_bufs
  PROVE  /\ bufs \in [0 .. NBufs - 1 -> {Empty} \cup (First .. fresh - 1)]
         /\ BuffersFit(bufs, due)
         /\ \A x \in Int : HeldIn(x, pkt_bufs, due) => HeldIn(x, bufs, due)
<1>1. /\ pkt_bufs \in [0 .. NBufs - 1 -> {Empty} \cup (First .. fresh - 1)]
      /\ BuffersFit(pkt_bufs, due) /\ last_packet = Word(due) /\ due \in Nat /\ fresh \in Nat
  BY DEF WindowInv, TypeOK, Buffers, Empty
<1>2. n \in First .. fresh - 1 /\ n < due + WinBufs /\ n + SeqMod >= due + WinBufs
  BY AgeOfData
<1>3. CASE ~ InWindow(Word(n))
  BY <1>1, <1>3
<1>4. CASE InWindow(Word(n))
  <2>1. n \in due .. due + WinWrap /\ n \in Int
    BY <1>1, <1>2, <1>4, Admitted
  <2>2. Buffer(Word(n)) = Buffer(n) /\ Buffer(n) \in 0 .. NBufs - 1
    BY <2>1, BufferOfWord, Types
  <2>3. bufs = [pkt_bufs EXCEPT ![Buffer(n)] = n]
    BY <1>4, <2>2
  <2>4. bufs \in [0 .. NBufs - 1 -> {Empty} \cup (First .. fresh - 1)]
    BY <1>1, <1>2, <2>2, <2>3
  <2>5. \A b \in 0 .. NBufs - 1 : bufs[b] = IF b = Buffer(n) THEN n ELSE pkt_bufs[b]
    BY <1>1, <2>2, <2>3
  <2>6. BuffersFit(bufs, due)
    BY <1>1, <2>1, <2>5 DEF BuffersFit
  <2>7. ASSUME NEW x \in Int, HeldIn(x, pkt_bufs, due) PROVE HeldIn(x, bufs, due)
    <3>1. Buffer(x) \in 0 .. NBufs - 1
      BY Types
    <3>2. CASE Buffer(x) # Buffer(n) \/ x < due
      BY <2>5, <2>7, <3>1, <3>2 DEF HeldIn
    <3>3. CASE Buffer(x) = Buffer(n) /\ ~ (x < due)
      <4>1. pkt_bufs[Buffer(x)] = x /\ x # Empty
        BY <1>1, <2>7, <3>3 DEF HeldIn, Empty
      <4>2. x \in due .. due + WinWrap
        BY <1>1, <3>1, <4>1 DEF BuffersFit
      <4>3. x - n < NBufs /\ n - x < NBufs
        BY <1>1, <2>1, <4>2 DEF WinWrap
      <4>4. x = n
        BY <2>1, <3>3, <4>3, SameBuffer
      <4> QED BY <2>5, <3>1, <4>4 DEF HeldIn
    <3> QED BY <3>2, <3>3
  <2> QED BY <2>4, <2>6, <2>7
<1> QED BY <1>3, <1>4

LEMMA ProcessStep ==
  ASSUME WindowInv, NEW n \in data, ProcessData(n)
  PROVE  WindowInv'
<1>0. /\ TypeOK /\ Linked /\ Numbers /\ Buffers /\ AckedIsHeld /\ DataRecent /\ AcksFit /\ DataoutFits
      /\ data' \subseteq data /\ UNCHANGED << opened, kept, fresh, acked, breaks >>
  BY DEF WindowInv, ProcessData, digitizer
<1>1. CASE ~ (link_recv /\ running)
  <2>1. UNCHANGED << receiver, acks >>
    BY <1>1 DEF ProcessData
  <2>2. TypeOK' /\ Linked' /\ Numbers' /\ Buffers'
    BY <1>0, <2>1 DEF TypeOK, Linked, Numbers, Buffers, receiver, BuffersFit
  <2>3. AckedIsHeld' /\ DataRecent' /\ AcksFit' /\ DataoutFits'
    BY <1>0, <2>1 DEF AckedIsHeld, DataRecent, AcksFit, DataoutFits, receiver, Recent, DackFits, HeldIn
  <2> QED BY <2>2, <2>3 DEF WindowInv
<1>2. CASE link_recv /\ running
  <2> DEFINE bufs == IF InWindow(Word(n)) THEN [pkt_bufs EXCEPT ![Buffer(Word(n))] = n] ELSE pkt_bufs
  <2>1. SendDack(bufs) /\ link_recv' /\ running' /\ UNCHANGED << link_recv, running >>
    BY <1>2 DEF ProcessData
  <2>2. /\ bufs \in [0 .. NBufs - 1 -> {Empty} \cup (First .. fresh - 1)]
        /\ BuffersFit(bufs, due)
        /\ \A x \in Int : HeldIn(x, pkt_bufs, due) => HeldIn(x, bufs, due)
    BY <1>2, PacketKept
  <2>3. /\ last_packet = Word(due) /\ due \in Nat /\ First <= due /\ due <= fresh /\ fresh \in Nat
        /\ kept \in First .. fresh /\ kept <= due /\ ack_counter \in Nat
    BY <1>0, <1>2 DEF Buffers, TypeOK, Numbers
  <2> HIDE DEF bufs
  <2>4. PICK k \in 0 .. NBufs :
          /\ due' = due + k /\ due' <= fresh
          /\ batch' = IF k = 0 THEN batch ELSE [i \in 1 .. k |-> due + i - 1]
          /\ last_packet' = Word(due')
          /\ pkt_bufs' \in [0 .. NBufs - 1 -> {Empty} \cup (First .. fresh - 1)]
          /\ BuffersFit(pkt_bufs', due')
          /\ pkt_bufs'[Buffer(due')] = Empty
          /\ \A x \in Int : HeldIn(x, bufs, due) => HeldIn(x, pkt_bufs', due')
          /\ DackFits(dataout', pkt_bufs', due') /\ dataout'.n = due' - 1
          /\ acks' = acks \/ acks' = acks \cup {dataout'}
          /\ ack_delay' \in BOOLEAN
          /\ ack_counter' \in Nat /\ (ack_counter' = 0 \/ ack_counter' < AckCnt)
    BY <2>1, <2>2, <2>3, DackSent
  <2>5. \A x \in Int : HeldIn(x, pkt_bufs, due) => HeldIn(x, pkt_bufs', due')
    BY <2>2, <2>4
  <2>6. due' \in Int /\ due' \in First .. fresh /\ due <= due'
    BY <2>3, <2>4
  <2>7. last_packet' \in 0 .. SeqMod - 1
    BY <2>4, <2>6, Types
  <2>8. dataout'.kind = "dack"
    BY <2>4 DEF DackFits
  <2>9. TypeOK'
    <3>1. pkt_bufs' \in [0 .. NBufs - 1 -> {Empty} \cup (First .. Last - 1)]
      BY <1>0, <2>4 DEF TypeOK
    <3>2. \A a \in acks' : a.kind \in {"open", "dack"}
      BY <1>0, <2>4, <2>8 DEF TypeOK
    <3> QED BY <1>0, <2>1, <2>4, <2>6, <2>7, <2>8, <3>1, <3>2 DEF TypeOK
  <2>10. Linked' /\ Numbers'
    BY <1>0, <2>1, <2>3, <2>4 DEF Linked, Numbers
  <2>11. Buffers'
    <3>1. \A b \in 0 .. NBufs - 1 : pkt_bufs'[b] < fresh
      BY <2>3, <2>4 DEF Empty
    <3>2. BuffersFit(pkt_bufs, due)'
      BY <2>4 DEF BuffersFit
    <3>3. last_packet' = Word(due)' /\ pkt_bufs'[Buffer(due)'] = Empty
      BY <2>4 DEF Word, Buffer
    <3> QED BY <1>0, <2>4, <3>1, <3>2, <3>3 DEF Buffers
  <2>12. AckedIsHeld'
    <3>1. \A x \in acked \cup (First .. kept - 1) : x \in Int /\ HeldIn(x, pkt_bufs, due)
      BY <1>0, <2>3 DEF AckedIsHeld, HeldIn, TypeOK
    <3>2. \A x \in acked \cup (First .. kept - 1) : HeldIn(x, pkt_bufs', due')
      BY <2>5, <3>1
    <3> QED BY <1>0, <3>2 DEF AckedIsHeld, HeldIn, Buffer
  <2>13. DataRecent'
    BY <1>0 DEF DataRecent, Recent
  <2>14. \A a \in acks : a = Open \/ (DackFits(a, pkt_bufs', due') /\ Recent(a.n + 1))
    <3> SUFFICES ASSUME NEW a \in acks, a # Open
                 PROVE  DackFits(a, pkt_bufs', due') /\ Recent(a.n + 1)
      OBVIOUS
    <3>1. DackFits(a, pkt_bufs, due) /\ Recent(a.n + 1)
      BY <1>0 DEF AcksFit
    <3>2. a.n \in First - 1 .. due - 1 /\ a.bits \subseteq Bits
      BY <3>1 DEF DackFits
    <3>3. ASSUME NEW i \in a.bits PROVE HeldIn(a.n + i, pkt_bufs', due')
      <4>1. a.n + i \in Int
        BY <2>3, <3>2 DEF Bits
      <4>2. HeldIn(a.n + i, pkt_bufs, due)
        BY <3>1 DEF DackFits
      <4> QED BY <2>5, <4>1, <4>2
    <3>4. a.n \in First - 1 .. due' - 1
      BY <2>3, <2>6, <3>2
    <3>5. DackFits(a, pkt_bufs', due')
      BY <3>1, <3>2, <3>3, <3>4, Zenon DEF DackFits
    <3> QED BY <3>1, <3>5
  <2>15. Recent(dataout'.n + 1)
    <3>1. dataout'.n + 1 = due'
      BY <2>4, <2>6
    <3>2. due' + SendWin >= fresh
      BY <1>0, <2>3, <2>4, <2>6 DEF Numbers
    <3> QED BY <3>1, <3>2 DEF Recent
  <2>16. AcksFit' /\ DataoutFits'
    <3>1. \A a : DackFits(a, pkt_bufs', due') => DackFits(a, pkt_bufs, due)'
      BY DEF DackFits, HeldIn, Buffer, Word, Bits
    <3>2. \A a \in acks' : a = Open \/ (DackFits(a, pkt_bufs', due') /\ Recent(a.n + 1))
      BY <2>4, <2>14, <2>15
    <3>3. \A a \in acks' : a = Open \/ (DackFits(a, pkt_bufs, due)' /\ Recent(a.n + 1)')
      BY <1>0, <3>1, <3>2 DEF Recent
    <3>4. AcksFit'
      BY <3>3 DEF AcksFit, Open
    <3>5. DataoutFits'
      BY <2>4, <3>1 DEF DataoutFits, DackFits, HeldIn
    <3> QED BY <3>4, <3>5
  <2> QED BY <2>9, <2>10, <2>11, <2>12, <2>13, <2>16 DEF WindowInv
<1> QED BY <1>1, <1>2

(* The digitizer takes an acknowledgement for the one it is, and all that  *)
(* it takes for acknowledged is held.                                      *)
LEMMA GetDackStep ==
  ASSUME WindowInv, NEW a \in acks, GetDack(a)
  PROVE  WindowInv' /\ kept' \in kept .. due
<1>0. TypeOK /\ Linked /\ Numbers /\ Buffers /\ AckedIsHeld /\ DataRecent /\ AcksFit /\ DataoutFits
  BY DEF WindowInv
<1>1. kept \in Nat /\ fresh \in Nat /\ due \in Nat /\ kept <= due /\ First <= kept /\ kept <= fresh
      /\ fresh <= kept + SendWin /\ due <= fresh
  BY <1>0 DEF TypeOK, Numbers
<1>2. link_recv
  BY <1>0 DEF Linked
<1>3. DackFits(a, pkt_bufs, due) /\ Recent(a.n + 1)
  BY <1>0 DEF AcksFit, GetDack, Open
<1>4. a.n \in First - 1 .. due - 1 /\ a.low = Word(a.n) /\ a.bits \subseteq Bits
      /\ \A i \in a.bits : HeldIn(a.n + i, pkt_bufs, due)
  BY <1>3 DEF DackFits
<1>5. a.n + 1 + MaxAge >= fresh \/ a.n + 1 + SendWin >= fresh
  BY <1>3 DEF Recent
<1> DEFINE All(n) == acked \cup (kept .. n) \cup {n + i : i \in a.bits}
           Upto(n, k) == (kept .. k - 1 \subseteq All(n)) /\ (k < fresh => k \notin All(n))
           K(n) == CHOOSE k \in kept .. fresh : Upto(n, k)
<1>6. PICK n \in kept - 1 .. fresh - 1 :
        Word(n) = a.low /\ kept' = K(n) /\ acked' = All(n) \cap (K(n) .. fresh - 1)
  BY DEF GetDack
<1>7. n = a.n
  <2>1. n \in Int /\ a.n \in Int /\ Word(n) = Word(a.n)
    BY <1>1, <1>4, <1>6
  <2>2. n - a.n < SeqMod /\ a.n - n < SeqMod
    BY <1>1, <1>4, <1>5, <1>6, <2>1
  <2> QED BY <2>1, <2>2, SameRemainder DEF Word
<1>8. \A x \in All(n) : x \in Int /\ HeldIn(x, pkt_bufs, due)
  <2> SUFFICES ASSUME NEW x \in All(n) PROVE x \in Int /\ HeldIn(x, pkt_bufs, due)
    OBVIOUS
  <2>1. CASE x \in acked
    BY <1>0, <2>1, <1>1 DEF TypeOK, AckedIsHeld, HeldIn
  <2>2. CASE x \in kept .. n
    BY <1>1, <1>4, <1>7, <2>2 DEF HeldIn
  <2>3. CASE \E i \in a.bits : x = n + i
    BY <1>1, <1>4, <1>7, <2>3 DEF Bits
  <2> QED BY <2>1, <2>2, <2>3
<1>9. K(n) \in kept .. fresh /\ Upto(n, K(n))
  <2> DEFINE Ends == {k \in kept .. fresh : k = fresh \/ k \notin All(n)}
  <2>1. Ends \in SUBSET Nat /\ fresh \in Ends
    BY <1>1
  <2>2. PICK k \in Ends : \A m \in Ends : k <= m
    <3> HIDE DEF Ends
    <3> QED BY <2>1, Least
  <2>3. k \in kept .. fresh /\ Upto(n, k)
    <3> HIDE DEF All
    <3>1. k \in kept .. fresh /\ (k < fresh => k \notin All(n))
      BY <1>1, <2>2
    <3>2. ASSUME NEW m \in kept .. k - 1 PROVE m \in All(n)
      BY <1>1, <2>2, <3>1, <3>2
    <3> QED BY <3>1, <3>2
  <2> HIDE DEF Upto
  <2> QED BY <2>3
<1> HIDE DEF K, All
<1>10. K(n) <= due
  <2>1. SUFFICES ASSUME due < K(n) PROVE FALSE
    BY <1>1, <1>9
  <2>2. due \in All(n)
    BY <1>1, <1>9, <2>1
  <2>3. pkt_bufs[Buffer(due)] = due
    BY <1>1, <1>8, <2>2 DEF HeldIn
  <2> QED BY <1>0, <1>1, <1>2, <2>3 DEF Buffers, Empty
<1>11. /\ kept' \in kept .. due /\ kept' \in kept .. fresh
       /\ kept' \in Int /\ kept <= kept' /\ kept' <= due /\ kept' <= fresh
  <2>1. K(n) \in Int /\ kept <= K(n) /\ K(n) <= fresh /\ kept' = K(n)
    BY <1>1, <1>6, <1>9
  <2> QED BY <1>1, <1>10, <2>1
<1>12. /\ UNCHANGED << receiver, opened, fresh, data, breaks >> /\ acks' \subseteq acks
       /\ UNCHANGED << link_recv, running, last_packet, pkt_bufs, dataout, ack_counter, ack_delay, due, batch >>
  BY DEF GetDack, receiver
<1> DEFINE k == K(n)
<1>18. k \in kept .. due /\ k \in Nat
  BY <1>1, <1>9, <1>10
<1>19. k = kept'
  BY <1>6
<1> HIDE DEF k
<1>13. acked' \subseteq kept' + 1 .. fresh' - 1
  <2>1. acked' \subseteq k + 1 .. fresh - 1
    <3> SUFFICES ASSUME NEW x \in acked' PROVE x \in k + 1 .. fresh - 1
      OBVIOUS
    <3>1. x \in All(n) /\ x \in k .. fresh - 1
      BY <1>6 DEF k
    <3>2. x # k
      BY <1>1, <1>9, <3>1 DEF k
    <3> QED BY <1>1, <1>18, <3>1, <3>2
  <2> QED BY <1>12, <1>19, <2>1, Zenon
<1>14. TypeOK'
  <2>1. \A b \in acks' : b.kind \in {"open", "dack"}
    BY <1>0, <1>12 DEF TypeOK
  <2>2. kept' \in First .. fresh' /\ fresh' \in First .. Last /\ due' \in First .. fresh'
    BY <1>0, <1>1, <1>11, <1>12 DEF TypeOK
  <2> QED BY <1>0, <1>12, <1>13, <2>1, <2>2 DEF TypeOK
<1>15. Linked' /\ Numbers' /\ Buffers' /\ DataRecent'
  <2>1. Linked'
    BY <1>0, <1>2, <1>12 DEF Linked
  <2>2. Numbers'
    <3>1. k <= due /\ fresh <= k + SendWin
      BY <1>1, <1>18
    <3> QED BY <1>12, <1>19, <3>1, Zenon DEF Numbers
  <2>3. Buffers' /\ DataRecent'
    BY <1>0, <1>12 DEF Buffers, BuffersFit, DataRecent, Recent
  <2> QED BY <2>1, <2>2, <2>3
<1>16. AcksFit' /\ DataoutFits'
  BY <1>0, <1>12 DEF AcksFit, DataoutFits, DackFits, HeldIn, Recent, Open
<1>17. AckedIsHeld'
  <2> SUFFICES ASSUME NEW x \in acked' \cup (First .. kept' - 1)
               PROVE  x < due \/ pkt_bufs[Buffer(x)] = x
    BY <1>12 DEF AckedIsHeld, Buffer
  <2>1. CASE x \in acked'
    BY <1>6, <1>8, <2>1 DEF HeldIn
  <2>2. CASE x \in First .. kept' - 1
    <3>1. x \in First .. k - 1
      BY <1>19, <2>2, Zenon
    <3> QED BY <1>1, <1>18, <3>1
  <2> QED BY <2>1, <2>2
<1> QED BY <1>11, <1>14, <1>15, <1>16, <1>17 DEF WindowInv

(* The timers send what is in dataout, or put a DT_OPEN there and send it. *)
LEMMA TimerStep ==
  ASSUME WindowInv, DackOut \/ DelayLapses \/ AckTimeout \/ Run \/ Pause
  PROVE  WindowInv'
<1>0. TypeOK /\ Linked /\ Numbers /\ Buffers /\ AckedIsHeld /\ DataRecent /\ AcksFit /\ DataoutFits
  BY DEF WindowInv
<1>1. /\ UNCHANGED << link_recv, last_packet, pkt_bufs, due, opened, kept, fresh, acked, data >>
      /\ running' \in BOOLEAN /\ (running' => link_recv)
      /\ dataout' \in {dataout, Open} /\ ack_delay' \in BOOLEAN /\ (ack_delay' => ack_delay)
      /\ ack_counter' \in {0, ack_counter}
      /\ breaks' \in 0 .. MaxBreaks
      /\ \A a \in acks' : a \in acks \/ a = Open \/ (a = dataout /\ ack_delay /\ link_recv)
      /\ ~ link_recv => acks' = acks
  <2>0. running \in BOOLEAN /\ ack_delay \in BOOLEAN /\ breaks \in 0 .. MaxBreaks /\ (running => link_recv)
    BY <1>0 DEF TypeOK, Linked
  <2>1. CASE DackOut
    BY <2>0, <2>1 DEF DackOut, digitizer
  <2>2. CASE DelayLapses
    BY <2>0, <2>2 DEF DelayLapses, digitizer, channel
  <2>3. CASE AckTimeout
    BY <2>0, <2>3 DEF AckTimeout, SendDopen, digitizer
  <2>4. CASE Run
    BY <2>0, <2>4 DEF Run, SendDopen, digitizer
  <2>5. CASE Pause
    <3>1. breaks' \in 0 .. MaxBreaks
      BY <2>0, <2>5 DEF Pause
    <3> QED BY <2>0, <2>5, <3>1 DEF Pause, digitizer, channel
  <2> QED BY <2>1, <2>2, <2>3, <2>4, <2>5
<1>2. Open.kind = "open"
  BY DEF Open
<1>3. TypeOK'
  <2>1. dataout'.kind \in {"open", "dack"} /\ \A a \in acks' : a.kind \in {"open", "dack"}
    BY <1>0, <1>1, <1>2 DEF TypeOK
  <2> QED BY <1>0, <1>1, <2>1 DEF TypeOK
<1>4. Linked' /\ Numbers' /\ Buffers' /\ AckedIsHeld' /\ DataRecent'
  BY <1>0, <1>1 DEF Linked, Numbers, Buffers, BuffersFit, AckedIsHeld, DataRecent, Recent
<1>5. ASSUME NEW a PROVE DackFits(a, pkt_bufs, due)' = DackFits(a, pkt_bufs, due) /\ Recent(a.n + 1)' = Recent(a.n + 1)
  BY <1>1 DEF DackFits, HeldIn, Recent
<1>6. AcksFit'
  <2> SUFFICES ASSUME NEW a \in acks', a # Open
               PROVE  DackFits(a, pkt_bufs, due)' /\ Recent(a.n + 1)'
    BY DEF AcksFit, Open
  <2>1. CASE a \in acks
    BY <1>0, <1>5, <2>1 DEF AcksFit
  <2>2. CASE a = dataout /\ ack_delay /\ link_recv
    <3>1. DackFits(a, pkt_bufs, due) /\ a.n = due - 1
      BY <1>0, <2>2 DEF DataoutFits
    <3>2. a.n + 1 = due /\ due + SendWin >= fresh
      BY <1>0, <3>1 DEF TypeOK, Numbers
    <3> QED BY <1>5, <3>1, <3>2 DEF Recent
  <2> QED BY <1>1, <2>1, <2>2
<1>7. DataoutFits'
  BY <1>0, <1>1, <1>5 DEF DataoutFits, Open
<1> QED BY <1>3, <1>4, <1>6, <1>7 DEF WindowInv

(* The link is set up again, or given up. *)
LEMMA LinkStep ==
  ASSUME WindowInv, ResetLink \/ Unlink
  PROVE  WindowInv'
<1>0. TypeOK /\ Linked /\ Numbers /\ Buffers /\ AckedIsHeld /\ DataRecent /\ AcksFit /\ DataoutFits
  BY DEF WindowInv
<1>1. kept \in Nat /\ fresh \in Nat /\ due \in Nat /\ kept <= due /\ First <= kept
  BY <1>0 DEF TypeOK, Numbers
<1>2. CASE ResetLink
  <2>1. /\ link_recv' = TRUE /\ ~ running /\ data = {} /\ acks = {} /\ acked = {} /\ ~ opened
        /\ UNCHANGED << running, dataout, batch, opened, kept, fresh, acked, data, acks, breaks >>
        /\ due' = kept /\ last_packet' = Word(kept) /\ ack_delay' = FALSE /\ ack_counter' = 0
        /\ pkt_bufs' = [b \in 0 .. NBufs - 1 |-> Empty]
    BY <1>0, <1>2 DEF ResetLink, Linked, digitizer, channel, TypeOK
  <2>2. Word(kept) \in 0 .. SeqMod - 1 /\ Buffer(kept) \in 0 .. NBufs - 1
    BY <1>1, Types
  <2>3. TypeOK'
    BY <1>0, <2>1, <2>2 DEF TypeOK
  <2>4. Linked' /\ Numbers' /\ DataRecent' /\ AcksFit' /\ DataoutFits'
    BY <1>0, <1>1, <2>1 DEF Linked, Numbers, DataRecent, AcksFit, DataoutFits
  <2>5. Buffers'
    <3>1. \A b \in 0 .. NBufs - 1 : pkt_bufs'[b] = Empty
      BY <2>1
    <3>2. pkt_bufs'[Buffer(due)'] = Empty
      BY <2>1, <2>2, <3>1 DEF Buffer
    <3>3. last_packet' = Word(due)'
      BY <2>1 DEF Word
    <3> QED BY <1>1, <2>1, <3>1, <3>2, <3>3 DEF Buffers, BuffersFit, Empty
  <2>6. AckedIsHeld'
    BY <1>1, <2>1 DEF AckedIsHeld
  <2> QED BY <2>3, <2>4, <2>5, <2>6 DEF WindowInv
<1>3. CASE Unlink
  <2>1. /\ ~ link_recv' /\ ~ running' /\ ~ opened' /\ acked' = {} /\ data' = {} /\ acks' = {}
        /\ link_recv' = FALSE /\ running' = FALSE /\ opened' = FALSE
        /\ UNCHANGED << last_packet, pkt_bufs, dataout, ack_counter, ack_delay, due, batch, kept, fresh >>
        /\ breaks' = breaks + 1 /\ breaks < MaxBreaks
    BY <1>3 DEF Unlink
  <2>2. TypeOK'
    <3>1. breaks' \in 0 .. MaxBreaks
      BY <1>0, <2>1 DEF TypeOK
    <3>2. acked' \subseteq kept' + 1 .. fresh' - 1 /\ data' \subseteq First .. fresh' - 1
      BY <2>1
    <3> QED BY <1>0, <2>1, <3>1, <3>2 DEF TypeOK
  <2>3. Linked' /\ Numbers' /\ DataRecent' /\ AcksFit' /\ DataoutFits'
    BY <1>0, <2>1 DEF Linked, Numbers, DataRecent, AcksFit, DataoutFits
  <2>4. Buffers'
    BY <1>0, <2>1 DEF Buffers
  <2>5. AckedIsHeld'
    BY <1>1, <2>1 DEF AckedIsHeld
  <2> QED BY <2>2, <2>3, <2>4, <2>5 DEF WindowInv
<1> QED BY <1>2, <1>3

(* The channel and the packets the digitizer sends. *)
LEMMA ChannelStep ==
  ASSUME WindowInv, SendNew \/ (\E n \in First .. Last - 1 : Resend(n)) \/ GetOpen \/ Lose
  PROVE  WindowInv'
<1>0. TypeOK /\ Linked /\ Numbers /\ Buffers /\ AckedIsHeld /\ DataRecent /\ AcksFit /\ DataoutFits
  BY DEF WindowInv
<1>1. kept \in Nat /\ fresh \in Nat /\ due \in Nat /\ kept <= due /\ First <= kept /\ kept <= fresh
      /\ fresh <= kept + SendWin /\ due <= fresh
  BY <1>0 DEF TypeOK, Numbers
<1>2. /\ UNCHANGED receiver /\ UNCHANGED << kept, acked, breaks >>
      /\ fresh' \in {fresh, fresh + 1} /\ fresh' <= Last /\ fresh' <= kept + SendWin
      /\ acks' \subseteq acks /\ opened' \in BOOLEAN
      /\ ~ link_recv => data' = {} /\ ~ opened'
      /\ data' \subseteq First .. fresh' - 1
  <2>1. CASE SendNew
    <3>1. fresh' = fresh + 1 /\ fresh < Last /\ fresh < kept + SendWin /\ acks' \subseteq acks
      BY <2>1 DEF SendNew
    <3>2. data' \subseteq data \cup {fresh} /\ opened' = opened /\ opened
      BY <2>1 DEF SendNew
    <3>3. data \subseteq First .. fresh - 1
      BY <1>0 DEF TypeOK
    <3>4. data' \subseteq First .. fresh' - 1
      BY <1>1, <3>1, <3>2, <3>3
    <3>5. link_recv /\ opened' \in BOOLEAN
      BY <1>0, <3>2 DEF Linked, TypeOK
    <3>6. UNCHANGED receiver /\ UNCHANGED << kept, acked, breaks >>
      BY <2>1 DEF SendNew
    <3> QED BY <1>1, <3>1, <3>4, <3>5, <3>6
  <2>2. CASE \E n \in First .. Last - 1 : Resend(n)
    BY <1>0, <1>1, <2>2 DEF Resend, TypeOK, Linked, digitizer
  <2>3. CASE GetOpen
    BY <1>0, <1>1, <2>3 DEF GetOpen, TypeOK, Linked
  <2>4. CASE Lose
    <3>1. data' \subseteq data /\ acks' \subseteq acks
      BY <2>4 DEF Lose
    <3>2. UNCHANGED receiver /\ UNCHANGED << opened, kept, fresh, acked, breaks >>
      BY <2>4 DEF Lose, digitizer
    <3>3. fresh <= Last /\ data \subseteq First .. fresh - 1 /\ opened \in BOOLEAN
      BY <1>0 DEF TypeOK
    <3>4. ~ link_recv => data' = {} /\ ~ opened'
      BY <1>0, <3>1, <3>2 DEF Linked
    <3> QED BY <1>1, <3>1, <3>2, <3>3, <3>4
  <2> QED BY <2>1, <2>2, <2>3, <2>4
<1>3. UNCHANGED << link_recv, running, last_packet, pkt_bufs, dataout, ack_counter, ack_delay, due, batch >>
  BY <1>2 DEF receiver
<1>4. TypeOK'
  <2>1. kept' \in First .. fresh' /\ fresh' \in First .. Last /\ due' \in First .. fresh'
    BY <1>0, <1>1, <1>2, <1>3 DEF TypeOK
  <2>2. acked' \subseteq kept' + 1 .. fresh' - 1
    <3> DEFINE f == fresh'
    <3>1. acked' \subseteq kept + 1 .. fresh - 1 /\ kept' = kept /\ (f = fresh \/ f = fresh + 1)
      BY <1>0, <1>2 DEF TypeOK
    <3>2. acked' \subseteq kept + 1 .. f - 1
      <4> HIDE DEF f
      <4> QED BY <1>1, <3>1
    <3> QED BY <3>1, <3>2, Zenon
  <2>3. \A a \in acks' : a.kind \in {"open", "dack"}
    BY <1>0, <1>2 DEF TypeOK
  <2> QED BY <1>0, <1>2, <1>3, <2>1, <2>2, <2>3 DEF TypeOK
<1>5. Linked' /\ Numbers'
  BY <1>0, <1>1, <1>2, <1>3 DEF Linked, Numbers
<1>6. Buffers'
  <2>1. \A b \in 0 .. NBufs - 1 : pkt_bufs[b] < fresh'
    <3>1. \A b \in 0 .. NBufs - 1 : pkt_bufs[b] \in Int /\ pkt_bufs[b] < fresh
      <4>1. \A b \in 0 .. NBufs - 1 : pkt_bufs[b] \in {Empty} \cup (First .. Last - 1)
        BY <1>0 DEF TypeOK
      <4> QED BY <1>0, <4>1 DEF Buffers, Empty
    <3> QED BY <1>1, <1>2, <3>1
  <2> QED BY <1>0, <1>3, <2>1 DEF Buffers, BuffersFit
<1>7. AckedIsHeld' /\ DataoutFits'
  BY <1>0, <1>2, <1>3 DEF AckedIsHeld, DataoutFits, DackFits, HeldIn
<1>8. DataRecent'
  <2> SUFFICES ASSUME NEW n \in data' PROVE n + MaxAge >= fresh' \/ n + SendWin >= fresh'
    BY DEF DataRecent, Recent
  <2>1. n \in First .. fresh' - 1
    BY <1>2
  <2>2. CASE SendNew
    BY <1>1, <2>1, <2>2 DEF SendNew
  <2>3. CASE ~ SendNew
    <3>1. fresh' = fresh /\ (n \in data \/ kept <= n)
      BY <2>3, <1>1 DEF Resend, GetOpen, Lose, digitizer
    <3>2. CASE n \in data
      BY <1>0, <3>1, <3>2 DEF DataRecent, Recent
    <3>3. CASE kept <= n
      BY <1>1, <2>1, <3>1, <3>3
    <3> QED BY <3>1, <3>2, <3>3
  <2> QED BY <2>2, <2>3
<1>9. AcksFit'
  <2> SUFFICES ASSUME NEW a \in acks', a # Open
               PROVE  DackFits(a, pkt_bufs, due)' /\ Recent(a.n + 1)'
    BY DEF AcksFit, Open
  <2>1. DackFits(a, pkt_bufs, due) /\ Recent(a.n + 1)
    BY <1>0, <1>2 DEF AcksFit
  <2>2. DackFits(a, pkt_bufs, due)'
    BY <1>3, <2>1 DEF DackFits, HeldIn
  <2>3. a.n \in Int /\ a.kind = "dack"
    BY <1>1, <2>1 DEF DackFits
  <2>4. CASE SendNew
    <3>1. a.n + MaxAge > fresh /\ fresh' = fresh + 1
      BY <2>3, <2>4 DEF SendNew
    <3> QED BY <1>1, <2>2, <2>3, <3>1 DEF Recent
  <2>5. CASE ~ SendNew
    <3>1. fresh' = fresh
      BY <2>5 DEF Resend, GetOpen, Lose, digitizer
    <3> QED BY <2>1, <2>2, <3>1 DEF Recent
  <2> QED BY <2>4, <2>5
<1> QED BY <1>4, <1>5, <1>6, <1>7, <1>8, <1>9 DEF WindowInv

LEMMA WindowStep ==
  ASSUME WindowInv, [Next]_vars
  PROVE  WindowInv'
<1>1. ASSUME NEW n \in data, ProcessData(n) PROVE WindowInv'
  BY <1>1, ProcessStep
<1>2. CASE DackOut \/ DelayLapses \/ AckTimeout \/ Run \/ Pause
  BY <1>2, TimerStep
<1>3. CASE ResetLink \/ Unlink
  BY <1>3, LinkStep
<1>4. CASE SendNew \/ (\E n \in First .. Last - 1 : Resend(n)) \/ GetOpen \/ Lose
  BY <1>4, ChannelStep
<1>5. ASSUME NEW a \in acks, GetDack(a) PROVE WindowInv'
  BY <1>5, GetDackStep
<1>6. CASE UNCHANGED vars
  <2>1. UNCHANGED << link_recv, running, last_packet, pkt_bufs, dataout, ack_counter, ack_delay, due, batch,
                     opened, kept, fresh, acked, data, acks, breaks >>
    BY <1>6 DEF vars, receiver, digitizer, channel
  <2> QED BY <2>1 DEF WindowInv, TypeOK, Linked, Numbers, Buffers, BuffersFit, AckedIsHeld, DataRecent,
                      AcksFit, DataoutFits, DackFits, HeldIn, Recent
<1> QED BY <1>1, <1>2, <1>3, <1>4, <1>5, <1>6 DEF Next

LEMMA WindowAlways == Spec => []WindowInv
<1>1. Init => WindowInv
  BY WindowInit
<1>2. WindowInv /\ [Next]_vars => WindowInv'
  BY WindowStep
<1> QED BY <1>1, <1>2, PTL DEF Spec
------------------------------------------------------------------------------
(* The variables of the receiver, the digitizer and the channel keep their *)
(* types: no buffer ever holds what was not sent, the count of             *)
(* acknowledgements starts again before it reaches AckCnt, and kept, due   *)
(* and fresh stay among the numbers made so far.                           *)
THEOREM WindowTypes == Spec => []TypeOK
<1>1. WindowInv => TypeOK
  BY DEF WindowInv
<1> QED BY <1>1, WindowAlways, PTL

(* process_data, send_dack and reset_link: a valid buffer holds one of the *)
(* WINBUFS packets from the one due on, in the buffer of its number,       *)
(* although only the low bits of a number are compared.                    *)
THEOREM BuffersFollow == Spec => []BuffersInWindow
<1>1. WindowInv => BuffersInWindow
  <2> SUFFICES ASSUME WindowInv, link_recv
               PROVE  last_packet = Word(due) /\ BuffersFit(pkt_bufs, due) /\ DOMAIN pkt_bufs = 0 .. NBufs - 1
    BY DEF BuffersInWindow, BuffersFit
  <2> QED BY DEF WindowInv, Buffers, TypeOK
<1> QED BY <1>1, WindowAlways, PTL

(* A packet the digitizer takes for acknowledged was handed over or lies   *)
(* in a buffer of the library: it throws nothing away that is not held.    *)
THEOREM AckedHeld == Spec => []AckedIsHeld
<1>1. WindowInv => AckedIsHeld
  BY DEF WindowInv
<1> QED BY <1>1, WindowAlways, PTL
------------------------------------------------------------------------------
(* Each step is a step of the ordered feed or leaves it alone. *)

LEMMA FeedProcess ==
  ASSUME WindowInv, NEW n \in data, ProcessData(n)
  PROVE  [Feed!Next]_(Feed!vars)
<1>1. UNCHANGED kept
  BY DEF ProcessData, digitizer
<1>2. CASE ~ (link_recv /\ running)
  BY <1>1, <1>2 DEF ProcessData, receiver, Feed!vars
<1>3. CASE link_recv /\ running
  <2> DEFINE bufs == IF InWindow(Word(n)) THEN [pkt_bufs EXCEPT ![Buffer(Word(n))] = n] ELSE pkt_bufs
  <2>1. SendDack(bufs)
    BY <1>3 DEF ProcessData
  <2>2. /\ bufs \in [0 .. NBufs - 1 -> {Empty} \cup (First .. fresh - 1)]
        /\ BuffersFit(bufs, due)
    BY <1>3, PacketKept
  <2>3. last_packet = Word(due) /\ due \in Nat /\ First <= due /\ due <= fresh /\ fresh \in Nat
    BY <1>3 DEF WindowInv, TypeOK, Buffers
  <2> HIDE DEF bufs
  <2>4. PICK k \in 0 .. NBufs :
          due' = due + k /\ batch' = IF k = 0 THEN batch ELSE [i \in 1 .. k |-> due + i - 1]
    BY <2>1, <2>2, <2>3, DackSent
  <2>5. CASE k = 0
    BY <1>1, <2>3, <2>4, <2>5 DEF Feed!vars
  <2>6. CASE k # 0
    <3> DEFINE b == [i \in 1 .. k |-> due + i - 1]
    <3>1. k \in Nat /\ k > 0
      BY <2>6
    <3>2. Len(b) = k /\ b # << >>
      BY <3>1
    <3>3. batch' = b /\ due' = due + Len(b) /\ b = [i \in 1 .. Len(b) |-> due + i - 1]
      BY <2>4, <2>6, <3>2
    <3> HIDE DEF b
    <3>4. Feed!HandOver
      BY <1>1, <3>2, <3>3 DEF Feed!HandOver
    <3> QED BY <3>4 DEF Feed!Next
  <2> QED BY <2>5, <2>6
<1> QED BY <1>2, <1>3

LEMMA FeedDack ==
  ASSUME WindowInv, NEW a \in acks, GetDack(a)
  PROVE  [Feed!Next]_(Feed!vars)
<1>1. kept' \in kept .. due /\ UNCHANGED << due, batch >>
  BY GetDackStep DEF GetDack, receiver
<1>2. kept \in Int /\ due \in Int
  BY DEF WindowInv, TypeOK
<1>3. CASE kept' = kept
  BY <1>1, <1>3 DEF Feed!vars
<1>4. CASE kept' # kept
  <2>1. kept' \in kept + 1 .. due
    BY <1>1, <1>2, <1>4
  <2> QED BY <1>1, <2>1 DEF Feed!Discard, Feed!Next
<1> QED BY <1>3, <1>4

LEMMA FeedStep ==
  ASSUME WindowInv, [Next]_vars
  PROVE  [Feed!Next]_(Feed!vars)
<1>1. ASSUME NEW n \in data, ProcessData(n) PROVE [Feed!Next]_(Feed!vars)
  BY <1>1, FeedProcess
<1>2. CASE DackOut \/ DelayLapses \/ AckTimeout \/ Run \/ Pause
  BY <1>2 DEF DackOut, DelayLapses, AckTimeout, Run, Pause, digitizer, Feed!vars
<1>3. CASE ResetLink
  <2>1. Feed!StartOver
    BY <1>3 DEF ResetLink, digitizer, Feed!StartOver
  <2> QED BY <2>1 DEF Feed!Next
<1>4. CASE Unlink
  BY <1>4 DEF Unlink, Feed!vars
<1>5. CASE SendNew \/ (\E n \in First .. Last - 1 : Resend(n)) \/ GetOpen \/ Lose
  BY <1>5 DEF SendNew, Resend, GetOpen, Lose, receiver, digitizer, Feed!vars
<1>6. ASSUME NEW a \in acks, GetDack(a) PROVE [Feed!Next]_(Feed!vars)
  BY <1>6, FeedDack
<1>7. CASE UNCHANGED vars
  BY <1>7 DEF vars, receiver, digitizer, Feed!vars
<1> QED BY <1>1, <1>2, <1>3, <1>4, <1>5, <1>6, <1>7 DEF Next

(* The packets handed over to proc_insequence are an ordered feed: none is *)
(* left out, none comes twice, and the digitizer throws a packet away only *)
(* after it was handed over.                                               *)
THEOREM RefinesOrderedFeed == Spec => ImplementsOrderedFeed
<1>1. Init => Feed!Init
  BY DEF Init, Feed!Init
<1>2. WindowInv /\ [Next]_vars => [Feed!Next]_(Feed!vars)
  BY FeedStep
<1> QED BY <1>1, <1>2, WindowAlways, PTL DEF Spec, ImplementsOrderedFeed, Feed!Spec
=============================================================================
