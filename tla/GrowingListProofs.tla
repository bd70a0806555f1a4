-------------------------- MODULE GrowingListProofs --------------------------
(***************************************************************************)
(* Two components that add to the end of a list others already rely on:    *)
(* Chunker, whose earlier chunks are embedded when a message arrives, and  *)
(* SearchPage, whose earlier pages are on the screen when more are loaded. *)
(*                                                                         *)
(* The chunker is a fold.  What it has yielded and what it is filling is,  *)
(* after n messages, a list of runs of consecutive messages that ends with *)
(* message n (Cut); each run is Sound, and each begins where Follows says. *)
(*                                                                         *)
(* The page is for every ranking, every page size and any number of        *)
(* searches, tokens and lost requests.                                     *)
(***************************************************************************)
EXTENDS Chunker, SearchPage, ListingProofs

-----------------------------------------------------------------------------
(* The chunker.                                                            *)

Messages == [id : Nat, ts : Nat, tokens : Nat]

Numbered(msgs) == \A i \in 1..Len(msgs) : msgs[i].id = i

Conversation == messages \in Seq(Messages) /\ Numbered(messages)

Start(c) == c[1].id
End(c) == c[Len(c)].id

(* Where the chunk after the one from i to j begins.                       *)
Follows(msgs, i, j) ==
  IF msgs[j + 1].ts - msgs[j].ts > GapThreshold THEN j + 1
  ELSE IF j - i + 1 > Overlap THEN j - Overlap + 1 ELSE i

(* A run of consecutive messages without a pause, within the limits.       *)
Sound(c, msgs) ==
  /\ Start(c) \in 1..Len(msgs) /\ End(c) \in Start(c)..Len(msgs)
  /\ c = SubSeq(msgs, Start(c), End(c))
  /\ \A k \in (Start(c) + 1)..End(c) : msgs[k].ts - msgs[k - 1].ts <= GapThreshold
  /\ End(c) - Start(c) + 1 <= MaxMessages
  /\ TokenCount(c) > TokenTarget => End(c) - Start(c) + 1 <= Overlap + 1

(* A chunk that reaches from i to j.                                       *)
Reaches(c, msgs, i, j) == Sound(c, msgs) /\ Start(c) = i /\ End(c) = j

(* The list cuts the first n messages.                                     *)
Cut(lists, msgs, n) ==
  /\ lists \in Seq(Seq(Messages)) /\ Len(lists) >= 1
  /\ \A k \in 1..Len(lists) : Sound(lists[k], msgs)
  /\ Start(lists[1]) = 1 /\ End(lists[Len(lists)]) = n
  /\ \A k \in 1..(Len(lists) - 1) :
       /\ Start(lists[k + 1]) = Follows(msgs, Start(lists[k]), End(lists[k]))
       /\ End(lists[k]) < End(lists[k + 1])

-----------------------------------------------------------------------------
(* Sums and runs.                                                          *)

LEMMA TotalAppend ==
  ASSUME NEW numbers \in Seq(Nat), NEW x \in Nat
  PROVE  Total(Append(numbers, x)) = Total(numbers) + x
<1> DEFINE l == Len(numbers)
           longer == Append(numbers, x)
<1>1. l \in Nat /\ longer \in Seq(Nat) /\ Len(longer) = l + 1
  BY LenProperties, AppendProperties
<1>2. (\A n \in 1..l : longer[n] = numbers[n]) /\ longer[l + 1] = x
  BY <1>1, AppendProperties
<1>3. PICK g \in [0..l -> Nat] :
        /\ g[0] = 0 /\ Total(numbers) = g[l]
        /\ \A n \in 1..l : g[n] = g[n - 1] + numbers[n]
  BY TotalSteps
<1>4. PICK h \in [0..Len(longer) -> Nat] :
        /\ h[0] = 0 /\ Total(longer) = h[Len(longer)]
        /\ \A n \in 1..Len(longer) : h[n] = h[n - 1] + longer[n]
  <2> HIDE DEF longer
  <2> QED BY <1>1, TotalSteps
<1> HIDE DEF l, longer
<1> DEFINE T == {n \in Nat : n <= l => h[n] = g[n]}
<1>5. 0 \in T
  BY <1>3, <1>4
<1>6. ASSUME NEW n \in Nat, n \in T PROVE n + 1 \in T
  <2> SUFFICES ASSUME n + 1 <= l PROVE h[n + 1] = g[n + 1]
    OBVIOUS
  <2>1. n + 1 \in 1..l /\ n + 1 \in 1..Len(longer) /\ (n + 1) - 1 = n
    BY <1>1
  <2>2. h[n + 1] = h[n] + longer[n + 1] /\ g[n + 1] = g[n] + numbers[n + 1]
    BY <1>3, <1>4, <2>1
  <2>3. h[n] = g[n]
    BY <1>1, <1>6
  <2> QED BY <1>2, <2>1, <2>2, <2>3
<1> HIDE DEF T
<1>7. l \in T
  BY <1>1, <1>5, <1>6, Induction
<1>8. h[l] = g[l]
  BY <1>1, <1>7 DEF T
<1>9. h[l + 1] = h[l] + x
  <2>1. l + 1 \in 1..Len(longer) /\ (l + 1) - 1 = l
    BY <1>1
  <2> QED BY <1>2, <1>4, <2>1
<1> QED BY <1>1, <1>3, <1>4, <1>8, <1>9 DEF longer

LEMMA TokensAppend ==
  ASSUME NEW c \in Seq(Messages), NEW m \in Messages
  PROVE  /\ TokenCount(c) \in Nat
         /\ TokenCount(Append(c, m)) = TokenCount(c) + m.tokens
<1> DEFINE Counts(s) == [i \in DOMAIN s |-> s[i].tokens]
           d == Append(c, m)
<1>1. Len(c) \in Nat /\ DOMAIN c = 1..Len(c) /\ \A i \in 1..Len(c) : c[i] \in Messages
  BY LenProperties
<1>2. d \in Seq(Messages) /\ Len(d) = Len(c) + 1 /\ d[Len(c) + 1] = m
      /\ \A i \in 1..Len(c) : d[i] = c[i]
  BY <1>1, AppendProperties
<1>3. DOMAIN d = 1..(Len(c) + 1)
  BY <1>2, LenProperties
<1>4. m.tokens \in Nat /\ \A i \in 1..Len(c) : c[i].tokens \in Nat
  BY <1>1 DEF Messages
<1>5. Counts(c) \in Seq(Nat) /\ Len(Counts(c)) = Len(c) /\ \A i \in 1..Len(c) : Counts(c)[i] = c[i].tokens
  BY <1>1, <1>4
<1> HIDE DEF d
<1>6. Counts(d) \in Seq(Nat) /\ Len(Counts(d)) = Len(c) + 1
      /\ \A i \in 1..(Len(c) + 1) : Counts(d)[i] = d[i].tokens
  <2>1. \A i \in 1..(Len(c) + 1) : d[i].tokens \in Nat
    BY <1>1, <1>2, <1>4
  <2> QED BY <1>1, <1>3, <2>1
<1>7. TokenCount(c) = Total(Counts(c)) /\ TokenCount(d) = Total(Counts(d))
  BY DEF TokenCount, Mapped
<1> HIDE DEF Counts
<1> DEFINE e == Append(Counts(c), m.tokens)
<1>8. e \in Seq(Nat) /\ Len(e) = Len(c) + 1 /\ e[Len(c) + 1] = m.tokens
      /\ \A i \in 1..Len(c) : e[i] = Counts(c)[i]
  BY <1>1, <1>4, <1>5, AppendProperties
<1> HIDE DEF e
<1>9. Counts(d) = e
  <2>1. ASSUME NEW i \in 1..Len(Counts(d)) PROVE Counts(d)[i] = e[i]
    <3>1. i \in 1..(Len(c) + 1) /\ Counts(d)[i] = d[i].tokens
      BY <1>6
    <3>2. CASE i \in 1..Len(c)
      <4>1. e[i] = c[i].tokens /\ d[i] = c[i]
        BY <1>2, <1>5, <1>8, <3>2
      <4> QED BY <3>1, <4>1
    <3>3. CASE i = Len(c) + 1
      BY <1>2, <1>8, <3>1, <3>3
    <3> QED BY <1>1, <3>1, <3>2, <3>3
  <2> QED BY <1>6, <1>8, <2>1, SeqEqual
<1>10. Total(Counts(d)) = Total(Counts(c)) + m.tokens
  BY <1>4, <1>5, <1>9, TotalAppend DEF e
<1>11. Total(Counts(c)) \in Nat
  BY <1>5, TotalList
<1> QED BY <1>7, <1>10, <1>11 DEF d

(* A run, its first message and its last.                                  *)
Spans(c, msgs, i, j) ==
  /\ c \in Seq(Messages) /\ c # << >> /\ Len(c) = j - i + 1
  /\ \A k \in 1..Len(c) : c[k] = msgs[i + k - 1]
  /\ Head(c) = msgs[i] /\ Last(c) = msgs[j]
  /\ Start(c) = i /\ End(c) = j

LEMMA Run ==
  ASSUME NEW msgs \in Seq(Messages), Numbered(msgs),
         NEW i \in 1..Len(msgs), NEW j \in i..Len(msgs), NEW c, c = SubSeq(msgs, i, j)
  PROVE  Spans(c, msgs, i, j)
<1>1. Len(msgs) \in Nat /\ \A k \in 1..Len(msgs) : msgs[k] \in Messages
  BY LenProperties
<1>2. i \in Int /\ j \in Int /\ i <= j /\ j \in 1..Len(msgs)
  BY <1>1
<1>3. \A k \in i..j : msgs[k] \in Messages
  BY <1>1, <1>2
<1>4. c \in Seq(Messages) /\ Len(c) = j - i + 1
      /\ \A k \in 1..(j - i + 1) : c[k] = msgs[i + k - 1]
  BY <1>2, <1>3, SubSeqProperties
<1>5. c[1] = msgs[i] /\ c[Len(c)] = msgs[j]
  <2>1. 1 \in 1..(j - i + 1) /\ j - i + 1 \in 1..(j - i + 1)
        /\ i + 1 - 1 = i /\ i + (j - i + 1) - 1 = j
    BY <1>2
  <2> QED BY <1>4, <2>1
<1>6. c # << >> /\ Head(c) = c[1]
  BY <1>2, <1>4, EmptySeq
<1>7. msgs[i].id = i /\ msgs[j].id = j
  BY <1>2 DEF Numbered
<1> QED BY <1>4, <1>5, <1>6, <1>7 DEF Last, Start, End, Spans

(* A run and the message after it.                                         *)
LEMMA RunGrows ==
  ASSUME NEW msgs \in Seq(Messages), NEW n \in 0..(Len(msgs) - 1), NEW i \in 1..(n + 1)
  PROVE  Append(SubSeq(msgs, i, n), msgs[n + 1]) = SubSeq(msgs, i, n + 1)
<1> DEFINE c == SubSeq(msgs, i, n)
           d == SubSeq(msgs, i, n + 1)
           e == Append(c, msgs[n + 1])
<1>1. Len(msgs) \in Nat /\ \A k \in 1..Len(msgs) : msgs[k] \in Messages
  BY LenProperties
<1>2. n \in Int /\ i \in Int /\ n + 1 \in Int /\ i <= n + 1 /\ n + 1 <= Len(msgs) /\ 1 <= i
      /\ msgs[n + 1] \in Messages
  BY <1>1
<1>3. (\A k \in i..n : msgs[k] \in Messages) /\ (\A k \in i..(n + 1) : msgs[k] \in Messages)
  BY <1>1, <1>2
<1>4. c \in Seq(Messages) /\ Len(c) = n - i + 1
      /\ \A k \in 1..(n - i + 1) : c[k] = msgs[i + k - 1]
  <2>1. /\ c \in Seq(Messages) /\ Len(c) = IF i <= n THEN n - i + 1 ELSE 0
        /\ \A k \in 1..(n - i + 1) : c[k] = msgs[i + k - 1]
    BY <1>2, <1>3, SubSeqProperties
  <2> HIDE DEF c
  <2> QED BY <1>2, <2>1
<1>5. d \in Seq(Messages) /\ Len(d) = n + 1 - i + 1
      /\ \A k \in 1..(n + 1 - i + 1) : d[k] = msgs[i + k - 1]
  <2>1. /\ d \in Seq(Messages) /\ Len(d) = IF i <= n + 1 THEN n + 1 - i + 1 ELSE 0
        /\ \A k \in 1..(n + 1 - i + 1) : d[k] = msgs[i + k - 1]
    BY <1>2, <1>3, SubSeqProperties
  <2> HIDE DEF d
  <2> QED BY <1>2, <2>1
<1> HIDE DEF c, d
<1>6. e \in Seq(Messages) /\ Len(e) = Len(c) + 1 /\ e[Len(c) + 1] = msgs[n + 1]
      /\ \A k \in 1..Len(c) : e[k] = c[k]
  BY <1>2, <1>4, AppendProperties
<1> HIDE DEF e
<1>7. Len(e) = Len(d)
  BY <1>2, <1>4, <1>5, <1>6
<1>8. ASSUME NEW k \in 1..Len(e) PROVE e[k] = d[k]
  <2>1. CASE k \in 1..Len(c)
    BY <1>2, <1>4, <1>5, <1>6, <2>1
  <2>2. CASE k = Len(c) + 1
    <3>1. k = n - i + 1 + 1 /\ i + k - 1 = n + 1 /\ k \in 1..(n + 1 - i + 1)
      BY <1>2, <1>4, <2>2
    <3> QED BY <1>5, <1>6, <2>2, <3>1
  <2> QED BY <1>2, <1>4, <1>6, <2>1, <2>2
<1>9. e = d
  BY <1>5, <1>6, <1>7, <1>8, SeqEqual
<1> QED BY <1>9 DEF c, d, e

-----------------------------------------------------------------------------
(* What one message does to the chunk being filled.                        *)

(* The messages carried over are the run that ends the closed chunk.       *)
LEMMA CarriedRun ==
  ASSUME NEW msgs \in Seq(Messages), Numbered(msgs), NEW n \in 1..(Len(msgs) - 1),
         NEW i \in 1..n, NEW c, c = SubSeq(msgs, i, n)
  PROVE  /\ Follows(msgs, i, n) \in i..(n + 1)
         /\ Carried(c, IsGapClose(c, msgs[n + 1])) = SubSeq(msgs, Follows(msgs, i, n), n)
         /\ n - Follows(msgs, i, n) + 1 <= Overlap
<1> DEFINE m == msgs[n + 1]
           f == Follows(msgs, i, n)
<1>1. Len(msgs) \in Nat
  BY LenProperties
<1>2. n \in 1..Len(msgs) /\ i \in 1..Len(msgs) /\ n \in i..Len(msgs) /\ Overlap \in Nat
      /\ n \in Int /\ i \in Int /\ i <= n /\ 1 <= i
  BY <1>1, LimitsAssumption
<1>3. c \in Seq(Messages) /\ Len(c) = n - i + 1 /\ Last(c) = msgs[n]
  <2>1. Spans(c, msgs, i, n)
    BY <1>2, Run
  <2> QED BY <2>1 DEF Spans
<1>4. IsGapClose(c, m) <=> msgs[n + 1].ts - msgs[n].ts > GapThreshold
  BY <1>3 DEF IsGapClose
<1>5. CASE IsGapClose(c, m)
  <2>1. f = n + 1 /\ Carried(c, IsGapClose(c, m)) = << >>
    BY <1>4, <1>5 DEF Follows, Carried
  <2>2. SubSeq(msgs, n + 1, n) = << >>
    BY <1>2, SubSeqEmpty
  <2>3. n + 1 \in i..(n + 1) /\ n - (n + 1) + 1 <= Overlap
    BY <1>2
  <2> QED BY <2>1, <2>2, <2>3
<1>6. CASE ~IsGapClose(c, m)
  <2> DEFINE b == IF Len(c) > Overlap THEN Len(c) - Overlap + 1 ELSE 1
  <2>1. Carried(c, IsGapClose(c, m)) = SubSeq(c, b, Len(c))
    BY <1>6 DEF Carried
  <2>2. f = IF n - i + 1 > Overlap THEN n - Overlap + 1 ELSE i
    BY <1>4, <1>6 DEF Follows
  <2>3. f \in i..(n + 1) /\ f = i + b - 1 /\ b \in 1..(Len(c) + 1) /\ n - f + 1 <= Overlap
    BY <1>2, <1>3, <2>2
  <2> HIDE DEF b, f
  <2>4. SubSeq(c, b, Len(c)) = SubSeq(msgs, f, n)
    <3>1. CASE b = Len(c) + 1
      <4>1. f = n + 1 /\ b \in Int /\ Len(c) \in Int /\ Len(c) < b /\ f \in Int /\ n < f
        BY <1>2, <1>3, <2>3, <3>1
      <4> QED BY <1>2, <4>1, SubSeqEmpty
    <3>2. CASE b # Len(c) + 1
      <4>1. b \in 1..(n - i + 1) /\ Len(c) \in 1..(n - i + 1) /\ i + Len(c) - 1 = n
        BY <1>2, <1>3, <2>3, <3>2
      <4>2. SubSeq(SubSeq(msgs, i, n), b, Len(c)) = SubSeq(msgs, i + b - 1, i + Len(c) - 1)
        BY <1>2, <4>1, SubSeqOfSubSeq
      <4> QED BY <2>3, <4>1, <4>2
    <3> QED BY <3>1, <3>2
  <2> QED BY <2>1, <2>3, <2>4 DEF f
<1> QED BY <1>5, <1>6

(* The first chunk begins with the first message.                          *)
LEMMA SoundFirst ==
  ASSUME NEW msgs \in Seq(Messages), Numbered(msgs), Len(msgs) > 0,
         NEW d, d = Append(<< >>, msgs[1])
  PROVE  Reaches(d, msgs, 1, 1)
<1>1. Len(msgs) \in Nat
  BY LenProperties
<1>2. 1 \in 1..Len(msgs) /\ 0 \in 0..(Len(msgs) - 1) /\ 1 \in 1..(0 + 1) /\ 1 \in 1..Len(msgs) /\ 0 + 1 = 1
  BY <1>1
<1>3. SubSeq(msgs, 1, 0) = << >>
  BY SubSeqEmpty
<1>4. Append(SubSeq(msgs, 1, 0), msgs[0 + 1]) = SubSeq(msgs, 1, 0 + 1)
  BY <1>2, RunGrows
<1>5. d = SubSeq(msgs, 1, 1)
  BY <1>2, <1>3, <1>4
<1>6. Start(d) = 1 /\ End(d) = 1
  <2>1. Spans(d, msgs, 1, 1)
    BY <1>2, <1>5, Run
  <2> QED BY <2>1 DEF Spans
<1>7. Overlap \in Nat /\ MaxMessages \in Nat /\ Overlap < MaxMessages
  BY LimitsAssumption
<1> QED BY <1>2, <1>5, <1>6, <1>7 DEF Sound, Reaches

(* A message that fits keeps a chunk sound.                                *)
LEMMA SoundGrows ==
  ASSUME NEW msgs \in Seq(Messages), Numbered(msgs), NEW n \in 1..(Len(msgs) - 1),
         NEW c, Sound(c, msgs), End(c) = n, ~ShouldClose(c, msgs[n + 1]),
         NEW d, d = Append(c, msgs[n + 1])
  PROVE  Reaches(d, msgs, Start(c), n + 1)
<1> DEFINE i == Start(c)
           m == msgs[n + 1]
<1>1. Len(msgs) \in Nat /\ \A k \in 1..Len(msgs) : msgs[k] \in Messages
  BY LenProperties
<1>2. i \in 1..Len(msgs) /\ n \in i..Len(msgs) /\ c = SubSeq(msgs, i, n)
  BY DEF Sound
<1>3. i \in 1..(n + 1) /\ n \in 0..(Len(msgs) - 1) /\ n + 1 \in i..Len(msgs) /\ n \in Int /\ i \in Int
      /\ m \in Messages
  BY <1>1, <1>2
<1>4. c \in Seq(Messages) /\ Len(c) = n - i + 1 /\ Last(c) = msgs[n]
  <2>1. Spans(c, msgs, i, n)
    BY <1>2, Run
  <2> QED BY <2>1 DEF Spans
<1>5. d = SubSeq(msgs, i, n + 1)
  BY <1>2, <1>3, RunGrows
<1>6. Start(d) = i /\ End(d) = n + 1
  <2>1. Spans(d, msgs, i, n + 1)
    BY <1>2, <1>3, <1>5, Run
  <2> QED BY <2>1 DEF Spans
<1>7. ~IsGapClose(c, m) /\ ~(TokenCount(c) + m.tokens > TokenTarget) /\ ~(Len(c) >= MaxMessages)
  BY DEF ShouldClose
<1>8. TokenCount(d) = TokenCount(c) + m.tokens
  BY <1>3, <1>4, TokensAppend
<1>9. ~(TokenCount(d) > TokenTarget)
  BY <1>7, <1>8
<1>10. n + 1 - i + 1 <= MaxMessages
  BY <1>3, <1>4, <1>7, LimitsAssumption
<1>11. \A k \in (Start(d) + 1)..End(d) : msgs[k].ts - msgs[k - 1].ts <= GapThreshold
  <2>1. \A k \in (i + 1)..n : msgs[k].ts - msgs[k - 1].ts <= GapThreshold
    BY DEF Sound
  <2>2. m.ts - msgs[n].ts <= GapThreshold
    <3>1. n \in 1..Len(msgs)
      BY <1>1
    <3>2. msgs[n] \in Messages
      BY <1>1, <3>1
    <3>3. m.ts \in Nat /\ msgs[n].ts \in Nat /\ GapThreshold \in Nat
      BY <1>3, <3>2, LimitsAssumption DEF Messages
    <3> QED BY <1>4, <1>7, <3>3 DEF IsGapClose
  <2>3. ASSUME NEW k \in (Start(d) + 1)..End(d) PROVE k \in (i + 1)..n \/ (k = n + 1 /\ k - 1 = n)
    BY <1>3, <1>6
  <2> QED BY <2>1, <2>2, <2>3
<1> HIDE DEF i, m
<1>12. /\ Start(d) \in 1..Len(msgs) /\ End(d) \in Start(d)..Len(msgs)
       /\ d = SubSeq(msgs, Start(d), End(d))
  BY <1>2, <1>3, <1>5, <1>6
<1>13. End(d) - Start(d) + 1 <= MaxMessages
  BY <1>3, <1>6, <1>10
<1>14. Sound(d, msgs)
  BY <1>9, <1>11, <1>12, <1>13 DEF Sound
<1> QED BY <1>6, <1>14 DEF i, Reaches

(* The chunk opened behind a closed one is sound.                          *)
LEMMA SoundOpens ==
  ASSUME NEW msgs \in Seq(Messages), Numbered(msgs), NEW n \in 1..(Len(msgs) - 1),
         NEW c, Sound(c, msgs), End(c) = n,
         NEW d, d = Append(Carried(c, IsGapClose(c, msgs[n + 1])), msgs[n + 1])
  PROVE  Reaches(d, msgs, Follows(msgs, Start(c), n), n + 1)
<1> DEFINE i == Start(c)
           f == Follows(msgs, i, n)
<1>1. Len(msgs) \in Nat /\ \A k \in 1..Len(msgs) : msgs[k] \in Messages
  BY LenProperties
<1>2. i \in 1..Len(msgs) /\ n \in i..Len(msgs) /\ c = SubSeq(msgs, i, n)
      /\ \A k \in (i + 1)..n : msgs[k].ts - msgs[k - 1].ts <= GapThreshold
  BY DEF Sound
<1> HIDE DEF i
<1>3. i \in 1..n /\ n \in 0..(Len(msgs) - 1) /\ n \in Int /\ i \in Int
  BY <1>1, <1>2
<1>4. /\ f \in i..(n + 1)
      /\ Carried(c, IsGapClose(c, msgs[n + 1])) = SubSeq(msgs, f, n)
      /\ n - f + 1 <= Overlap
  BY <1>2, <1>3, CarriedRun
<1>5. f > n \/ ~(msgs[n + 1].ts - msgs[n].ts > GapThreshold)
  BY <1>3 DEF Follows
<1> HIDE DEF f
<1>6. f \in 1..(n + 1) /\ f \in 1..Len(msgs) /\ n + 1 \in f..Len(msgs) /\ f \in Int /\ f >= i
  BY <1>1, <1>3, <1>4
<1>7. d = SubSeq(msgs, f, n + 1)
  BY <1>3, <1>4, <1>6, RunGrows
<1>8. Start(d) = f /\ End(d) = n + 1
  <2>1. Spans(d, msgs, f, n + 1)
    BY <1>6, <1>7, Run
  <2> QED BY <2>1 DEF Spans
<1>9. n + 1 - f + 1 <= Overlap + 1 /\ n + 1 - f + 1 <= MaxMessages
  BY <1>3, <1>4, <1>6, LimitsAssumption
<1>10. \A k \in (Start(d) + 1)..End(d) : msgs[k].ts - msgs[k - 1].ts <= GapThreshold
  <2>1. ASSUME NEW k \in (Start(d) + 1)..End(d)
        PROVE  k \in (i + 1)..n \/ (k = n + 1 /\ k - 1 = n /\ f <= n)
    BY <1>3, <1>6, <1>8
  <2>2. f <= n => msgs[n + 1].ts - msgs[n].ts <= GapThreshold
    <3>1. n \in 1..Len(msgs) /\ n + 1 \in 1..Len(msgs)
      BY <1>1
    <3>2. msgs[n] \in Messages /\ msgs[n + 1] \in Messages
      BY <1>1, <3>1
    <3>3. msgs[n + 1].ts \in Nat /\ msgs[n].ts \in Nat /\ GapThreshold \in Nat
      BY <3>2, LimitsAssumption DEF Messages
    <3> QED BY <1>3, <1>5, <1>6, <3>3
  <2> QED BY <1>2, <2>1, <2>2
<1>11. /\ Start(d) \in 1..Len(msgs) /\ End(d) \in Start(d)..Len(msgs)
       /\ d = SubSeq(msgs, Start(d), End(d))
  BY <1>6, <1>7, <1>8
<1>12. End(d) - Start(d) + 1 <= MaxMessages /\ End(d) - Start(d) + 1 <= Overlap + 1
  BY <1>3, <1>6, <1>8, <1>9
<1>13. Sound(d, msgs)
  BY <1>10, <1>11, <1>12 DEF Sound
<1> QED BY <1>8, <1>13 DEF f, i, Reaches

-----------------------------------------------------------------------------
(* What one message does to the list.                                      *)

LEMMA CutExtended ==
  ASSUME NEW msgs, NEW n \in Nat, NEW lists, Cut(lists, msgs, n),
         NEW d \in Seq(Messages), Sound(d, msgs), End(d) = n + 1,
         Start(d) = Follows(msgs, Start(lists[Len(lists)]), n)
  PROVE  Cut(Append(lists, d), msgs, n + 1)
<1> DEFINE Y == Seq(Messages)
           longer == Append(lists, d)
           l == Len(lists)
<1>1. lists \in Seq(Y) /\ d \in Y /\ l >= 1
  BY DEF Cut
<1> HIDE DEF Y
<1>2. l \in Nat
  BY <1>1, LenProperties
<1>3. longer \in Seq(Y) /\ Len(longer) = l + 1 /\ longer[l + 1] = d /\ \A k \in 1..l : longer[k] = lists[k]
  BY <1>1, <1>2, AppendProperties
<1> HIDE DEF longer
<1>4. End(lists[l]) = n
  BY DEF Cut
<1> HIDE DEF l
<1>5. ASSUME NEW k \in 1..(l + 1) PROVE Sound(longer[k], msgs)
  <2>1. CASE k \in 1..l
    <3>1. Sound(lists[k], msgs)
      BY <2>1 DEF Cut, l
    <3> QED BY <1>3, <2>1, <3>1
  <2>2. CASE k = l + 1
    BY <1>3, <2>2
  <2> QED BY <1>2, <2>1, <2>2
<1>6. ASSUME NEW k \in 1..l
      PROVE  /\ Start(longer[k + 1]) = Follows(msgs, Start(longer[k]), End(longer[k]))
             /\ End(longer[k]) < End(longer[k + 1])
  <2>0. longer[k] = lists[k]
    BY <1>3
  <2>1. CASE k \in 1..(l - 1)
    <3>1. /\ Start(lists[k + 1]) = Follows(msgs, Start(lists[k]), End(lists[k]))
          /\ End(lists[k]) < End(lists[k + 1])
      BY <2>1 DEF Cut, l
    <3>2. k + 1 \in 1..l
      BY <1>2, <2>1
    <3>3. longer[k + 1] = lists[k + 1]
      BY <1>3, <3>2
    <3> QED BY <2>0, <3>1, <3>3
  <2>2. CASE k = l
    <3>1. longer[k + 1] = d /\ longer[k] = lists[l]
      BY <1>3, <2>0, <2>2
    <3>2. Start(d) = Follows(msgs, Start(lists[l]), End(lists[l]))
      BY <1>4 DEF l
    <3>3. End(lists[l]) < End(d)
      BY <1>4
    <3> QED BY <3>1, <3>2, <3>3
  <2> QED BY <1>2, <2>1, <2>2
<1>7. Start(longer[1]) = 1 /\ End(longer[Len(longer)]) = n + 1
  <2>1. 1 \in 1..l /\ Start(lists[1]) = 1
    BY <1>1, <1>2 DEF Cut
  <2> QED BY <1>3, <2>1
<1>8. Len(longer) - 1 = l /\ Len(longer) >= 1
  BY <1>2, <1>3
<1>9. Cut(longer, msgs, n + 1)
  BY <1>3, <1>5, <1>6, <1>7, <1>8 DEF Cut, Y
<1> QED BY <1>9 DEF longer

LEMMA CutReplaced ==
  ASSUME NEW msgs, NEW n \in Nat, NEW y \in Seq(Seq(Messages)), NEW c \in Seq(Messages),
         Cut(Append(y, c), msgs, n),
         NEW d \in Seq(Messages), Sound(d, msgs), End(d) = n + 1, Start(d) = Start(c)
  PROVE  Cut(Append(y, d), msgs, n + 1)
<1> DEFINE Y == Seq(Messages)
           lists == Append(y, c)
           longer == Append(y, d)
           l == Len(y)
<1>1. y \in Seq(Y) /\ c \in Y /\ d \in Y
  OBVIOUS
<1> HIDE DEF Y
<1>2. l \in Nat
  BY <1>1, LenProperties
<1>3. Len(longer) = l + 1 /\ longer \in Seq(Y) /\ longer[l + 1] = d /\ \A k \in 1..l : longer[k] = y[k]
  BY <1>1, <1>2, AppendProperties
<1>4. Len(lists) = l + 1 /\ lists[l + 1] = c /\ \A k \in 1..l : lists[k] = y[k]
  BY <1>1, <1>2, AppendProperties
<1>5. Cut(lists, msgs, n)
  OBVIOUS
<1> HIDE DEF l, longer, lists
<1>6. End(c) = n
  BY <1>4, <1>5 DEF Cut
<1>7. ASSUME NEW k \in 1..(l + 1) PROVE Sound(longer[k], msgs) /\ Start(longer[k]) = Start(lists[k])
  <2>1. CASE k \in 1..l
    <3>1. Sound(lists[k], msgs)
      BY <1>4, <1>5 DEF Cut
    <3> QED BY <1>3, <1>4, <2>1, <3>1
  <2>2. CASE k = l + 1
    BY <1>3, <1>4, <2>2
  <2> QED BY <1>2, <2>1, <2>2
<1>8. ASSUME NEW k \in 1..l
      PROVE  /\ Start(longer[k + 1]) = Follows(msgs, Start(longer[k]), End(longer[k]))
             /\ End(longer[k]) < End(longer[k + 1])
  <2>1. k \in 1..(l + 1) /\ k + 1 \in 1..(l + 1) /\ k \in 1..((l + 1) - 1)
    BY <1>2
  <2>2. /\ Start(lists[k + 1]) = Follows(msgs, Start(lists[k]), End(lists[k]))
        /\ End(lists[k]) < End(lists[k + 1])
    BY <1>4, <1>5, <2>1 DEF Cut
  <2>3. longer[k] = lists[k]
    BY <1>3, <1>4
  <2>4. Start(longer[k + 1]) = Start(lists[k + 1])
    BY <1>7, <2>1
  <2>5. CASE k + 1 \in 1..l
    <3>1. longer[k + 1] = lists[k + 1]
      BY <1>3, <1>4, <2>5
    <3> QED BY <2>2, <2>3, <3>1
  <2>6. CASE k = l
    <3>1. lists[k + 1] = c /\ longer[k + 1] = d
      BY <1>3, <1>4, <2>6
    <3>2. End(lists[k]) < n
      BY <1>6, <2>2, <3>1
    <3>3. End(lists[k]) \in Int
      BY <1>4, <1>5, <2>1 DEF Cut, Sound
    <3>4. End(lists[k]) < n + 1
      BY <3>2, <3>3
    <3>5. End(longer[k]) < End(longer[k + 1])
      BY <2>3, <3>1, <3>4
    <3>6. Start(longer[k + 1]) = Follows(msgs, Start(longer[k]), End(longer[k]))
      BY <2>2, <2>3, <2>4
    <3> QED BY <3>5, <3>6
  <2> QED BY <1>2, <2>5, <2>6
<1>9. Start(longer[1]) = 1 /\ End(longer[Len(longer)]) = n + 1
  <2>1. 1 \in 1..(l + 1)
    BY <1>2
  <2>2. Start(lists[1]) = 1
    BY <1>5 DEF Cut
  <2> QED BY <1>3, <1>7, <2>1, <2>2
<1>10. Len(longer) - 1 = l /\ Len(longer) >= 1
  BY <1>2, <1>3
<1>11. Cut(longer, msgs, n + 1)
  BY <1>3, <1>7, <1>8, <1>9, <1>10 DEF Cut, Y
<1> QED BY <1>11 DEF longer

States == [yielded : Seq(Seq(Messages)), current : Seq(Messages)]

LEMMA AbsorbTyped ==
  ASSUME NEW state \in States, NEW m \in Messages
  PROVE  Absorb(state, m) \in States /\ Absorb(state, m).current # << >>
<1> DEFINE c == state.current
           gap == IsGapClose(c, m)
           b == IF Len(c) > Overlap THEN Len(c) - Overlap + 1 ELSE 1
<1>1. c \in Seq(Messages) /\ state.yielded \in Seq(Seq(Messages))
      /\ state = [yielded |-> state.yielded, current |-> c]
  BY DEF States
<1> HIDE DEF c
<1>2. Len(c) \in Nat /\ \A k \in 1..Len(c) : c[k] \in Messages
  BY <1>1, LenProperties
<1>3. Carried(c, gap) \in Seq(Messages)
  <2>1. b \in Int /\ 1 <= b /\ Len(c) \in Int /\ \A k \in b..Len(c) : c[k] \in Messages
    BY <1>2, LimitsAssumption
  <2> HIDE DEF b
  <2>2. SubSeq(c, b, Len(c)) \in Seq(Messages)
    BY <2>1, SubSeqProperties
  <2> QED BY <2>2, EmptySeq DEF Carried, b
<1>4. ASSUME NEW s \in Seq(Messages)
      PROVE  Append(s, m) \in Seq(Messages) /\ Append(s, m) # << >>
  <2>1. Append(s, m) \in Seq(Messages) /\ Len(Append(s, m)) = Len(s) + 1 /\ Len(s) \in Nat
    BY AppendProperties, LenProperties
  <2> QED BY <2>1, EmptySeq
<1>5. CASE c # << >> /\ ShouldClose(c, m)
  <2>1. Absorb(state, m) = [yielded |-> Append(state.yielded, c), current |-> Append(Carried(c, gap), m)]
    BY <1>5 DEF Absorb, c
  <2>2. Append(state.yielded, c) \in Seq(Seq(Messages))
    <3> DEFINE Y == Seq(Messages)
    <3>1. state.yielded \in Seq(Y) /\ c \in Y
      BY <1>1
    <3> HIDE DEF Y
    <3>2. Append(state.yielded, c) \in Seq(Y)
      BY <3>1, AppendProperties
    <3> QED BY <3>2 DEF Y
  <2>3. Append(Carried(c, gap), m) \in Seq(Messages) /\ Append(Carried(c, gap), m) # << >>
    BY <1>3, <1>4
  <2> QED BY <2>1, <2>2, <2>3 DEF States
<1>6. CASE ~(c # << >> /\ ShouldClose(c, m))
  <2>1. Absorb(state, m) = [yielded |-> state.yielded, current |-> Append(c, m)]
    BY <1>1, <1>6 DEF Absorb, c
  <2>2. Append(c, m) \in Seq(Messages) /\ Append(c, m) # << >>
    BY <1>1, <1>4
  <2> QED BY <1>1, <2>1, <2>2 DEF States
<1> QED BY <1>5, <1>6

LEMMA CutStep ==
  ASSUME NEW msgs \in Seq(Messages), Numbered(msgs), NEW n \in 1..(Len(msgs) - 1),
         NEW state \in States, state.current # << >>, Cut(AllChunks(state), msgs, n)
  PROVE  Cut(AllChunks(Absorb(state, msgs[n + 1])), msgs, n + 1)
<1> DEFINE c == state.current
           y == state.yielded
           m == msgs[n + 1]
           lists == Append(y, c)
<1>1. /\ c \in Seq(Messages) /\ y \in Seq(Seq(Messages)) /\ state = [yielded |-> y, current |-> c]
      /\ AllChunks(state) = lists
  BY DEF States, AllChunks
<1>2. Len(msgs) \in Nat /\ m \in Messages /\ n \in Nat
  BY LenProperties
<1>3. Len(lists) \in Nat /\ lists[Len(lists)] = c
  <2> DEFINE Y == Seq(Messages)
  <2>1. y \in Seq(Y) /\ c \in Y
    BY <1>1
  <2> HIDE DEF Y, c, y
  <2>2. lists[Len(y) + 1] = c /\ Len(lists) = Len(y) + 1 /\ Len(y) \in Nat
    BY <2>1, AppendProperties, LenProperties
  <2> QED BY <2>2
<1>4. Cut(lists, msgs, n)
  BY <1>1
<1>5. Sound(c, msgs) /\ End(c) = n
  <2> HIDE DEF lists, c
  <2>1. Len(lists) \in 1..Len(lists) /\ End(lists[Len(lists)]) = n
    BY <1>3, <1>4 DEF Cut
  <2> QED BY <1>3, <1>4, <2>1 DEF Cut
<1>6. Absorb(state, m) \in States /\ Absorb(state, m).current # << >>
  BY <1>2, AbsorbTyped
<1>7. AllChunks(Absorb(state, m)) = Append(Absorb(state, m).yielded, Absorb(state, m).current)
  BY <1>6 DEF AllChunks
<1>8. CASE ShouldClose(c, m)
  <2> DEFINE d == Append(Carried(c, IsGapClose(c, m)), m)
  <2>1. Absorb(state, m) = [yielded |-> lists, current |-> d]
    BY <1>8 DEF Absorb
  <2>2. d \in Seq(Messages)
    BY <1>6, <2>1 DEF States
  <2>3. Sound(d, msgs) /\ Start(d) = Follows(msgs, Start(c), n) /\ End(d) = n + 1
    <3>1. d = Append(Carried(c, IsGapClose(c, msgs[n + 1])), msgs[n + 1])
      OBVIOUS
    <3> HIDE DEF d, c
    <3>2. Reaches(d, msgs, Follows(msgs, Start(c), n), n + 1)
      BY <1>5, <3>1, SoundOpens
    <3> QED BY <3>2 DEF Reaches
  <2>4. AllChunks(Absorb(state, m)) = Append(lists, d)
    <3> DEFINE a == Absorb(state, m)
    <3>1. a.yielded = lists /\ a.current = d
      BY <2>1
    <3> HIDE DEF a, d, lists
    <3>2. AllChunks(a) = Append(a.yielded, a.current)
      BY <1>7 DEF a
    <3> QED BY <3>1, <3>2 DEF a
  <2> HIDE DEF d, lists, c
  <2>5. Start(d) = Follows(msgs, Start(lists[Len(lists)]), n)
    BY <1>3, <2>3
  <2>6. Cut(Append(lists, d), msgs, n + 1)
    BY <1>2, <1>4, <2>2, <2>3, <2>5, CutExtended
  <2> QED BY <2>4, <2>6
<1>9. CASE ~ShouldClose(c, m)
  <2> DEFINE d == Append(c, m)
  <2>1. Absorb(state, m) = [yielded |-> y, current |-> d]
    BY <1>1, <1>9 DEF Absorb
  <2>2. d \in Seq(Messages)
    BY <1>6, <2>1 DEF States
  <2>3. Sound(d, msgs) /\ Start(d) = Start(c) /\ End(d) = n + 1
    <3>1. d = Append(c, msgs[n + 1]) /\ ~ShouldClose(c, msgs[n + 1])
      BY <1>9
    <3> HIDE DEF d, c
    <3>2. Reaches(d, msgs, Start(c), n + 1)
      BY <1>5, <3>1, SoundGrows
    <3> QED BY <3>2 DEF Reaches
  <2>4. AllChunks(Absorb(state, m)) = Append(y, d)
    BY <1>7, <2>1
  <2>5. Cut(Append(y, c), msgs, n)
    BY <1>4
  <2> HIDE DEF d, c, y
  <2>6. Cut(Append(y, d), msgs, n + 1)
    BY <1>1, <1>2, <2>2, <2>3, <2>5, CutReplaced
  <2> QED BY <2>4, <2>6
<1> QED BY <1>8, <1>9

-----------------------------------------------------------------------------
(* The fold.                                                               *)

(* The states the generator goes through.                                  *)
Folds(g, msgs) ==
  /\ g \in [0..Len(msgs) -> States] /\ g[0] = NothingYet
  /\ \A n \in 1..Len(msgs) : g[n] = Absorb(g[n - 1], msgs[n])
  /\ ChunkMessages(msgs) = AllChunks(g[Len(msgs)])

LEMMA FoldSteps ==
  ASSUME NEW msgs \in Seq(Messages)
  PROVE  \E g : Folds(g, msgs)
<1> DEFINE l == Len(msgs)
           Fold(g) == [n \in 0..l |-> IF n = 0 THEN NothingYet ELSE Absorb(g[n - 1], msgs[n])]
           after == CHOOSE g : g = Fold(g)
           f == [p \in (1..l) \X States |-> Absorb(p[2], msgs[p[1]])]
<1>1. l \in Nat /\ \A n \in 1..l : msgs[n] \in Messages
  BY LenProperties
<1>2. ChunkMessages(msgs) = AllChunks(after[l])
  BY DEF ChunkMessages
<1>3. NothingYet \in States
  <2> DEFINE Y == Seq(Messages)
  <2>1. << >> \in Seq(Y) /\ << >> \in Seq(Messages)
    <3> HIDE DEF Y
    <3> QED BY EmptySeq
  <2> QED BY <2>1 DEF NothingYet, States
<1>4. \A state \in States, n \in 1..l : Absorb(state, msgs[n]) \in States
  BY <1>1, AbsorbTyped
<1>5. f \in [(1..l) \X States -> States]
  BY <1>4
<1>6. PICK g : Unfolds(g, f, NothingYet, l, States)
  <2> HIDE DEF f, l
  <2> QED BY <1>1, <1>3, <1>5, Recursion
<1>7. g \in [0..l -> States] /\ g[0] = NothingYet /\ \A n \in 1..l : g[n] = f[<<n, g[n - 1]>>]
  BY <1>6 DEF Unfolds
<1>8. g = Fold(g)
  <2>1. ASSUME NEW n \in 1..l PROVE g[n] = Absorb(g[n - 1], msgs[n])
    <3>1. n - 1 \in 0..l
      BY <1>1
    <3>2. <<n, g[n - 1]>> \in (1..l) \X States
      BY <1>7, <3>1
    <3>3. f[<<n, g[n - 1]>>] = Absorb(g[n - 1], msgs[n])
      BY <3>2
    <3> QED BY <1>7, <3>3
  <2>2. \A n \in 0..l : n = 0 \/ n \in 1..l
    BY <1>1
  <2>3. \A n \in 0..l : g[n] = Fold(g)[n]
    BY <1>7, <2>1, <2>2
  <2> QED BY <1>7, <2>3
<1>9. after = Fold(after)
  BY <1>8
<1> HIDE DEF after, f
<1>10. after[0] = NothingYet /\ \A n \in 1..l : after[n] = Absorb(after[n - 1], msgs[n])
  <2>1. 0 \in 0..l /\ \A n \in 1..l : n \in 0..l /\ n # 0
    BY <1>1
  <2> QED BY <1>9, <2>1
<1> DEFINE T == {n \in Nat : n <= l => after[n] \in States}
<1>11. 0 \in T
  BY <1>3, <1>10
<1>12. ASSUME NEW n \in Nat, n \in T PROVE n + 1 \in T
  <2> SUFFICES ASSUME n + 1 <= l PROVE after[n + 1] \in States
    OBVIOUS
  <2>1. n + 1 \in 1..l /\ (n + 1) - 1 = n
    BY <1>1
  <2>2. after[n + 1] = Absorb(after[n], msgs[n + 1])
    BY <1>10, <2>1
  <2>3. after[n] \in States
    BY <1>1, <1>12
  <2> QED BY <1>4, <2>1, <2>2, <2>3
<1> HIDE DEF T
<1>13. \A n \in Nat : n \in T
  BY <1>11, <1>12, Induction
<1>14. \A n \in 0..l : after[n] \in States
  BY <1>1, <1>13 DEF T
<1>15. after \in [0..l -> States]
  BY <1>9, <1>14
<1>16. Folds(after, msgs)
  BY <1>2, <1>10, <1>15 DEF Folds
<1> QED BY <1>16

(* After n messages the list cuts the first n.                             *)
LEMMA CutThroughout ==
  ASSUME NEW msgs \in Seq(Messages), Numbered(msgs), NEW g, Folds(g, msgs)
  PROVE  \A n \in 1..Len(msgs) : g[n].current # << >> /\ Cut(AllChunks(g[n]), msgs, n)
<1> DEFINE l == Len(msgs)
           Held(n) == g[n].current # << >> /\ Cut(AllChunks(g[n]), msgs, n)
           T == {n \in Nat : n >= 1 /\ n <= l => Held(n)}
<1>1. l \in Nat /\ \A n \in 1..l : msgs[n] \in Messages
  BY LenProperties
<1>2. /\ g \in [0..l -> States] /\ g[0] = NothingYet
      /\ \A n \in 1..l : g[n] = Absorb(g[n - 1], msgs[n])
  BY DEF Folds
<1>3. 0 \in T
  OBVIOUS
<1>4. l > 0 => Held(1)
  <2> SUFFICES ASSUME l > 0 PROVE Held(1)
    OBVIOUS
  <2> DEFINE d == Append(<< >>, msgs[1])
  <2>1. 1 \in 1..l /\ 1 - 1 = 0
    BY <1>1
  <2>2. g[1] = Absorb(NothingYet, msgs[1]) /\ g[1] \in States
    BY <1>2, <2>1
  <2>3. g[1] = [yielded |-> << >>, current |-> d]
    BY <2>2 DEF Absorb, NothingYet
  <2>4. d \in Seq(Messages)
    BY <2>2, <2>3 DEF States
  <2>5. d # << >>
    <3>1. << >> \in Seq(Messages) /\ msgs[1] \in Messages /\ Len(<< >>) = 0
      BY <1>1, <2>1, EmptySeq
    <3>2. Len(d) = 1
      BY <3>1, AppendProperties
    <3> QED BY <3>2
  <2>6. Sound(d, msgs) /\ Start(d) = 1 /\ End(d) = 1
    BY SoundFirst DEF Reaches
  <2> HIDE DEF d
  <2> DEFINE lists == Append(<< >>, d)
  <2>7. AllChunks(g[1]) = lists /\ g[1].current # << >>
    BY <2>3, <2>5 DEF AllChunks
  <2>8. lists \in Seq(Seq(Messages)) /\ Len(lists) = 1 /\ lists[1] = d
    <3> DEFINE Y == Seq(Messages)
    <3>1. << >> \in Seq(Y) /\ d \in Y /\ Len(<< >>) = 0
      <4>1. d \in Y
        BY <2>4
      <4> HIDE DEF Y
      <4> QED BY <4>1, EmptySeq
    <3> HIDE DEF Y
    <3>2. lists \in Seq(Y) /\ Len(lists) = 0 + 1 /\ lists[0 + 1] = d
      BY <3>1, AppendProperties
    <3> QED BY <3>2 DEF Y
  <2> HIDE DEF lists
  <2>9. Cut(lists, msgs, 1)
    <3>1. \A k \in 1..Len(lists) : k = 1
      BY <2>8
    <3>2. \A k \in 1..(Len(lists) - 1) : FALSE
      BY <2>8
    <3> QED BY <2>6, <2>8, <3>1, <3>2 DEF Cut
  <2> QED BY <2>7, <2>9
<1>5. ASSUME NEW n \in Nat, n \in T PROVE n + 1 \in T
  <2> SUFFICES ASSUME n + 1 <= l PROVE Held(n + 1)
    OBVIOUS
  <2>1. CASE n = 0
    BY <1>1, <1>4, <2>1
  <2>2. CASE n > 0
    <3>1. n \in 1..(l - 1) /\ n \in 0..l /\ n + 1 \in 1..l /\ (n + 1) - 1 = n
      BY <1>1, <2>2
    <3>2. Held(n)
      BY <1>1, <1>5, <2>2
    <3>3. g[n] \in States /\ g[n + 1] = Absorb(g[n], msgs[n + 1]) /\ msgs[n + 1] \in Messages
      BY <1>1, <1>2, <3>1
    <3>4. g[n + 1].current # << >>
      BY <3>3, AbsorbTyped
    <3>5. Cut(AllChunks(Absorb(g[n], msgs[n + 1])), msgs, n + 1)
      BY <3>1, <3>2, <3>3, CutStep
    <3> QED BY <3>3, <3>4, <3>5
  <2> QED BY <2>1, <2>2
<1> HIDE DEF T, Held
<1>6. \A n \in Nat : n \in T
  BY <1>3, <1>5, Induction
<1>7. \A n \in 1..l : Held(n)
  BY <1>1, <1>6 DEF T
<1> QED BY <1>7 DEF Held

(* The chunks of a conversation cut all of it.                             *)
LEMMA ChunksCut ==
  ASSUME NEW msgs \in Seq(Messages), Numbered(msgs)
  PROVE  /\ Len(msgs) = 0 => ChunkMessages(msgs) = << >>
         /\ Len(msgs) > 0 => Cut(ChunkMessages(msgs), msgs, Len(msgs))
<1>1. PICK g : Folds(g, msgs)
  BY FoldSteps
<1>2. Len(msgs) \in Nat
  BY LenProperties
<1>3. ChunkMessages(msgs) = AllChunks(g[Len(msgs)]) /\ g[0] = NothingYet
  BY <1>1 DEF Folds
<1>4. Len(msgs) > 0 => Cut(AllChunks(g[Len(msgs)]), msgs, Len(msgs))
  <2>1. Len(msgs) > 0 => Len(msgs) \in 1..Len(msgs)
    BY <1>2
  <2> QED BY <1>1, <2>1, CutThroughout
<1>5. AllChunks(NothingYet) = << >>
  BY DEF AllChunks, NothingYet
<1> QED BY <1>3, <1>4, <1>5

-----------------------------------------------------------------------------
(* The list of a conversation, and the list when a message is added.       *)

LEMMA FrontAppend ==
  ASSUME NEW X, NEW s \in Seq(X), NEW x \in X
  PROVE  Front(Append(s, x)) = s
<1> DEFINE t == Append(s, x)
<1>1. Len(s) \in Nat /\ t \in Seq(X) /\ Len(t) = Len(s) + 1 /\ \A i \in 1..Len(s) : t[i] = s[i]
  BY LenProperties, AppendProperties
<1> HIDE DEF t
<1>2. \A i \in 1..Len(s) : t[i] \in X
  BY <1>1, LenProperties
<1>3. Front(t) = SubSeq(t, 1, Len(s))
  BY <1>1 DEF Front
<1>4. /\ SubSeq(t, 1, Len(s)) \in Seq(X)
      /\ Len(SubSeq(t, 1, Len(s))) = IF 1 <= Len(s) THEN Len(s) - 1 + 1 ELSE 0
      /\ \A i \in 1..(Len(s) - 1 + 1) : SubSeq(t, 1, Len(s))[i] = t[1 + i - 1]
  BY <1>1, <1>2, SubSeqProperties
<1> DEFINE u == SubSeq(t, 1, Len(s))
<1>5. u \in Seq(X) /\ Len(u) = Len(s)
  BY <1>1, <1>4
<1>6. ASSUME NEW i \in 1..Len(s) PROVE u[i] = s[i]
  <2>1. i \in 1..(Len(s) - 1 + 1) /\ 1 + i - 1 = i
    BY <1>1
  <2> QED BY <1>1, <1>4, <2>1
<1> HIDE DEF u
<1>7. u = s
  BY <1>5, <1>6, SeqEqual
<1> QED BY <1>3, <1>7 DEF u, t

LEMMA PrefixList ==
  ASSUME NEW X, NEW s \in Seq(X), NEW t \in Seq(X), Len(s) <= Len(t),
         \A i \in 1..Len(s) : t[i] = s[i]
  PROVE  IsPrefix(s, t)
<1> DEFINE u == SubSeq(s, 1, Len(s))
           v == SubSeq(t, 1, Len(s))
<1>1. Len(s) \in Nat /\ Len(t) \in Nat /\ \A i \in 1..Len(s) : s[i] \in X /\ t[i] \in X
  BY LenProperties
<1>2. /\ u \in Seq(X) /\ Len(u) = IF 1 <= Len(s) THEN Len(s) - 1 + 1 ELSE 0
      /\ \A i \in 1..(Len(s) - 1 + 1) : u[i] = s[1 + i - 1]
  BY <1>1, SubSeqProperties
<1>3. /\ v \in Seq(X) /\ Len(v) = IF 1 <= Len(s) THEN Len(s) - 1 + 1 ELSE 0
      /\ \A i \in 1..(Len(s) - 1 + 1) : v[i] = t[1 + i - 1]
  BY <1>1, SubSeqProperties
<1> HIDE DEF u, v
<1>4. Len(u) = Len(s) /\ Len(v) = Len(s)
  BY <1>1, <1>2, <1>3
<1>5. ASSUME NEW i \in 1..Len(u) PROVE u[i] = v[i]
  <2>1. i \in 1..Len(s) /\ i \in 1..(Len(s) - 1 + 1) /\ 1 + i - 1 = i
    BY <1>1, <1>4
  <2> QED BY <1>2, <1>3, <2>1
<1>6. u = v
  BY <1>2, <1>3, <1>4, <1>5, SeqEqual
<1> QED BY <1>6 DEF IsPrefix, u, v

(* The fold over a longer conversation begins like that over the shorter.  *)
LEMMA FoldsAgree ==
  ASSUME NEW msgs \in Seq(Messages), NEW m \in Messages,
         NEW g, Folds(g, msgs), NEW h, Folds(h, Append(msgs, m))
  PROVE  h[Len(msgs)] = g[Len(msgs)] /\ h[Len(msgs) + 1] = Absorb(g[Len(msgs)], m)
<1> DEFINE l == Len(msgs)
           longer == Append(msgs, m)
<1>1. l \in Nat /\ Len(longer) = l + 1 /\ longer[l + 1] = m /\ \A n \in 1..l : longer[n] = msgs[n]
  BY LenProperties, AppendProperties
<1>2. g[0] = NothingYet /\ \A n \in 1..l : g[n] = Absorb(g[n - 1], msgs[n])
  BY DEF Folds
<1>3. h[0] = NothingYet /\ \A n \in 1..Len(longer) : h[n] = Absorb(h[n - 1], longer[n])
  BY DEF Folds
<1> HIDE DEF l, longer
<1> DEFINE T == {n \in Nat : n <= l => h[n] = g[n]}
<1>4. 0 \in T
  BY <1>2, <1>3
<1>5. ASSUME NEW n \in Nat, n \in T PROVE n + 1 \in T
  <2> SUFFICES ASSUME n + 1 <= l PROVE h[n + 1] = g[n + 1]
    OBVIOUS
  <2>1. n + 1 \in 1..l /\ n + 1 \in 1..Len(longer) /\ (n + 1) - 1 = n
    BY <1>1
  <2>2. h[n + 1] = Absorb(h[n], longer[n + 1]) /\ g[n + 1] = Absorb(g[n], msgs[n + 1])
    BY <1>2, <1>3, <2>1
  <2>3. h[n] = g[n]
    BY <1>1, <1>5
  <2> QED BY <1>1, <2>1, <2>2, <2>3
<1> HIDE DEF T
<1>6. l \in T
  BY <1>1, <1>4, <1>5, Induction
<1>7. h[l] = g[l]
  BY <1>1, <1>6 DEF T
<1>8. h[l + 1] = Absorb(h[l], m)
  <2>1. l + 1 \in 1..Len(longer) /\ (l + 1) - 1 = l
    BY <1>1
  <2> QED BY <1>1, <1>3, <2>1
<1> QED BY <1>7, <1>8 DEF l

(* All chunks but the last stay when a message is added.                   *)
LEMMA TailOnly ==
  ASSUME NEW msgs \in Seq(Messages), Numbered(msgs), NEW m \in Messages,
         Len(ChunkMessages(msgs)) > 1
  PROVE  IsPrefix(Front(ChunkMessages(msgs)), ChunkMessages(Append(msgs, m)))
<1> DEFINE l == Len(msgs)
           longer == Append(msgs, m)
           Y == Seq(Messages)
<1>1. l \in Nat /\ longer \in Seq(Messages) /\ Len(longer) = l + 1
  BY LenProperties, AppendProperties
<1>2. PICK g : Folds(g, msgs)
  BY FoldSteps
<1>3. PICK h : Folds(h, longer)
  <2> HIDE DEF longer
  <2> QED BY <1>1, FoldSteps
<1>4. h[l + 1] = Absorb(g[l], m)
  BY <1>2, <1>3, FoldsAgree
<1>5. /\ ChunkMessages(msgs) = AllChunks(g[l]) /\ ChunkMessages(longer) = AllChunks(h[l + 1])
      /\ g \in [0..l -> States] /\ l \in 0..l
  BY <1>1, <1>2, <1>3 DEF Folds
<1>6. l > 0
  BY <1>1, ChunksCut
<1>7. g[l].current # << >>
  <2>1. l \in 1..l
    BY <1>1, <1>6
  <2> QED BY <1>2, <2>1, CutThroughout
<1> DEFINE y == g[l].yielded
           c == g[l].current
           absorbed == Absorb(g[l], m)
           lists == ChunkMessages(longer)
<1>8. g[l] \in States /\ y \in Seq(Y) /\ c \in Y /\ g[l] = [yielded |-> y, current |-> c]
  BY <1>5 DEF States
<1>9. absorbed \in States /\ absorbed.current # << >>
  BY <1>8, AbsorbTyped
<1>10. absorbed.yielded \in Seq(Y) /\ absorbed.current \in Y
  BY <1>9 DEF States
<1>11. ChunkMessages(msgs) = Append(y, c)
  BY <1>5, <1>7 DEF AllChunks
<1>12. lists = Append(absorbed.yielded, absorbed.current)
  BY <1>4, <1>5, <1>9 DEF AllChunks
<1>13. absorbed.yielded = y \/ absorbed.yielded = Append(y, c)
  BY <1>8 DEF Absorb
<1> HIDE DEF Y, y, c, absorbed, lists
<1>14. Len(y) \in Nat /\ Len(Append(y, c)) = Len(y) + 1 /\ \A i \in 1..Len(y) : Append(y, c)[i] = y[i]
  BY <1>8, LenProperties, AppendProperties
<1>15. /\ Len(absorbed.yielded) \in Nat /\ lists \in Seq(Y) /\ Len(lists) = Len(absorbed.yielded) + 1
       /\ \A i \in 1..Len(absorbed.yielded) : lists[i] = absorbed.yielded[i]
  BY <1>10, <1>12, LenProperties, AppendProperties
<1>16. Len(y) <= Len(absorbed.yielded) /\ \A i \in 1..Len(y) : absorbed.yielded[i] = y[i]
  BY <1>13, <1>14
<1>17. Len(y) <= Len(lists) /\ \A i \in 1..Len(y) : lists[i] = y[i]
  <2>1. Len(y) <= Len(lists)
    BY <1>14, <1>15, <1>16
  <2>2. ASSUME NEW i \in 1..Len(y)
        PROVE  lists[i] = y[i]
    <3>1. i \in 1..Len(absorbed.yielded)
      BY <1>14, <1>15, <1>16
    <3>2. lists[i] = absorbed.yielded[i] /\ absorbed.yielded[i] = y[i]
      BY <1>15, <1>16, <3>1
    <3> QED BY <3>2
  <2> QED BY <2>1, <2>2
<1>18. IsPrefix(y, lists)
  BY <1>8, <1>15, <1>17, PrefixList
<1>19. Front(ChunkMessages(msgs)) = y
  BY <1>8, <1>11, FrontAppend
<1> QED BY <1>18, <1>19 DEF lists

-----------------------------------------------------------------------------
(* The properties.                                                         *)

(* What arrives is a message, numbered after the others.                   *)
LEMMA Arriving ==
  ASSUME Conversation, Arrive
  PROVE  \E m \in Messages : m.id = Len(messages) + 1 /\ messages' = Append(messages, m)
<1>1. PICK pause \in Pauses, tokens \in Lengths :
        messages' = Append(messages,
          [id |-> Len(messages) + 1,
           ts |-> pause + (IF messages = << >> THEN 0 ELSE Last(messages).ts),
           tokens |-> tokens])
  BY DEF Arrive
<1> DEFINE m == [id |-> Len(messages) + 1,
                 ts |-> pause + (IF messages = << >> THEN 0 ELSE Last(messages).ts),
                 tokens |-> tokens]
<1>2. messages \in Seq(Messages) /\ Len(messages) \in Nat
  BY LenProperties DEF Conversation
<1>3. messages # << >> => Last(messages).ts \in Nat
  <2>1. messages # << >> => Len(messages) \in 1..Len(messages)
    BY <1>2, EmptySeq
  <2>2. messages # << >> => messages[Len(messages)] \in Messages
    BY <1>2, <2>1, LenProperties
  <2> QED BY <2>2 DEF Last, Messages
<1>4. pause \in Nat /\ tokens \in Nat
  BY LimitsAssumption
<1>5. m \in Messages /\ m.id = Len(messages) + 1
  BY <1>2, <1>3, <1>4 DEF Messages
<1> HIDE DEF m
<1>6. messages' = Append(messages, m)
  BY <1>1 DEF m
<1> QED BY <1>5, <1>6

(* Every message has its number for an id: the messages of a chat are      *)
(* distinct, and a chunk can tell where its own lie.                       *)
THEOREM ConversationAlways == Spec => []Conversation
<1>1. Init => Conversation
  <2> SUFFICES ASSUME Init PROVE Conversation
    OBVIOUS
  <2>1. messages = << >> /\ << >> \in Seq(Messages) /\ Len(<< >>) = 0
    BY EmptySeq DEF Init
  <2>2. \A i \in 1..Len(messages) : FALSE
    BY <2>1
  <2> QED BY <2>1, <2>2 DEF Conversation, Numbered
<1>2. Conversation /\ [Arrive]_messages => Conversation'
  <2> SUFFICES ASSUME Conversation, [Arrive]_messages PROVE Conversation'
    OBVIOUS
  <2>1. CASE Arrive
    <3> DEFINE l == Len(messages)
    <3>1. PICK m \in Messages : m.id = l + 1 /\ messages' = Append(messages, m)
      BY <2>1, Arriving
    <3>2. messages \in Seq(Messages) /\ l \in Nat /\ \A i \in 1..l : messages[i].id = i
      BY LenProperties DEF Conversation, Numbered
    <3>3. messages' \in Seq(Messages) /\ Len(messages') = l + 1 /\ messages'[l + 1] = m
          /\ \A i \in 1..l : messages'[i] = messages[i]
      BY <3>1, <3>2, AppendProperties
    <3>4. ASSUME NEW i \in 1..(l + 1) PROVE messages'[i].id = i
      <4>1. CASE i \in 1..l
        BY <3>2, <3>3, <4>1
      <4>2. CASE i = l + 1
        BY <3>1, <3>3, <4>2
      <4> QED BY <3>2, <4>1, <4>2
    <3> QED BY <3>3, <3>4 DEF Conversation, Numbered
  <2>2. CASE UNCHANGED messages
    BY <2>2 DEF Conversation, Numbered
  <2> QED BY <2>1, <2>2
<1> QED BY <1>1, <1>2, PTL DEF Spec

(* Where a chunk of the list lies is said by the ids of its ends.          *)
LEMMA ChunkLies ==
  ASSUME Conversation, NEW c, Sound(c, messages)
  PROVE  /\ Spans(c, messages, Start(c), End(c))
         /\ Index(Head(c)) = Start(c) /\ Index(Last(c)) = End(c)
<1>1. messages \in Seq(Messages) /\ Numbered(messages)
  BY DEF Conversation
<1>2. Len(messages) \in Nat /\ DOMAIN messages = 1..Len(messages)
  BY <1>1, LenProperties
<1>3. Start(c) \in 1..Len(messages) /\ End(c) \in Start(c)..Len(messages) /\ End(c) \in 1..Len(messages)
      /\ c = SubSeq(messages, Start(c), End(c))
  BY <1>2 DEF Sound
<1>4. Spans(c, messages, Start(c), End(c))
  BY <1>1, <1>3, Run
<1>5. ASSUME NEW i \in 1..Len(messages) PROVE Index(messages[i]) = i
  <2>1. \A j \in DOMAIN messages : messages[j] = messages[i] => j = i
    BY <1>1, <1>2 DEF Numbered
  <2> QED BY <1>2, <2>1 DEF Index
<1>6. Head(c) = messages[Start(c)] /\ Last(c) = messages[End(c)]
  BY <1>4 DEF Spans
<1> QED BY <1>3, <1>4, <1>5, <1>6

(* The list of chunks of any conversation of numbered messages.            *)
LEMMA CutsWell == Conversation => WellCut
<1> SUFFICES ASSUME Conversation PROVE WellCut
  OBVIOUS
<1> DEFINE l == Len(messages)
           n == Len(Chunks)
<1>1. messages \in Seq(Messages) /\ Numbered(messages) /\ l \in Nat
  BY LenProperties DEF Conversation
<1>2. messages = << >> <=> l = 0
  BY <1>1, EmptySeq
<1>3. CASE l = 0
  <2>1. Chunks = << >>
    BY <1>1, <1>3, ChunksCut DEF Chunks
  <2>2. DOMAIN Chunks = {} /\ 1..(Len(Chunks) - 1) = {}
    BY <2>1
  <2> QED BY <1>2, <1>3, <2>2 DEF WellCut, CoversInOrder, NoPauseInside, OverlapExact, WithinLimits
<1>4. CASE l > 0
  <2>1. Cut(Chunks, messages, l)
    BY <1>1, <1>4, ChunksCut DEF Chunks
  <2>2. n \in Nat /\ n >= 1 /\ DOMAIN Chunks = 1..n
    <3> DEFINE Y == Seq(Messages)
    <3>1. Chunks \in Seq(Y) /\ n >= 1
      BY <2>1 DEF Cut
    <3> HIDE DEF Y
    <3> QED BY <3>1, LenProperties
  <2>3. ASSUME NEW k \in 1..n
        PROVE  /\ Sound(Chunks[k], messages)
               /\ Spans(Chunks[k], messages, Start(Chunks[k]), End(Chunks[k]))
               /\ FirstOf(k) = Start(Chunks[k]) /\ LastOf(k) = End(Chunks[k])
    <3>1. Sound(Chunks[k], messages)
      BY <2>1 DEF Cut
    <3> QED BY <3>1, ChunkLies DEF FirstOf, LastOf
  <2>4. ASSUME NEW k \in 1..n
        PROVE  /\ FirstOf(k) \in 1..l /\ LastOf(k) \in FirstOf(k)..l
               /\ Chunks[k] = SubSeq(messages, FirstOf(k), LastOf(k))
               /\ Len(Chunks[k]) = LastOf(k) - FirstOf(k) + 1
               /\ Last(Chunks[k]) = messages[LastOf(k)]
    BY <2>3 DEF Sound, Spans
  <2>5. ASSUME NEW k \in 1..(n - 1)
        PROVE  /\ k \in 1..n /\ k + 1 \in 1..n
               /\ FirstOf(k + 1) = Follows(messages, FirstOf(k), LastOf(k))
               /\ LastOf(k) < LastOf(k + 1)
    <3>1. k \in 1..n /\ k + 1 \in 1..n
      BY <2>2
    <3>2. /\ Start(Chunks[k + 1]) = Follows(messages, Start(Chunks[k]), End(Chunks[k]))
          /\ End(Chunks[k]) < End(Chunks[k + 1])
      BY <2>1 DEF Cut
    <3>3. /\ FirstOf(k) = Start(Chunks[k]) /\ LastOf(k) = End(Chunks[k])
          /\ FirstOf(k + 1) = Start(Chunks[k + 1]) /\ LastOf(k + 1) = End(Chunks[k + 1])
      BY <2>3, <3>1
    <3> QED BY <3>1, <3>2, <3>3
  <2>6. CoversInOrder
    <3>1. \A k \in DOMAIN Chunks : Chunks[k] = SubSeq(messages, FirstOf(k), LastOf(k))
      BY <2>2, <2>4
    <3>2. FirstOf(1) = 1 /\ LastOf(n) = l
      <4>1. 1 \in 1..n /\ n \in 1..n
        BY <2>2
      <4> QED BY <2>1, <2>3, <4>1 DEF Cut
    <3>3. ASSUME NEW k \in 1..(n - 1)
          PROVE  FirstOf(k + 1) <= LastOf(k) + 1 /\ LastOf(k) < LastOf(k + 1)
      <4>1. FirstOf(k) \in Nat /\ LastOf(k) \in Nat /\ FirstOf(k) <= LastOf(k) /\ Overlap \in Nat
        BY <1>1, <2>4, <2>5, LimitsAssumption
      <4>2. FirstOf(k + 1) = LastOf(k) + 1 \/ FirstOf(k + 1) = LastOf(k) - Overlap + 1
            \/ FirstOf(k + 1) = FirstOf(k)
        BY <2>5 DEF Follows
      <4>3. LastOf(k) < LastOf(k + 1)
        BY <2>5
      <4> QED BY <4>1, <4>2, <4>3
    <3> QED BY <3>1, <3>2, <3>3 DEF CoversInOrder
  <2>7. NoPauseInside
    <3> SUFFICES ASSUME NEW k \in 1..n, NEW i \in 2..Len(Chunks[k])
                 PROVE  Chunks[k][i].ts - Chunks[k][i - 1].ts <= GapThreshold
      BY <2>2 DEF NoPauseInside
    <3> DEFINE c == Chunks[k]
               s == Start(c)
    <3>1. /\ s \in 1..l /\ End(c) \in s..l /\ Len(c) = End(c) - s + 1
          /\ \A p \in 1..Len(c) : c[p] = messages[s + p - 1]
          /\ \A p \in (s + 1)..End(c) : messages[p].ts - messages[p - 1].ts <= GapThreshold
      BY <2>3 DEF Sound, Spans
    <3> HIDE DEF s
    <3>2. PICK p \in (s + 1)..End(c) : p = s + i - 1
      BY <1>1, <3>1
    <3>3. i \in 1..Len(c) /\ i - 1 \in 1..Len(c) /\ s + (i - 1) - 1 = p - 1
      BY <1>1, <3>1, <3>2
    <3>4. c[i] = messages[p] /\ c[i - 1] = messages[p - 1]
      BY <3>1, <3>2, <3>3
    <3>5. messages[p].ts - messages[p - 1].ts <= GapThreshold
      BY <3>1
    <3> QED BY <3>4, <3>5
  <2>8. OverlapExact
    <3> SUFFICES ASSUME NEW k \in 1..(n - 1)
                 PROVE  LastOf(k) - FirstOf(k + 1) + 1 =
                          IF IsGapClose(Chunks[k], messages[LastOf(k) + 1]) THEN 0
                          ELSE IF Len(Chunks[k]) < Overlap THEN Len(Chunks[k]) ELSE Overlap
      BY DEF OverlapExact
    <3>1. /\ FirstOf(k) \in Nat /\ LastOf(k) \in Nat /\ FirstOf(k) <= LastOf(k) /\ Overlap \in Nat
          /\ Len(Chunks[k]) = LastOf(k) - FirstOf(k) + 1
      <4>1. k \in 1..n
        BY <2>5
      <4>2. /\ FirstOf(k) \in 1..l /\ LastOf(k) \in FirstOf(k)..l
            /\ Len(Chunks[k]) = LastOf(k) - FirstOf(k) + 1
        BY <2>4, <4>1
      <4>3. Overlap \in Nat /\ l \in Nat
        BY <1>1, LimitsAssumption
      <4> QED BY <4>2, <4>3
    <3>2. IsGapClose(Chunks[k], messages[LastOf(k) + 1])
            <=> messages[LastOf(k) + 1].ts - messages[LastOf(k)].ts > GapThreshold
      BY <2>4, <2>5 DEF IsGapClose
    <3>3. FirstOf(k + 1) = IF IsGapClose(Chunks[k], messages[LastOf(k) + 1]) THEN LastOf(k) + 1
                           ELSE IF LastOf(k) - FirstOf(k) + 1 > Overlap
                           THEN LastOf(k) - Overlap + 1 ELSE FirstOf(k)
      BY <2>5, <3>2 DEF Follows
    <3> QED BY <3>1, <3>3
  <2>9. WithinLimits
    <3> SUFFICES ASSUME NEW k \in 1..n
                 PROVE  /\ Len(Chunks[k]) <= MaxMessages
                        /\ TokenCount(Chunks[k]) > TokenTarget => Len(Chunks[k]) <= Overlap + 1
      BY <2>2 DEF WithinLimits
    <3> QED BY <2>3 DEF Sound, Spans
  <2> QED BY <2>6, <2>7, <2>8, <2>9 DEF WellCut
<1> QED BY <1>1, <1>3, <1>4

(* Every conversation is well cut: its chunks cover it in order, are       *)
(* within the limits, span no pause, and neighbours share the overlap      *)
(* exactly.                                                                *)
THEOREM WellCutAlways == Spec => []WellCut
BY ConversationAlways, CutsWell, PTL

(* A message that arrives changes no chunk but the last.                   *)
THEOREM OnlyTheTailChangesAlways == Spec => OnlyTheTailChanges
<1>1. Conversation /\ [Arrive]_messages
        => [Len(Chunks) > 1 => IsPrefix(Front(Chunks), ChunkMessages(messages'))]_messages
  <2> SUFFICES ASSUME Conversation, Arrive, Len(Chunks) > 1
               PROVE  IsPrefix(Front(Chunks), ChunkMessages(messages'))
    OBVIOUS
  <2>1. PICK m \in Messages : messages' = Append(messages, m)
    BY Arriving
  <2>2. messages \in Seq(Messages) /\ Numbered(messages)
    BY DEF Conversation
  <2>3. IsPrefix(Front(ChunkMessages(messages)), ChunkMessages(Append(messages, m)))
    BY <2>2, TailOnly DEF Chunks
  <2> QED BY <2>1, <2>3 DEF Chunks
<1> QED BY <1>1, ConversationAlways, PTL DEF Spec, OnlyTheTailChanges

-----------------------------------------------------------------------------
(* The search page.                                                        *)

(* What each suspended handler holds: a search asks about words; an apply  *)
(* of the newest search goes back to a page of that search.                *)
CallOK(c, newest) ==
  /\ c.id \in Nat /\ c.id <= newest
  /\ c.kind = "search" => c.ask.text \in Words
  /\ c.kind = "apply" /\ c.id = newest => c.baseline.id = newest

(* A token belongs to the page last rendered, so the page that Undo will   *)
(* go back to is of the newest search.                                     *)
OwnerInv ==
  /\ requestId \in Nat
  /\ typed \in Words \cup {Blank}
  /\ asked \in Seq(Words)
  /\ 0 \notin polling
  /\ \A c \in calls : CallOK(c, requestId)
  /\ token # 0 => last.id = requestId
  /\ NewestSearchOwnsPage

-----------------------------------------------------------------------------

LEMMA SubmitAppends ==
  ASSUME asked \in Seq(Words), NEW w \in Words, Submit(w)
  PROVE  asked' \in Seq(Words) /\ Len(asked') = Len(asked) + 1
BY DEF Submit

LEMMA AssistedTokens ==
  ASSUME OwnerInv, NEW c \in calls, c.kind = "search", Assisted(c)
  PROVE  asked' \in Seq(Words) /\ (Len(asked') > Len(asked) => Len(asked') # 0)
<1>1. c.ask.text \in Words /\ asked \in Seq(Words)
  BY DEF OwnerInv, CallOK
<1>2. CASE Submit(c.ask.text)
  <2>1. asked' \in Seq(Words) /\ Len(asked') = Len(asked) + 1
    BY <1>1, <1>2, SubmitAppends
  <2> QED BY <1>1, <2>1
<1>3. CASE UNCHANGED assistVars
  BY <1>1, <1>3 DEF assistVars
<1> QED BY <1>2, <1>3 DEF Assisted

LEMMA RenderOwns ==
  ASSUME NEW page, Render(page)
  PROVE  owner' = page.id /\ last' = page
BY DEF Render

LEMMA OwnerInit == SearchInit => OwnerInv
BY DEF SearchInit, AssistInit, OwnerInv, NewestSearchOwnsPage, NoBanner

-----------------------------------------------------------------------------
(* One lemma per group of actions.                                         *)

LEMMA OwnerType ==
  ASSUME OwnerInv, Type PROVE OwnerInv'
BY DEF OwnerInv, Type, assistVars, screen, NewestSearchOwnsPage, CallOK

LEMMA OwnerSearch ==
  ASSUME OwnerInv, Search PROVE OwnerInv'
<1> DEFINE new == Call("search", requestId + 1, Plain(typed), 0)
<1>1. /\ requestId' = requestId + 1 /\ token' = 0 /\ banner' = NoBanner
      /\ calls' = calls \cup {new}
      /\ UNCHANGED <<asked, typed, polling, last>>
  BY DEF Search, assistVars
<1>2. new.id = requestId' /\ new.kind = "search" /\ new.ask.text = typed
  BY <1>1 DEF Call, Plain
<1>3. typed \in Words /\ requestId' \in Nat
  BY <1>1 DEF OwnerInv, Search
<1> HIDE DEF new
<1>4. \A c \in calls' : CallOK(c, requestId')
  <2>1. CallOK(new, requestId')
    BY <1>2, <1>3 DEF CallOK
  <2>2. ASSUME NEW c \in calls PROVE CallOK(c, requestId')
    BY <1>1 DEF OwnerInv, CallOK
  <2> QED BY <1>1, <2>1, <2>2
<1>5. NewestSearchOwnsPage'
  BY <1>1, <1>2 DEF NewestSearchOwnsPage, NoBanner
<1> QED BY <1>1, <1>3, <1>4, <1>5 DEF OwnerInv

LEMMA OwnerClear ==
  ASSUME OwnerInv, Clear PROVE OwnerInv'
BY DEF OwnerInv, Clear, assistVars, inputs, NewestSearchOwnsPage, CallOK

LEMMA OwnerSearchAnswered ==
  ASSUME OwnerInv, NEW c \in calls, SearchAnswered(c) PROVE OwnerInv'
<1>1. /\ c.kind = "search" /\ calls' = calls \ {c} /\ Assisted(c)
      /\ UNCHANGED <<typed, requestId, lost>>
  BY DEF SearchAnswered
<1>2. asked' \in Seq(Words) /\ (Len(asked') > Len(asked) => Len(asked') # 0)
  BY <1>1, AssistedTokens
<1>3. \A d \in calls' : CallOK(d, requestId')
  BY <1>1 DEF OwnerInv
<1>4. CASE c.id = requestId
  <2>1. PICK v \in c.since..version : Render(Page(c, v))
    BY <1>4 DEF SearchAnswered
  <2>2. Page(c, v).id = requestId
    BY <1>4 DEF Page
  <2>3. owner' = requestId' /\ last'.id = requestId'
    BY <1>1, <2>1, <2>2, RenderOwns
  <2>4. 0 \notin polling' /\ UNCHANGED banner
    BY <1>2, <1>4 DEF SearchAnswered, OwnerInv
  <2>5. NewestSearchOwnsPage'
    BY <1>1, <2>3, <2>4 DEF NewestSearchOwnsPage, OwnerInv
  <2> QED BY <1>1, <1>2, <1>3, <2>3, <2>4, <2>5 DEF OwnerInv
<1>5. CASE c.id # requestId
  <2>1. UNCHANGED <<owner, last, banner, token, polling>>
    BY <1>5 DEF SearchAnswered, screen
  <2>2. NewestSearchOwnsPage'
    BY <1>1, <1>5, <2>1 DEF NewestSearchOwnsPage, OwnerInv
  <2> QED BY <1>1, <1>2, <1>3, <2>1, <2>2 DEF OwnerInv
<1> QED BY <1>4, <1>5

LEMMA OwnerSearchLost ==
  ASSUME OwnerInv, NEW c \in calls, SearchLost(c) PROVE OwnerInv'
<1>1. /\ c.kind = "search" /\ calls' = calls \ {c} /\ Assisted(c)
      /\ lost' = lost \cup {c.id}
      /\ UNCHANGED <<typed, requestId, token, polling, owner, last, banner>>
  BY DEF SearchLost, screen
<1>2. asked' \in Seq(Words)
  BY <1>1, AssistedTokens
<1>3. NewestSearchOwnsPage'
  BY <1>1 DEF NewestSearchOwnsPage, OwnerInv
<1> QED BY <1>1, <1>2, <1>3 DEF OwnerInv

LEMMA OwnerMore ==
  ASSUME OwnerInv,
         LoadMore \/ (\E c \in calls : MoreAnswered(c) \/ MoreLost(c) \/ ApplyLost(c))
  PROVE  OwnerInv'
<1>1. /\ UNCHANGED <<asked, typed, requestId, token, polling, owner, last, banner, lost>>
      /\ \/ calls' = calls \cup {Call("more", requestId, pageAsk, next)}
         \/ /\ calls' \subseteq calls
            /\ \A c \in calls : c.kind = "search" => c \in calls'
  BY DEF LoadMore, MoreAnswered, MoreLost, ApplyLost, AppendPage, assistVars, inputs, screen
<1>2. \A c \in calls' : CallOK(c, requestId')
  <2>1. CallOK(Call("more", requestId, pageAsk, next), requestId)
    BY DEF CallOK, Call, OwnerInv
  <2> QED BY <1>1, <2>1 DEF OwnerInv
<1>3. NewestSearchOwnsPage'
  BY <1>1 DEF NewestSearchOwnsPage, OwnerInv
<1> QED BY <1>1, <1>2, <1>3 DEF OwnerInv

LEMMA OwnerPoll ==
  ASSUME OwnerInv, NEW t \in polling, PollAssist(t) \/ PollLost(t) PROVE OwnerInv'
<1> DEFINE new == Call("apply", requestId, AppliedAsk(t), 0)
<1>1. /\ polling' = polling \ {t}
      /\ UNCHANGED <<asked, typed, requestId, token, owner, last, banner, lost>>
      /\ calls' = calls \/ (token = t /\ calls' = calls \cup {new})
  BY DEF PollAssist, PollLost, assistVars, inputs, screen
<1>2. new.id = requestId /\ new.kind = "apply" /\ new.baseline = last
  BY DEF Call
<1> HIDE DEF new
<1>3. token = t => CallOK(new, requestId)
  BY <1>2 DEF CallOK, OwnerInv
<1>4. \A c \in calls' : CallOK(c, requestId')
  BY <1>1, <1>3 DEF OwnerInv
<1>5. NewestSearchOwnsPage'
  BY <1>1 DEF NewestSearchOwnsPage, OwnerInv
<1> QED BY <1>1, <1>4, <1>5 DEF OwnerInv

LEMMA OwnerApplyAnswered ==
  ASSUME OwnerInv, NEW c \in calls, ApplyAnswered(c) PROVE OwnerInv'
<1>1. /\ c.kind = "apply" /\ calls' = calls \ {c}
      /\ UNCHANGED <<asked, typed, requestId, token, polling, lost>>
  BY DEF ApplyAnswered, assistVars, inputs
<1>2. \A d \in calls' : CallOK(d, requestId')
  BY <1>1 DEF OwnerInv
<1>3. CASE c.token = token /\ c.id = requestId
  <2>1. PICK v \in c.since..version : Render(Page(c, v))
    BY <1>3 DEF ApplyAnswered
  <2>2. Page(c, v).id = requestId
    BY <1>3 DEF Page
  <2>3. owner' = requestId' /\ last'.id = requestId'
    BY <1>1, <2>1, <2>2, RenderOwns
  <2>4. banner'.page = c.baseline
    BY <1>3 DEF ApplyAnswered
  <2>5. c.baseline.id = requestId
    BY <1>1, <1>3 DEF OwnerInv, CallOK
  <2>6. NewestSearchOwnsPage'
    BY <1>1, <2>3, <2>4, <2>5 DEF NewestSearchOwnsPage
  <2> QED BY <1>1, <1>2, <2>3, <2>6 DEF OwnerInv
<1>4. CASE ~(c.token = token /\ c.id = requestId)
  <2>1. UNCHANGED <<owner, last, banner>>
    BY <1>4 DEF ApplyAnswered, screen
  <2>2. NewestSearchOwnsPage'
    BY <1>1, <2>1 DEF NewestSearchOwnsPage, OwnerInv
  <2> QED BY <1>1, <1>2, <2>1, <2>2 DEF OwnerInv
<1> QED BY <1>3, <1>4

LEMMA OwnerUndo ==
  ASSUME OwnerInv, Undo PROVE OwnerInv'
<1>1. /\ banner.up /\ banner' = NoBanner /\ Render(banner.page)
      /\ UNCHANGED <<asked, typed, requestId, token, polling, calls, lost>>
  BY DEF Undo, assistVars, inputs
<1>2. owner' = requestId' /\ last'.id = requestId'
  BY <1>1, RenderOwns DEF OwnerInv, NewestSearchOwnsPage
<1>3. NewestSearchOwnsPage'
  BY <1>1, <1>2 DEF NewestSearchOwnsPage, NoBanner
<1> QED BY <1>1, <1>2, <1>3 DEF OwnerInv

LEMMA OwnerElsewhere ==
  ASSUME OwnerInv, Sync \/ CopilotStep \/ UNCHANGED vars PROVE OwnerInv'
<1>1. UNCHANGED <<asked, inputs, polling, calls, screen, lost>>
  BY DEF Sync, CopilotStep, Copilot, Answers, Unparseable, Raises, assistVars, vars
<1> QED BY <1>1 DEF OwnerInv, NewestSearchOwnsPage, CallOK, inputs, screen

-----------------------------------------------------------------------------

(* Whatever is answered late, lost or undone, and however many searches    *)
(* and tokens there are, the screen is of the newest search unless that is *)
(* under way, has failed, or the list was cleared (app.js:393, 752).       *)
THEOREM NewestSearchAlwaysOwnsPage == SearchSpec => []NewestSearchOwnsPage
<1>1. SearchInit => OwnerInv
  BY OwnerInit
<1>2. OwnerInv /\ [SearchNext]_vars => OwnerInv'
  <2> SUFFICES ASSUME OwnerInv, [SearchNext]_vars PROVE OwnerInv'
    OBVIOUS
  <2>1. CASE Type
    BY <2>1, OwnerType
  <2>2. CASE Search
    BY <2>2, OwnerSearch
  <2>3. CASE Clear
    BY <2>3, OwnerClear
  <2>4. CASE LoadMore
    BY <2>4, OwnerMore
  <2>5. CASE Undo
    BY <2>5, OwnerUndo
  <2>6. CASE Sync \/ CopilotStep \/ UNCHANGED vars
    BY <2>6, OwnerElsewhere
  <2>7. CASE Poll \/ (\E t \in polling : PollLost(t))
    BY <2>7, OwnerPoll DEF Poll
  <2>8. CASE Arrival
    <3>1. PICK c \in calls : SearchAnswered(c) \/ MoreAnswered(c) \/ ApplyAnswered(c)
      BY <2>8 DEF Arrival
    <3> QED BY <3>1, OwnerSearchAnswered, OwnerMore, OwnerApplyAnswered
  <2>9. CASE Loss
    <3>1. PICK c \in calls : SearchLost(c) \/ MoreLost(c) \/ ApplyLost(c)
      BY <2>9 DEF Loss
    <3> QED BY <3>1, OwnerSearchLost, OwnerMore
  <2> QED BY <2>1, <2>2, <2>3, <2>4, <2>5, <2>6, <2>7, <2>8, <2>9 DEF SearchNext
<1>3. OwnerInv => NewestSearchOwnsPage
  BY DEF OwnerInv
<1> QED BY <1>1, <1>2, <1>3, PTL DEF SearchSpec

-----------------------------------------------------------------------------
(* Facts about pages.                                                      *)

(* What appendResults adds: sessions of the answer that are not listed,    *)
(* each once; all of them if none is listed.                               *)
LEMMA UnseenAreNew ==
  ASSUME list \in Seq(Sessions), NEW s \in Seq(Sessions), IsInjective(s)
  PROVE  /\ Unseen(s) \in Seq(Sessions) /\ IsInjective(Unseen(s))
         /\ \A n \in DOMAIN Unseen(s) : Unseen(s)[n] \notin ToSet(list)
         /\ (\A k \in DOMAIN s : s[k] \notin ToSet(list)) => Unseen(s) = s
<1> DEFINE K == {k \in DOMAIN s : s[k] \notin ToSet(list)}
           m == Cardinality(K)
           pick(n) == CHOOSE k \in K : Place(K, k) = n
<1>1. DOMAIN s = 1..Len(s) /\ Len(s) \in Nat /\ IsFiniteSet(1..Len(s))
      /\ Cardinality(1..Len(s)) = Len(s) /\ \A k \in DOMAIN s : s[k] \in Sessions
  <2>1. DOMAIN s = 1..Len(s) /\ Len(s) \in Nat /\ \A k \in DOMAIN s : s[k] \in Sessions
    BY LenProperties, ElementOfSeq
  <2>2. IsFiniteSet(1..Len(s)) /\ Cardinality(1..Len(s)) = Len(s)
    BY <2>1, FirstNumbers
  <2> QED BY <2>1, <2>2
<1>2. K \in SUBSET Nat /\ K \in SUBSET DOMAIN s /\ IsFiniteSet(K) /\ m \in Nat
  BY <1>1, FS_Subset, FS_CardinalityType
<1>3. Unseen(s) = [n \in 1..m |-> s[pick(n)]]
  BY DEF Unseen, Place
<1>4. \A n \in 1..m : pick(n) \in K /\ Place(K, pick(n)) = n
  BY <1>2, PlacesTaken
<1>5. \A k \in K : s[k] \in Sessions /\ s[k] \notin ToSet(list)
  BY <1>1
<1> HIDE DEF m, pick, K
<1>6. Unseen(s) \in [1..m -> Sessions]
  BY <1>3, <1>4, <1>5
<1>7. Unseen(s) \in Seq(Sessions) /\ DOMAIN Unseen(s) = 1..m
  BY <1>2, <1>6, SeqDef
<1>8. IsInjective(Unseen(s))
  <2> SUFFICES ASSUME NEW a \in 1..m, NEW b \in 1..m, Unseen(s)[a] = Unseen(s)[b] PROVE a = b
    BY <1>7 DEF IsInjective
  <2>1. s[pick(a)] = s[pick(b)]
    BY <1>3
  <2>2. pick(a) = pick(b)
    BY <1>2, <1>4, <2>1 DEF IsInjective
  <2> QED BY <1>4, <2>2
<1>9. \A n \in DOMAIN Unseen(s) : Unseen(s)[n] \notin ToSet(list)
  BY <1>3, <1>4, <1>5, <1>7
<1>10. ASSUME \A k \in DOMAIN s : s[k] \notin ToSet(list) PROVE Unseen(s) = s
  <2>1. K = 1..Len(s) /\ m = Len(s)
    BY <1>1, <1>10 DEF K, m
  <2>2. \A k \in 1..Len(s) : Place(K, k) = k
    <3> SUFFICES ASSUME NEW k \in 1..Len(s) PROVE Place(K, k) = k
      OBVIOUS
    <3>1. {j \in K : j <= k} = 1..k
      BY <1>1, <2>1
    <3>2. Cardinality(1..k) = k
      BY FirstNumbers
    <3> QED BY <3>1, <3>2 DEF Place
  <2>3. \A n \in 1..m : pick(n) = n
    BY <1>4, <2>1, <2>2
  <2>4. \A n \in 1..Len(s) : Unseen(s)[n] = s[n]
    BY <1>3, <2>1, <2>3
  <2>5. Len(Unseen(s)) = Len(s)
    BY <1>1, <1>7, <2>1
  <2> QED BY <1>7, <2>4, <2>5, SeqEqual
<1> QED BY <1>7, <1>8, <1>9, <1>10

(* The answer to a call, in terms of the ranking it is a page of.          *)
LEMMA PageOfRanking ==
  ASSUME NEW c, NEW v \in Versions, c.ask \in Asks, c.offset \in Nat
  PROVE  LET ranked == Ranking[c.ask][v]
             page == Page(c, v)
         IN /\ ranked \in Seq(Sessions) /\ IsInjective(ranked)
            /\ page.id = c.id /\ page.from = <<c.ask, v>>
            /\ page.more <=> c.offset + PageSize < Len(ranked)
            /\ page.next = c.offset + PageSize
            /\ page.sessions \in Seq(Sessions) /\ IsInjective(page.sessions)
            /\ \A k \in 1..Len(page.sessions) :
                 c.offset + k \in 1..Len(ranked) /\ page.sessions[k] = ranked[c.offset + k]
            /\ c.offset <= Len(ranked) =>
                 c.offset + Len(page.sessions) =
                   IF c.offset + PageSize < Len(ranked) THEN c.offset + PageSize ELSE Len(ranked)
<1> DEFINE ranked == Ranking[c.ask][v]
           page == Page(c, v)
           top == Min({c.offset + PageSize, Len(ranked)})
<1>1. ranked \in Seq(Sessions) /\ IsInjective(ranked)
  BY RankingAssumption
<1>2. PageSize \in Nat \ {0} /\ Len(ranked) \in Nat /\ c.offset + PageSize \in Nat
  BY <1>1, RankingAssumption
<1>3. top = IF c.offset + PageSize < Len(ranked) THEN c.offset + PageSize ELSE Len(ranked)
  <2> DEFINE m == c.offset + PageSize
             l == Len(ranked)
  <2>1. m \in Int /\ l \in Int
    BY <1>2
  <2> HIDE DEF m, l
  <2>2. Min({m, l}) = IF m <= l THEN m ELSE l
    BY <2>1, MinOfTwo
  <2>3. Min({m, l}) = IF m < l THEN m ELSE l
    BY <2>1, <2>2
  <2> QED BY <2>3 DEF m, l
<1>4. /\ page.sessions = SubSeq(ranked, c.offset + 1, top)
      /\ page.id = c.id /\ page.from = <<c.ask, v>> /\ page.next = c.offset + PageSize
      /\ page.more <=> c.offset + PageSize < Len(ranked)
  BY DEF Page
<1> HIDE DEF ranked, page, top
<1>5. top \in Nat /\ top <= Len(ranked)
  BY <1>2, <1>3
<1>6. \A i \in (c.offset + 1)..top : i \in 1..Len(ranked) /\ ranked[i] \in Sessions
  BY <1>1, <1>5
<1>7. /\ page.sessions \in Seq(Sessions)
      /\ Len(page.sessions) = IF c.offset + 1 <= top THEN top - c.offset ELSE 0
      /\ \A k \in 1..(top - c.offset) : page.sessions[k] = ranked[c.offset + k]
  <2> DEFINE from == c.offset + 1
             part == SubSeq(ranked, from, top)
  <2>1. from \in Int /\ top \in Int /\ \A i \in from..top : ranked[i] \in Sessions
    BY <1>5, <1>6
  <2> HIDE DEF from
  <2>2. /\ part \in Seq(Sessions) /\ Len(part) = IF from <= top THEN top - from + 1 ELSE 0
        /\ \A k \in 1..(top - from + 1) : part[k] = ranked[from + k - 1]
    BY <2>1, SubSeqProperties
  <2> HIDE DEF part
  <2>3. page.sessions = part
    BY <1>4 DEF part, from
  <2>4. top - from + 1 = top - c.offset
    BY <1>5 DEF from
  <2>5. \A k \in 1..(top - c.offset) : from + k - 1 = c.offset + k
    BY <1>5 DEF from
  <2>6. \A k \in 1..(top - c.offset) : part[k] = ranked[c.offset + k]
    BY <2>2, <2>4, <2>5
  <2>7. Len(part) = IF from <= top THEN top - c.offset ELSE 0
    BY <2>2, <2>4
  <2> QED BY <2>2, <2>3, <2>6, <2>7 DEF from
<1>8. \A k \in 1..Len(page.sessions) :
        c.offset + k \in 1..Len(ranked) /\ page.sessions[k] = ranked[c.offset + k]
  BY SMTT(30), <1>5, <1>7
<1>9. IsInjective(page.sessions)
  <2> SUFFICES ASSUME NEW k \in 1..Len(page.sessions), NEW l \in 1..Len(page.sessions),
                      page.sessions[k] = page.sessions[l]
               PROVE  k = l
    BY <1>7 DEF IsInjective
  <2>0. DOMAIN ranked = 1..Len(ranked)
    BY <1>1, LenProperties
  <2>1. c.offset + k = c.offset + l
    BY <1>1, <1>8, <2>0 DEF IsInjective
  <2> QED BY <2>1
<1>10. c.offset <= Len(ranked) => c.offset + Len(page.sessions) = top
  BY <1>2, <1>3, <1>5, <1>7
<1> QED BY <1>1, <1>3, <1>4, <1>7, <1>8, <1>9, <1>10 DEF ranked, page

-----------------------------------------------------------------------------
(* The list: the inductive invariant.                                      *)

(* The first page of some ranking: what may be rendered.                   *)
FirstPage(page) ==
  \E a \in Asks, v \in Versions :
    /\ page.from = <<a, v>>
    /\ page.sessions \in Seq(Sessions) /\ IsInjective(page.sessions)
    /\ page.next = PageSize
    /\ page.more <=> PageSize < Len(Ranking[a][v])
    /\ Len(page.sessions) = IF PageSize < Len(Ranking[a][v]) THEN PageSize ELSE Len(Ranking[a][v])
    /\ \A k \in 1..Len(page.sessions) : page.sessions[k] = Ranking[a][v][k]

(* The list is the beginning of a ranking, and Load more goes on from its  *)
(* end.                                                                    *)
Continues(a, v) ==
  /\ Len(list) <= Len(Ranking[a][v])
  /\ \A k \in 1..Len(list) : list[k] = Ranking[a][v][k]
  /\ IF more THEN next = Len(list) ELSE Len(list) = Len(Ranking[a][v])

ShownInv ==
  /\ list \in Seq(Sessions) /\ next \in Nat
  /\ NoSessionTwice
  /\ IsFiniteSet(shown) /\ shown # {}
  /\ shown \subseteq (Asks \X Versions) \cup {Cleared}
  /\ \A a \in Asks, v \in Versions : shown = {<<a, v>>} => Continues(a, v)

(* At most one further page is under way; unless the list was replaced     *)
(* since it was asked for, it is the one the list needs.                   *)
CallsInv ==
  /\ \A c \in calls :
       /\ c.kind \in {"search", "more", "apply"} /\ c.ask \in Asks
       /\ c.offset \in Nat /\ c.since \in Nat
       /\ c.kind = "search" => c.ask.text \in Words
       /\ c.kind # "more" => c.offset = 0
       /\ c.kind = "apply" => FirstPage(c.baseline)
       /\ c.kind = "more" => loading /\ (late \/ (more /\ c.offset = next))
  /\ \A c, d \in calls : c.kind = "more" /\ d.kind = "more" => c = d

(* Undo goes back to a first page, because Assist is asked about one.      *)
PagesInv ==
  /\ AssistTypeOK /\ polling \subseteq Tokens
  /\ typed \in Words \cup {Blank} /\ pageAsk \in Asks /\ version \in Versions
  /\ token # 0 => FirstPage(last)
  /\ banner.up => FirstPage(banner.page) /\ banner.ask \in Asks

ListInv == ShownInv /\ CallsInv /\ PagesInv

-----------------------------------------------------------------------------

LEMMA AssistInitTyped == AssistInit => AssistTypeOK
<1> SUFFICES ASSUME AssistInit PROVE AssistTypeOK
  OBVIOUS
<1>1. asked = << >> /\ future = << >> /\ parses = << >> /\ failures = 0
  BY DEF AssistInit
<1>2. DOMAIN parses = {} /\ Range(parses) = {}
  BY <1>1 DEF Range
<1> QED BY <1>1, <1>2 DEF AssistTypeOK

LEMMA SubmitTyped ==
  ASSUME AssistTypeOK, NEW w \in Words, Submit(w)
  PROVE  AssistTypeOK' /\ Tokens \subseteq Tokens' /\ Len(asked') \in Tokens'
<1>1. Queued \in Futures /\ (w \in DOMAIN parses => parses[w] \in Futures)
  BY DEF AssistTypeOK, Futures, Range
<1>2. /\ asked' = Append(asked, w) /\ UNCHANGED <<parses, failures>>
      /\ future' = Append(future, IF w \in DOMAIN parses THEN parses[w] ELSE Queued)
  BY DEF Submit
<1>3. asked' \in Seq(Words) /\ future' \in Seq(Futures) /\ Len(asked') = Len(future')
      /\ Len(asked') = Len(asked) + 1 /\ Len(asked) \in Nat
  BY <1>1, <1>2 DEF AssistTypeOK
<1>4. Tokens = 1..Len(asked) /\ Tokens' = 1..Len(asked')
  BY <1>3 DEF Tokens, AssistTypeOK
<1> QED BY <1>2, <1>3, <1>4 DEF AssistTypeOK

LEMMA CopilotTyped ==
  ASSUME AssistTypeOK, Copilot PROVE AssistTypeOK' /\ Tokens' = Tokens
<1>1. PICK t \in Tokens : Answers(t) \/ Unparseable(t) \/ Raises(t)
  BY DEF Copilot
<1>2. asked' = asked /\ t \in DOMAIN future /\ asked[t] \in Words
  BY <1>1 DEF Answers, Unparseable, Raises, Tokens, AssistTypeOK
<1>3. CASE Answers(t)
  <2>1. PICK p \in Parses :
          /\ future' = [future EXCEPT ![t] = p]
          /\ parses' = [w \in DOMAIN parses \cup {asked[t]} |->
                          IF w = asked[t] THEN p ELSE parses[w]]
    BY <1>3 DEF Answers
  <2>2. p \in Futures
    BY DEF Futures
  <2>3. future' \in Seq(Futures) /\ Len(future') = Len(future)
    BY <1>2, <2>1, <2>2, ExceptSeq DEF AssistTypeOK
  <2>4. DOMAIN parses' \subseteq Words
    BY <1>2, <2>1 DEF AssistTypeOK
  <2>5. Range(parses') \subseteq Parses
    BY <2>1 DEF AssistTypeOK, Range
  <2> QED BY <1>2, <1>3, <2>3, <2>4, <2>5 DEF Answers, AssistTypeOK, Tokens
<1>4. CASE Unparseable(t) \/ Raises(t)
  <2>1. Unavailable \in Futures /\ Raised \in Futures
    BY DEF Futures
  <2>2. PICK f \in Futures : future' = [future EXCEPT ![t] = f]
    BY <1>4, <2>1 DEF Unparseable, Raises
  <2>3. future' \in Seq(Futures) /\ Len(future') = Len(future)
    BY <1>2, <2>2, ExceptSeq DEF AssistTypeOK
  <2>4. parses' = parses /\ failures' \in Nat
    BY <1>4 DEF Unparseable, Raises, AssistTypeOK
  <2> QED BY <1>2, <2>3, <2>4 DEF AssistTypeOK, Tokens
<1> QED BY <1>1, <1>3, <1>4

(* What apply-assist asks is something the index can be asked.             *)
LEMMA AppliedIsAsk ==
  ASSUME PagesInv, NEW t \in polling PROVE AppliedAsk(t) \in Asks
<1>1. asked \in Seq(Words) /\ future \in Seq(Futures) /\ Len(asked) = Len(future)
  BY DEF PagesInv, AssistTypeOK
<1>2. asked[t] \in Words /\ future[t] \in Futures
  <2>1. t \in 1..Len(asked) /\ t \in 1..Len(future)
    BY <1>1 DEF PagesInv, Tokens
  <2> QED BY <1>1, <2>1, ElementOfSeq
<1>3. future[t].expansions \in BOOLEAN
  <2>1. CASE future[t] \in Parses
    BY <2>1, AssistAssumption DEF Parse
  <2>2. CASE future[t] \in {Queued, Unavailable, Raised}
    <3>1. \A state : Without(state).expansions = FALSE
      BY DEF Without
    <3> QED BY <2>2, <3>1 DEF Queued, Unavailable, Raised
  <2> QED BY <1>2, <2>1, <2>2 DEF Futures
<1>4. typed \in Words \cup {Blank}
  BY DEF PagesInv
<1> DEFINE parse == IF future[t].changes THEN asked[t] ELSE NoParse
<1>5. parse \in Words \cup {NoParse}
  BY <1>2
<1>6. AppliedAsk(t) = [text |-> typed, parse |-> parse, expanded |-> future[t].expansions]
  BY DEF AppliedAsk
<1> HIDE DEF parse
<1> QED BY <1>3, <1>4, <1>5, <1>6 DEF Asks

LEMMA PlainIsAsk ==
  ASSUME NEW w \in Words \cup {Blank} PROVE Plain(w) \in Asks
BY DEF Plain, Asks

LEMMA ClearedIsNoRanking == Cleared \notin Asks \X Versions
BY RankingAssumption DEF Cleared, Versions

(* The first page of an answer may be rendered.                            *)
LEMMA FirstPageAnswered ==
  ASSUME NEW c, NEW v \in Versions, c.ask \in Asks, c.offset = 0
  PROVE  FirstPage(Page(c, v))
<1> DEFINE page == Page(c, v)
           ranked == Ranking[c.ask][v]
<1>1. PageSize \in Nat \ {0} /\ Len(ranked) \in Nat
  BY RankingAssumption
<1>2. /\ page.from = <<c.ask, v>> /\ page.next = 0 + PageSize
      /\ page.more <=> 0 + PageSize < Len(ranked)
      /\ page.sessions \in Seq(Sessions) /\ IsInjective(page.sessions)
      /\ \A k \in 1..Len(page.sessions) : page.sessions[k] = ranked[0 + k]
      /\ 0 <= Len(ranked) =>
           0 + Len(page.sessions) = IF 0 + PageSize < Len(ranked) THEN 0 + PageSize
                                    ELSE Len(ranked)
  BY PageOfRanking
<1> HIDE DEF page, ranked
<1>3. Len(page.sessions) \in Nat
  BY <1>2
<1>4. /\ page.next = PageSize /\ (page.more <=> PageSize < Len(ranked))
      /\ Len(page.sessions) = IF PageSize < Len(ranked) THEN PageSize ELSE Len(ranked)
      /\ \A k \in 1..Len(page.sessions) : page.sessions[k] = ranked[k]
  BY <1>1, <1>2, <1>3
<1> QED BY <1>2, <1>4 DEF FirstPage, page, ranked

(* Rendering a first page makes the list begin with it.                    *)
LEMMA RenderShows ==
  ASSUME next \in Nat, NEW page, FirstPage(page), Render(page)
  PROVE  ShownInv' /\ last' = page /\ late' = loading
<1>1. PICK a \in Asks, v \in Versions :
        /\ page.from = <<a, v>>
        /\ page.sessions \in Seq(Sessions) /\ IsInjective(page.sessions)
        /\ page.next = PageSize
        /\ page.more <=> PageSize < Len(Ranking[a][v])
        /\ Len(page.sessions) = IF PageSize < Len(Ranking[a][v]) THEN PageSize
                                ELSE Len(Ranking[a][v])
        /\ \A k \in 1..Len(page.sessions) : page.sessions[k] = Ranking[a][v][k]
  BY DEF FirstPage
<1>2. /\ list' = page.sessions /\ shown' = {<<a, v>>}
      /\ more' = (page.more /\ page.sessions # << >>)
      /\ next' = IF page.sessions = << >> THEN next ELSE page.next
      /\ last' = page /\ late' = loading
  BY <1>1 DEF Render
<1>3. PageSize \in Nat \ {0} /\ Len(Ranking[a][v]) \in Nat
  BY RankingAssumption
<1>4. Continues(a, v)'
  <2>1. Len(list') <= Len(Ranking[a][v])
    BY <1>1, <1>2, <1>3
  <2>2. \A k \in 1..Len(list') : list'[k] = Ranking[a][v][k]
    BY <1>1, <1>2
  <2>3. IF more' THEN next' = Len(list') ELSE Len(list') = Len(Ranking[a][v])
    <3>1. CASE page.sessions = << >>
      <4>1. Len(page.sessions) = 0 /\ ~more'
        BY <1>2, <3>1
      <4> QED BY <1>1, <1>2, <1>3, <4>1
    <3>2. CASE page.sessions # << >>
      BY <1>1, <1>2, <1>3, <3>2
    <3> QED BY <3>1, <3>2
  <2> QED BY <2>1, <2>2, <2>3 DEF Continues
<1>5. \A b \in Asks, w \in Versions : shown' = {<<b, w>>} => Continues(b, w)'
  <2> SUFFICES ASSUME NEW b \in Asks, NEW w \in Versions, shown' = {<<b, w>>}
               PROVE  Continues(b, w)'
    OBVIOUS
  <2>1. <<a, v>> \in {<<b, w>>}
    BY <1>2
  <2>2. <<a, v>> = <<b, w>>
    BY <2>1
  <2>3. b = a /\ w = v
    BY <2>2
  <2> QED BY <1>4, <2>3
<1>6. IsFiniteSet(shown') /\ shown' # {}
  BY <1>2, FS_Singleton
<1>7. list' \in Seq(Sessions) /\ next' \in Nat /\ NoSessionTwice'
      /\ shown' \subseteq (Asks \X Versions) \cup {Cleared}'
  BY <1>1, <1>2, <1>3 DEF NoSessionTwice
<1> QED BY <1>2, <1>5, <1>6, <1>7 DEF ShownInv

LEMMA ShownStays ==
  ASSUME ShownInv, UNCHANGED <<list, more, next, shown>> PROVE ShownInv'
BY DEF ShownInv, NoSessionTwice, Continues, Cleared, Plain

(* Calls that are answered or lost, while the list is left alone or is     *)
(* replaced.                                                               *)
LEMMA CallsEnd ==
  ASSUME CallsInv, calls' \subseteq calls, UNCHANGED loading,
         late' = loading \/ UNCHANGED <<late, more, next>>
  PROVE  CallsInv'
<1>1. \A c \in calls' : c \in calls
  OBVIOUS
<1>2. \A c \in calls' : c.kind = "more" => loading' /\ (late' \/ (more' /\ c.offset = next'))
  BY <1>1 DEF CallsInv
<1> QED BY <1>1, <1>2 DEF CallsInv, FirstPage

(* The one request for a further page ends.                                *)
LEMMA MoreEnds ==
  ASSUME CallsInv, NEW c \in calls, c.kind = "more", calls' = calls \ {c}
  PROVE  CallsInv'
<1>1. \A d \in calls' : d \in calls /\ d.kind # "more"
  BY DEF CallsInv
<1> QED BY <1>1 DEF CallsInv, FirstPage

(* A search or an apply sets out.                                          *)
LEMMA CallsBegin ==
  ASSUME CallsInv, UNCHANGED <<loading, late, more, next>>,
         NEW d, calls' = calls \cup {d},
         d.kind \in {"search", "apply"}, d.ask \in Asks, d.offset = 0, d.since \in Nat,
         d.kind = "search" => d.ask.text \in Words,
         d.kind = "apply" => FirstPage(d.baseline)
  PROVE  CallsInv'
<1>1. \A c \in calls' : c \in calls \/ (c = d /\ c.kind # "more")
  OBVIOUS
<1> QED BY <1>1, SMTT(60) DEF CallsInv, FirstPage

LEMMA PagesStay ==
  ASSUME PagesInv, AssistTypeOK', polling' \subseteq Tokens', typed' \in Words \cup {Blank},
         pageAsk' \in Asks, version' \in Versions, UNCHANGED last,
         token' \in {token, 0}, banner' \in {banner, NoBanner}
  PROVE  PagesInv'
<1>1. ~NoBanner.up
  BY DEF NoBanner
<1>2. (banner.up => FirstPage(banner.page) /\ banner.ask \in Asks)'
  BY <1>1 DEF PagesInv, FirstPage
<1>3. (token # 0 => FirstPage(last))'
  BY DEF PagesInv, FirstPage
<1> QED BY <1>2, <1>3 DEF PagesInv

(* Adding a further page repeats no session; and if the page is of the     *)
(* ranking the list begins, the list stays the beginning of it.            *)
LEMMA AppendShows ==
  ASSUME ShownInv, NEW c, c.ask \in Asks, c.offset \in Nat, NEW v \in Versions,
         late \/ (more /\ c.offset = next), AppendPage(Page(c, v))
  PROVE  ShownInv'
<1> DEFINE page == Page(c, v)
           ranked == Ranking[c.ask][v]
           add == Unseen(page.sessions)
<1>1. /\ list \in Seq(Sessions) /\ next \in Nat /\ IsInjective(list)
      /\ IsFiniteSet(shown) /\ shown # {} /\ shown \subseteq (Asks \X Versions) \cup {Cleared}
  BY DEF ShownInv, NoSessionTwice
<1>2. PageSize \in Nat \ {0} /\ Len(ranked) \in Nat
  BY RankingAssumption
<1>3. /\ ranked \in Seq(Sessions) /\ IsInjective(ranked)
      /\ page.from = <<c.ask, v>> /\ page.next = c.offset + PageSize
      /\ page.more <=> c.offset + PageSize < Len(ranked)
      /\ page.sessions \in Seq(Sessions) /\ IsInjective(page.sessions)
      /\ \A k \in 1..Len(page.sessions) :
           c.offset + k \in 1..Len(ranked) /\ page.sessions[k] = ranked[c.offset + k]
      /\ c.offset <= Len(ranked) =>
           c.offset + Len(page.sessions) =
             IF c.offset + PageSize < Len(ranked) THEN c.offset + PageSize ELSE Len(ranked)
  BY PageOfRanking
<1>4. /\ list' = list \o add /\ more' = page.more /\ next' = page.next
      /\ shown' = shown \cup {page.from} \cup (IF late THEN {Cleared} ELSE {})
  BY DEF AppendPage
<1>5. /\ add \in Seq(Sessions) /\ IsInjective(add)
      /\ \A n \in DOMAIN add : add[n] \notin ToSet(list)
      /\ (\A k \in DOMAIN page.sessions : page.sessions[k] \notin ToSet(list)) =>
           add = page.sessions
  BY <1>1, <1>3, UnseenAreNew
<1> HIDE DEF page, ranked, add
<1>6. /\ list' \in Seq(Sessions) /\ Len(list') = Len(list) + Len(add)
      /\ Len(list) \in Nat /\ Len(add) \in Nat
      /\ DOMAIN list = 1..Len(list) /\ DOMAIN add = 1..Len(add) /\ DOMAIN list' = 1..Len(list')
      /\ \A k \in 1..Len(list') :
           list'[k] = IF k <= Len(list) THEN list[k] ELSE add[k - Len(list)]
  BY <1>1, <1>4, <1>5, ConcatProperties, LenProperties
<1>7. \A k \in 1..Len(list) : list[k] \in ToSet(list)
  BY <1>6 DEF ToSet
<1>8. NoSessionTwice'
  <2> SUFFICES ASSUME NEW k \in 1..Len(list'), NEW l \in 1..Len(list'), list'[k] = list'[l]
               PROVE  k = l
    BY <1>6 DEF NoSessionTwice, IsInjective
  <2>1. CASE k <= Len(list) /\ l <= Len(list)
    BY <1>1, <1>6, <2>1, SMTT(60) DEF IsInjective
  <2>2. CASE k > Len(list) /\ l > Len(list)
    <3>1. k - Len(list) \in 1..Len(add) /\ l - Len(list) \in 1..Len(add)
          /\ add[k - Len(list)] = add[l - Len(list)]
      BY <1>6, <2>2
    <3>2. k - Len(list) = l - Len(list)
      BY <1>5, <1>6, <3>1 DEF IsInjective
    <3> QED BY <1>6, <3>2
  <2>3. CASE k <= Len(list) /\ l > Len(list)
    <3>1. l - Len(list) \in 1..Len(add) /\ list[k] = add[l - Len(list)] /\ k \in 1..Len(list)
      BY <1>6, <2>3
    <3> QED BY <1>5, <1>6, <1>7, <3>1
  <2>4. CASE k > Len(list) /\ l <= Len(list)
    <3>1. k - Len(list) \in 1..Len(add) /\ list[l] = add[k - Len(list)] /\ l \in 1..Len(list)
      BY <1>6, <2>4
    <3> QED BY <1>5, <1>6, <1>7, <3>1
  <2> QED BY <1>6, <2>1, <2>2, <2>3, <2>4
<1>9. IsFiniteSet(shown') /\ shown' # {}
      /\ shown' \subseteq (Asks \X Versions) \cup {Cleared}'
  <2>1. IsFiniteSet({page.from}) /\ IsFiniteSet(IF late THEN {Cleared} ELSE {})
    BY FS_Singleton, FS_EmptySet
  <2>2. IsFiniteSet(shown')
    BY <1>1, <1>4, <2>1, FS_Union
  <2>3. page.from \in Asks \X Versions /\ Cleared' = Cleared
    BY <1>3 DEF Cleared, Plain
  <2> QED BY <1>1, <1>4, <2>2, <2>3
<1>10. ASSUME NEW b \in Asks, NEW w \in Versions, shown' = {<<b, w>>}
       PROVE  Continues(b, w)'
  <2>1. ~late
    BY <1>4, <1>10, ClearedIsNoRanking
  <2>2. page.from = <<b, w>> /\ shown = {<<b, w>>}
    BY <1>1, <1>4, <1>10
  <2>3. c.ask = b /\ v = w
    <3>1. <<c.ask, v>> = <<b, w>>
      BY <1>3, <2>2
    <3> QED BY <3>1
  <2>4. more /\ c.offset = Len(list) /\ Len(list) <= Len(ranked)
        /\ \A k \in 1..Len(list) : list[k] = ranked[k]
    <3>1. Continues(b, w)
      BY <2>2 DEF ShownInv
    <3> QED BY <2>1, <2>3, <3>1 DEF Continues, ranked
  <2>5. add = page.sessions
    <3> SUFFICES ASSUME NEW k \in DOMAIN page.sessions, page.sessions[k] \in ToSet(list)
                 PROVE  FALSE
      BY <1>5
    <3>1. k \in 1..Len(page.sessions) /\ Len(page.sessions) \in Nat
      BY <1>3, LenProperties
    <3>2. PICK j \in 1..Len(list) : page.sessions[k] = list[j]
      BY <1>6 DEF ToSet
    <3>3. c.offset + k \in DOMAIN ranked /\ j \in DOMAIN ranked
          /\ ranked[c.offset + k] = ranked[j]
      <4>1. DOMAIN ranked = 1..Len(ranked)
        BY <1>3, LenProperties
      <4>2. j \in 1..Len(ranked)
        BY <1>2, <1>6, <2>4
      <4> QED BY <1>3, <2>4, <3>1, <3>2, <4>1, <4>2
    <3>4. c.offset + k = j
      BY <1>3, <3>3 DEF IsInjective
    <3> QED BY <1>6, <2>4, <3>1, <3>4
  <2>6. Len(list') = IF c.offset + PageSize < Len(ranked) THEN c.offset + PageSize
                     ELSE Len(ranked)
    BY <1>3, <1>6, <2>4, <2>5
  <2>7. \A k \in 1..Len(list') : list'[k] = ranked[k]
    <3> SUFFICES ASSUME NEW k \in 1..Len(list') PROVE list'[k] = ranked[k]
      OBVIOUS
    <3>1. CASE k <= Len(list)
      BY <1>6, <2>4, <3>1
    <3>2. CASE k > Len(list)
      <4>1. k - Len(list) \in 1..Len(page.sessions)
        BY <1>6, <2>5, <3>2
      <4>2. list'[k] = page.sessions[k - Len(list)]
        BY <1>6, <2>5, <3>2
      <4>3. c.offset + (k - Len(list)) = k
        BY <1>6, <2>4
      <4> QED BY <1>3, <4>1, <4>2, <4>3
    <3> QED BY <1>6, <3>1, <3>2
  <2>8. (more' <=> c.offset + PageSize < Len(ranked)) /\ next' = c.offset + PageSize
    BY <1>3, <1>4
  <2> HIDE DEF ranked
  <2>9. /\ Len(list') <= Len(ranked)
        /\ IF more' THEN next' = Len(list') ELSE Len(list') = Len(ranked)
    BY <1>2, <2>6, <2>8
  <2>10. ranked = Ranking[b][w]
    BY <2>3 DEF ranked
  <2> QED BY <2>7, <2>9, <2>10 DEF Continues
<1>11. next' \in Nat
  BY <1>2, <1>3, <1>4
<1> QED BY <1>6, <1>8, <1>9, <1>10, <1>11 DEF ShownInv

-----------------------------------------------------------------------------
(* The list: every step keeps the invariant.                               *)

LEMMA AssistStays ==
  ASSUME AssistTypeOK, UNCHANGED assistVars PROVE AssistTypeOK' /\ Tokens' = Tokens
BY DEF AssistTypeOK, assistVars, Tokens

LEMMA VersionsCount ==
  ASSUME NEW v \in Versions PROVE v \in Nat
BY RankingAssumption DEF Versions

(* An answer is of a version the index had while it was asked.             *)
LEMMA VersionsSince ==
  ASSUME CallsInv, PagesInv, NEW c \in calls, NEW v \in c.since..version PROVE v \in Versions
BY RankingAssumption DEF CallsInv, PagesInv, Versions

LEMMA ListInit == SearchInit => ListInv
<1> SUFFICES ASSUME SearchInit PROVE ListInv
  OBVIOUS
<1>1. ShownInv
  <2>1. list = << >> /\ next = 0 /\ shown = {Cleared}
    BY DEF SearchInit
  <2>2. list \in Seq(Sessions) /\ NoSessionTwice
    BY <2>1 DEF NoSessionTwice, IsInjective
  <2>3. IsFiniteSet(shown) /\ shown # {} /\ shown \subseteq (Asks \X Versions) \cup {Cleared}
    BY <2>1, FS_Singleton
  <2>4. \A a \in Asks, v \in Versions : shown # {<<a, v>>}
    <3> SUFFICES ASSUME NEW a \in Asks, NEW v \in Versions, shown = {<<a, v>>} PROVE FALSE
      OBVIOUS
    <3>1. Cleared \in {<<a, v>>}
      BY <2>1
    <3> QED BY <3>1, ClearedIsNoRanking
  <2> QED BY <2>1, <2>2, <2>3, <2>4 DEF ShownInv
<1>2. CallsInv
  BY DEF SearchInit, CallsInv
<1>3. PagesInv
  <2>1. ~NoBanner.up /\ Plain(Blank) \in Asks
    BY PlainIsAsk DEF NoBanner
  <2>2. 0 \in Versions
    BY RankingAssumption DEF Versions
  <2> QED BY <2>1, <2>2, AssistInitTyped DEF SearchInit, PagesInv
<1> QED BY <1>1, <1>2, <1>3 DEF ListInv

LEMMA ListElsewhere ==
  ASSUME ListInv, Type \/ Sync \/ CopilotStep \/ UNCHANGED vars PROVE ListInv'
<1> USE DEF ListInv
<1>1. UNCHANGED <<token, polling, loading, calls, screen>>
  BY DEF Type, Sync, CopilotStep, vars, inputs
<1>2. ShownInv'
  BY <1>1, ShownStays DEF screen
<1>3. CallsInv'
  BY <1>1, CallsEnd DEF screen
<1>4. AssistTypeOK' /\ Tokens' = Tokens
  BY AssistStays, CopilotTyped DEF Type, Sync, CopilotStep, vars, PagesInv
<1>5. typed' \in Words \cup {Blank}
  BY DEF Type, Sync, CopilotStep, vars, inputs, PagesInv
<1>6. version' \in Versions
  BY RankingAssumption DEF Type, Sync, CopilotStep, vars, PagesInv, Versions
<1>7. PagesInv'
  <2>1. polling' \subseteq Tokens' /\ pageAsk' \in Asks /\ UNCHANGED <<last, banner, token>>
    BY <1>1, <1>4 DEF PagesInv, screen
  <2> QED BY <1>4, <1>5, <1>6, <2>1, PagesStay
<1> QED BY <1>2, <1>3, <1>7

LEMMA ListSearch ==
  ASSUME ListInv, Search PROVE ListInv'
<1> USE DEF ListInv
<1>1. ShownInv'
  BY ShownStays DEF Search
<1>2. CallsInv'
  <2>1. PICK d : d = Call("search", requestId + 1, Plain(typed), 0)
    OBVIOUS
  <2>2. d.kind = "search" /\ d.ask \in Asks /\ d.offset = 0 /\ d.since \in Nat
    BY <2>1, PlainIsAsk, VersionsCount DEF Call, PagesInv
  <2>3. calls' = calls \cup {d} /\ UNCHANGED <<loading, late, more, next>>
    BY <2>1 DEF Search
  <2>4. d.ask.text \in Words
    BY <2>1 DEF Call, Plain, Search, PagesInv
  <2> QED BY <2>2, <2>3, <2>4, CallsBegin
<1>3. PagesInv'
  <2>1. AssistTypeOK' /\ Tokens' = Tokens
    BY AssistStays DEF Search, PagesInv
  <2> QED BY <2>1, PagesStay DEF Search, PagesInv
<1> QED BY <1>1, <1>2, <1>3

LEMMA ListClear ==
  ASSUME ListInv, Clear PROVE ListInv'
<1> USE DEF ListInv
<1>1. ShownInv'
  <2>1. list' = << >> /\ shown' = {Cleared} /\ next' = next
    BY DEF Clear
  <2>2. list' \in Seq(Sessions) /\ NoSessionTwice'
    BY <2>1 DEF NoSessionTwice, IsInjective
  <2>3. Cleared' = Cleared
    BY DEF Cleared, Plain
  <2>4. IsFiniteSet(shown') /\ shown' # {} /\ shown' \subseteq (Asks \X Versions) \cup {Cleared}'
    BY <2>1, <2>3, FS_Singleton
  <2>5. \A a \in Asks, v \in Versions : shown' # {<<a, v>>}
    <3> SUFFICES ASSUME NEW a \in Asks, NEW v \in Versions, shown' = {<<a, v>>} PROVE FALSE
      OBVIOUS
    <3>1. Cleared \in {<<a, v>>}
      BY <2>1
    <3> QED BY <3>1, ClearedIsNoRanking
  <2> QED BY <2>1, <2>2, <2>4, <2>5 DEF ShownInv
<1>2. CallsInv'
  BY CallsEnd DEF Clear
<1>3. PagesInv'
  <2>1. AssistTypeOK' /\ Tokens' = Tokens
    BY AssistStays DEF Clear, PagesInv
  <2> QED BY <2>1, PagesStay DEF Clear, PagesInv, inputs
<1> QED BY <1>1, <1>2, <1>3

LEMMA ListLoadMore ==
  ASSUME ListInv, LoadMore PROVE ListInv'
<1> USE DEF ListInv
<1>1. ShownInv'
  BY ShownStays DEF LoadMore
<1>2. CallsInv'
  <2>1. PICK d : d = Call("more", requestId, pageAsk, next)
    OBVIOUS
  <2>2. d.kind = "more" /\ d.ask \in Asks /\ d.offset = next /\ d.since \in Nat /\ d.offset \in Nat
    BY <2>1, VersionsCount DEF Call, PagesInv, ShownInv
  <2>3. /\ calls' = calls \cup {d} /\ UNCHANGED <<more, next>> /\ more
        /\ ~loading /\ loading'
    BY <2>1 DEF LoadMore
  <2>4. \A c \in calls : c.kind # "more"
    BY <2>3 DEF CallsInv
  <2>5. \A c \in calls' : c = d \/ (c \in calls /\ c.kind # "more")
    BY <2>3, <2>4
  <2> QED BY <2>2, <2>3, <2>5 DEF CallsInv, FirstPage
<1>3. PagesInv'
  <2>1. AssistTypeOK' /\ Tokens' = Tokens
    BY AssistStays DEF LoadMore, PagesInv
  <2> QED BY <2>1, PagesStay DEF LoadMore, PagesInv, inputs
<1> QED BY <1>1, <1>2, <1>3

LEMMA ListMore ==
  ASSUME ListInv, NEW c \in calls, MoreAnswered(c) \/ MoreLost(c) PROVE ListInv'
<1> USE DEF ListInv
<1>1. c.kind = "more" /\ calls' = calls \ {c}
  BY DEF MoreAnswered, MoreLost
<1>2. ShownInv'
  <2>1. CASE UNCHANGED screen
    BY <2>1, ShownStays DEF screen
  <2>2. CASE \E v \in c.since..version : AppendPage(Page(c, v))
    <3>1. PICK v \in c.since..version : AppendPage(Page(c, v))
      BY <2>2
    <3>2. v \in Versions
      BY VersionsSince
    <3>3. c.ask \in Asks /\ c.offset \in Nat /\ (late \/ (more /\ c.offset = next))
      BY <1>1 DEF CallsInv
    <3> QED BY <3>1, <3>2, <3>3, AppendShows
  <2> QED BY <2>1, <2>2 DEF MoreAnswered, MoreLost
<1>3. CallsInv'
  BY <1>1, MoreEnds
<1>4. PagesInv'
  <2>1. UNCHANGED <<assistVars, inputs, polling, version>> /\ UNCHANGED <<last, pageAsk, banner>>
    BY DEF MoreAnswered, MoreLost, AppendPage, screen
  <2>2. AssistTypeOK' /\ Tokens' = Tokens
    BY <2>1, AssistStays DEF PagesInv
  <2> QED BY <2>1, <2>2, PagesStay DEF PagesInv, inputs
<1> QED BY <1>2, <1>3, <1>4

LEMMA ListSearchAnswered ==
  ASSUME ListInv, NEW c \in calls, SearchAnswered(c) PROVE ListInv'
<1> USE DEF ListInv
<1>0. c.kind = "search" /\ calls' = calls \ {c} /\ UNCHANGED <<typed, loading, version>>
      /\ Assisted(c)
  BY DEF SearchAnswered
<1>1. c.ask \in Asks /\ c.offset = 0
  BY <1>0 DEF CallsInv
<1>2. AssistTypeOK' /\ Tokens \subseteq Tokens' /\ polling \subseteq Tokens
      /\ (Len(asked') > Len(asked) => Len(asked') \in Tokens')
  <2>1. CASE Submit(c.ask.text)
    <3>1. c.ask.text \in Words
      BY <1>0 DEF CallsInv
    <3> QED BY <2>1, <3>1, SubmitTyped DEF PagesInv
  <2>2. CASE UNCHANGED assistVars
    <3>1. asked' = asked /\ Len(asked) \in Nat
      BY <2>2 DEF assistVars, PagesInv, AssistTypeOK
    <3> QED BY <2>2, <3>1, AssistStays DEF PagesInv
  <2> QED BY <1>0, <2>1, <2>2 DEF Assisted
<1>3. CASE c.id # requestId
  <2>1. UNCHANGED <<screen, token, polling>>
    BY <1>3 DEF SearchAnswered
  <2>2. ShownInv'
    BY <2>1, ShownStays DEF screen
  <2>3. CallsInv'
    BY <1>0, <2>1, CallsEnd DEF screen
  <2>4. PagesInv'
    BY <1>0, <1>2, <2>1, PagesStay DEF PagesInv, screen
  <2> QED BY <2>2, <2>3, <2>4
<1>4. CASE c.id = requestId
  <2>1. PICK v \in c.since..version : Render(Page(c, v))
    BY <1>4 DEF SearchAnswered
  <2>2. FirstPage(Page(c, v))
    BY <1>1, VersionsSince, FirstPageAnswered
  <2>3. ShownInv' /\ last' = Page(c, v) /\ late' = loading
    BY <2>1, <2>2, RenderShows DEF ShownInv
  <2>4. CallsInv'
    BY <1>0, <2>3, CallsEnd
  <2>5. FirstPage(last)'
    BY <2>2, <2>3 DEF FirstPage
  <2>6. pageAsk' = Plain(typed) /\ UNCHANGED banner
        /\ IF Len(asked') > Len(asked) THEN polling' = polling \cup {Len(asked')}
           ELSE UNCHANGED polling
    BY <1>4 DEF SearchAnswered
  <2>7. pageAsk' \in Asks /\ polling' \subseteq Tokens'
    BY <1>2, <2>6, PlainIsAsk DEF PagesInv
  <2>8. (banner.up => FirstPage(banner.page) /\ banner.ask \in Asks)'
    BY <2>6 DEF PagesInv, FirstPage
  <2>9. PagesInv'
    BY <1>0, <1>2, <2>5, <2>7, <2>8 DEF PagesInv
  <2> QED BY <2>3, <2>4, <2>9
<1> QED BY <1>3, <1>4

LEMMA ListSearchLost ==
  ASSUME ListInv, NEW c \in calls, SearchLost(c) PROVE ListInv'
<1> USE DEF ListInv
<1>0. c.kind = "search" /\ calls' = calls \ {c} /\ Assisted(c)
      /\ UNCHANGED <<typed, token, polling, loading, screen, version>>
  BY DEF SearchLost
<1>1. AssistTypeOK' /\ Tokens \subseteq Tokens'
  <2>1. CASE Submit(c.ask.text)
    <3>1. c.ask.text \in Words
      BY <1>0 DEF CallsInv
    <3> QED BY <2>1, <3>1, SubmitTyped DEF PagesInv
  <2>2. CASE UNCHANGED assistVars
    BY <2>2, AssistStays DEF PagesInv
  <2> QED BY <1>0, <2>1, <2>2 DEF Assisted
<1>2. ShownInv'
  BY <1>0, ShownStays DEF screen
<1>3. CallsInv'
  BY <1>0, CallsEnd DEF screen
<1>4. PagesInv'
  BY <1>0, <1>1, PagesStay DEF PagesInv, screen
<1> QED BY <1>2, <1>3, <1>4

(* A poll of the current token asks to apply its parse to the page on      *)
(* screen, which a token makes a first page.                               *)
LEMMA ListPoll ==
  ASSUME ListInv, NEW t \in polling, PollAssist(t) \/ PollLost(t) PROVE ListInv'
<1> USE DEF ListInv
<1>0. UNCHANGED <<assistVars, inputs, loading, screen, version>> /\ polling' = polling \ {t}
  BY DEF PollAssist, PollLost
<1>1. ShownInv'
  BY <1>0, ShownStays DEF screen
<1>2. CallsInv'
  <2>1. CASE calls' = calls
    BY <1>0, <2>1, CallsEnd DEF screen
  <2>2. CASE token = t /\ calls' = calls \cup {Call("apply", requestId, AppliedAsk(t), 0)}
    <3>1. PICK d : d = Call("apply", requestId, AppliedAsk(t), 0)
      OBVIOUS
    <3>2. d.kind = "apply" /\ d.ask = AppliedAsk(t) /\ d.offset = 0 /\ d.since = version
          /\ d.baseline = last
      BY <3>1 DEF Call
    <3>3. token # 0
      <4>1. t \in 1..Len(asked) /\ Len(asked) \in Nat
        BY DEF PagesInv, AssistTypeOK, Tokens
      <4> QED BY <2>2, <4>1
    <3>4. FirstPage(d.baseline)
      BY <3>2, <3>3 DEF PagesInv
    <3>5. d.ask \in Asks /\ d.since \in Nat
      BY <3>2, AppliedIsAsk, VersionsCount DEF PagesInv
    <3>6. calls' = calls \cup {d} /\ UNCHANGED <<loading, late, more, next>>
      BY <1>0, <2>2, <3>1 DEF screen
    <3> QED BY <3>2, <3>4, <3>5, <3>6, CallsBegin
  <2> QED BY <2>1, <2>2 DEF PollAssist, PollLost
<1>3. PagesInv'
  <2>1. AssistTypeOK' /\ Tokens' = Tokens
    BY <1>0, AssistStays DEF PagesInv
  <2> QED BY <1>0, <2>1, PagesStay DEF PagesInv, inputs, screen
<1> QED BY <1>1, <1>2, <1>3

LEMMA ListApplyAnswered ==
  ASSUME ListInv, NEW c \in calls, ApplyAnswered(c) PROVE ListInv'
<1> USE DEF ListInv
<1>0. c.kind = "apply" /\ calls' = calls \ {c}
      /\ UNCHANGED <<assistVars, inputs, polling, loading, version>>
  BY DEF ApplyAnswered
<1>1. c.ask \in Asks /\ c.offset = 0 /\ FirstPage(c.baseline)
  BY <1>0 DEF CallsInv
<1>2. AssistTypeOK' /\ Tokens' = Tokens
  BY <1>0, AssistStays DEF PagesInv
<1>3. CASE UNCHANGED screen
  <2>1. ShownInv'
    BY <1>3, ShownStays DEF screen
  <2>2. CallsInv'
    BY <1>0, <1>3, CallsEnd DEF screen
  <2>3. PagesInv'
    BY <1>0, <1>2, <1>3, PagesStay DEF PagesInv, inputs, screen
  <2> QED BY <2>1, <2>2, <2>3
<1>4. ASSUME NEW v \in c.since..version, Render(Page(c, v)),
             pageAsk' = [c.ask EXCEPT !.expanded = FALSE],
             banner' = [up |-> TRUE, ask |-> pageAsk, page |-> c.baseline]
      PROVE  ListInv'
  <2>1. FirstPage(Page(c, v))
    BY <1>1, VersionsSince, FirstPageAnswered
  <2>2. ShownInv' /\ last' = Page(c, v) /\ late' = loading
    BY <1>4, <2>1, RenderShows DEF ShownInv
  <2>3. CallsInv'
    BY <1>0, <2>2, CallsEnd
  <2>4. FirstPage(last)'
    BY <2>1, <2>2 DEF FirstPage
  <2>5. pageAsk' \in Asks
    BY <1>1, <1>4 DEF Asks
  <2>6. (banner.up => FirstPage(banner.page) /\ banner.ask \in Asks)'
    BY <1>1, <1>4 DEF PagesInv, FirstPage
  <2>7. PagesInv'
    BY <1>0, <1>2, <2>4, <2>5, <2>6 DEF PagesInv, inputs
  <2> QED BY <2>2, <2>3, <2>7
<1> QED BY <1>3, <1>4 DEF ApplyAnswered

LEMMA ListApplyLost ==
  ASSUME ListInv, NEW c \in calls, ApplyLost(c) PROVE ListInv'
<1> USE DEF ListInv
<1>0. calls' = calls \ {c} /\ UNCHANGED <<assistVars, inputs, polling, loading, screen, version>>
  BY DEF ApplyLost
<1>1. ShownInv'
  BY <1>0, ShownStays DEF screen
<1>2. CallsInv'
  BY <1>0, CallsEnd DEF screen
<1>3. PagesInv'
  <2>1. AssistTypeOK' /\ Tokens' = Tokens
    BY <1>0, AssistStays DEF PagesInv
  <2> QED BY <1>0, <2>1, PagesStay DEF PagesInv, inputs, screen
<1> QED BY <1>1, <1>2, <1>3

LEMMA ListUndo ==
  ASSUME ListInv, Undo PROVE ListInv'
<1> USE DEF ListInv
<1>0. banner.up /\ banner' = NoBanner /\ pageAsk' = banner.ask /\ Render(banner.page)
      /\ UNCHANGED <<assistVars, inputs, polling, loading, calls, version>>
  BY DEF Undo
<1>1. PICK page : page = banner.page
  OBVIOUS
<1>2. FirstPage(page) /\ Render(page) /\ banner.ask \in Asks
  BY <1>0, <1>1 DEF PagesInv
<1>3. ShownInv' /\ last' = page /\ late' = loading
  BY <1>2, RenderShows DEF ShownInv
<1>4. CallsInv'
  BY <1>0, <1>3, CallsEnd
<1>5. PagesInv'
  <2>1. AssistTypeOK' /\ Tokens' = Tokens
    BY <1>0, AssistStays DEF PagesInv
  <2>2. FirstPage(last)'
    BY <1>2, <1>3 DEF FirstPage
  <2>3. ~banner'.up
    BY <1>0 DEF NoBanner
  <2> QED BY <1>0, <1>2, <2>1, <2>2, <2>3 DEF PagesInv, inputs
<1> QED BY <1>3, <1>4, <1>5

(* The list of results is made of pages of rankings, repeats no session    *)
(* and, while one ranking fills it, is its beginning; the calls under way  *)
(* ask for pages from where they found it (loadMore, appendResults).       *)
THEOREM ListAlways == SearchSpec => []ListInv
<1>1. SearchInit => ListInv
  BY ListInit
<1>2. ListInv /\ [SearchNext]_vars => ListInv'
  <2> SUFFICES ASSUME ListInv, [SearchNext]_vars PROVE ListInv'
    OBVIOUS
  <2>1. CASE Type \/ Sync \/ CopilotStep \/ UNCHANGED vars
    BY <2>1, ListElsewhere
  <2>2. CASE Search \/ Clear \/ LoadMore \/ Undo
    BY <2>2, ListSearch, ListClear, ListLoadMore, ListUndo
  <2>3. CASE Poll \/ (\E t \in polling : PollLost(t))
    BY <2>3, ListPoll DEF Poll
  <2>4. CASE Arrival
    <3>1. PICK c \in calls : SearchAnswered(c) \/ MoreAnswered(c) \/ ApplyAnswered(c)
      BY <2>4 DEF Arrival
    <3> QED BY <3>1, ListSearchAnswered, ListMore, ListApplyAnswered
  <2>5. CASE Loss
    <3>1. PICK c \in calls : SearchLost(c) \/ MoreLost(c) \/ ApplyLost(c)
      BY <2>5 DEF Loss
    <3> QED BY <3>1, ListSearchLost, ListMore, ListApplyLost
  <2> QED BY <2>1, <2>2, <2>3, <2>4, <2>5 DEF SearchNext
<1> QED BY <1>1, <1>2, PTL DEF SearchSpec

(* However late pages arrive and whatever a sync does to the ranking       *)
(* between two of them, no session is listed twice.                        *)
THEOREM NoSessionTwiceAlways == SearchSpec => []NoSessionTwice
<1>1. ListInv => NoSessionTwice
  BY DEF ListInv, ShownInv
<1> QED BY <1>1, ListAlways, PTL

(* While the screen shows pages of one ranking, each asked for by the list *)
(* it was added to, they are the beginning of that ranking without a gap.  *)
THEOREM NothingSkippedAlways == SearchSpec => []NothingSkipped
<1>1. ListInv => NothingSkipped
  <2> SUFFICES ASSUME ListInv, Cardinality(shown) = 1, Cleared \notin shown,
                      NEW from \in shown
               PROVE  LET ranked == Ranking[from[1]][from[2]]
                      IN /\ IsPrefix(list, ranked)
                         /\ IF more THEN next = Len(list) ELSE list = ranked
    BY DEF NothingSkipped
  <2>1. shown = {from}
    BY FS_Singleton DEF ListInv, ShownInv
  <2>2. PICK a \in Asks, v \in Versions : from = <<a, v>>
    BY DEF ListInv, ShownInv
  <2>3. Continues(a, v)
    BY <2>1, <2>2 DEF ListInv, ShownInv
  <2> DEFINE ranked == Ranking[a][v]
  <2>4. /\ list \in Seq(Sessions) /\ ranked \in Seq(Sessions)
        /\ Len(list) \in Nat /\ Len(ranked) \in Nat
    BY RankingAssumption DEF ListInv, ShownInv
  <2>5. IsPrefix(list, ranked)
    <3>1. /\ Len(list) <= Len(ranked)
          /\ \A k \in 1..Len(list) : list[k] = ranked[k]
      BY <2>3 DEF Continues
    <3> QED BY <2>4, <3>1, SubSeqProperties, SeqEqual DEF IsPrefix
  <2>6. IF more THEN next = Len(list) ELSE list = ranked
    <3>1. CASE more
      BY <2>3, <3>1 DEF Continues
    <3>2. CASE ~more
      <4>1. Len(list) = Len(ranked) /\ \A k \in 1..Len(list) : list[k] = ranked[k]
        BY <2>3, <3>2 DEF Continues
      <4> QED BY <2>4, <3>2, <4>1, SeqEqual
    <3> QED BY <3>1, <3>2
  <2>7. ranked = Ranking[from[1]][from[2]]
    BY <2>2
  <2> QED BY <2>5, <2>6, <2>7
<1> QED BY <1>1, ListAlways, PTL
=============================================================================
