---------------------------- MODULE GpuStream_proofs ----------------------------
(***************************************************************************)
(* TLAPS proofs about the frames between helper and bridge: what is in the *)
(* pipe and in the input buffer is the tail of what one helper wrote.      *)
(***************************************************************************)
EXTENDS GpuBridge_proofs, SequenceTheorems

\* What has been written and not decoded yet.
Content == input \o pipe
OkHead(c) == c.part = "head" /\ c.status = "OK"
Honest(c) == c.part = "head" /\ c.status # "GARBAGE"
Open(s) == s # <<>> /\ OkHead(s[Len(s)])

WellFramed(s) ==
    \A i \in 1..Len(s) :
        /\ s[i].part = "body" => i > 1 /\ OkHead(s[i - 1])
        /\ OkHead(s[i]) /\ i < Len(s) => s[i + 1].part = "body"
Rising(s) ==
    \A i, j \in 1..Len(s) : i < j /\ Honest(s[i]) /\ Honest(s[j]) => s[i].seq < s[j].seq
Above(s, n) == \A i \in 1..Len(s) : Honest(s[i]) => s[i].seq > n
UpTo(s, n) == \A i \in 1..Len(s) : Honest(s[i]) => s[i].seq <= n

Stream ==
    /\ pc = "gone" => readFd = None
    /\ readFd # None =>
        /\ WellFramed(Content) /\ Rising(Content)
        /\ hasSeq => Above(Content, lastSeq)
        /\ Open(Content) => Phase(readFd) \in {"writing", "zombie"}
        /\ Phase(readFd) = "writing" => Open(Content)
        /\ Phase(readFd) # "zombie" =>
             /\ UpTo(Content, procs[readFd].seq)
             /\ hasSeq => lastSeq <= procs[readFd].seq
        /\ Phase(readFd) \in {"exec", "init"} => Content = <<>> /\ ~hasSeq

-----------------------------------------------------------------------------
(* Sequences of frames.                                                    *)

LEMMA ChunkSeq ==
    ASSUME NEW c \in Chunk PROVE c.seq \in 1..MaxSeq /\ c.seq \in Int /\ c.part \in {"head", "body"}
BY HelperAssumption DEF HelperAssumption, Chunk

\* The chunk that a helper writes next keeps the framing: a body goes behind an open
\* header, a header behind anything else.
LEMMA AppendFramed ==
    ASSUME NEW s \in Seq(Chunk), NEW c \in Chunk, WellFramed(s),
           (c.part = "body") <=> Open(s)
    PROVE  WellFramed(Append(s, c))
<1> DEFINE t == Append(s, c)
<1>1. Len(s) \in Nat /\ Len(t) = Len(s) + 1 /\ t[Len(t)] = c
      /\ \A i \in 1..Len(s) : t[i] = s[i]
  OBVIOUS
<1>2. c.part \in {"head", "body"}
  BY DEF Chunk
<1> HIDE DEF t
<1>3. ASSUME NEW i \in 1..Len(t)
      PROVE  /\ t[i].part = "body" => i > 1 /\ OkHead(t[i - 1])
             /\ OkHead(t[i]) /\ i < Len(t) => t[i + 1].part = "body"
  <2>1. CASE i <= Len(s) - 1
    <3>1. i \in 1..Len(s) /\ i + 1 \in 1..Len(s) /\ (i > 1 => i - 1 \in 1..Len(s))
      BY <1>1, <2>1
    <3>2. t[i] = s[i] /\ t[i + 1] = s[i + 1] /\ (i > 1 => t[i - 1] = s[i - 1]) /\ i < Len(s)
      BY <1>1, <2>1, <3>1
    <3>3. QED
      BY <3>1, <3>2 DEF WellFramed
  <2>2. CASE i = Len(s)
    <3>1. i \in 1..Len(s) /\ (i > 1 => i - 1 \in 1..Len(s))
      BY <1>1, <2>2
    <3>2. t[i] = s[i] /\ t[i + 1] = c /\ (i > 1 => t[i - 1] = s[i - 1])
      BY <1>1, <2>2, <3>1
    <3>3. OkHead(s[i]) => c.part = "body"
      BY <2>2, <3>1 DEF Open
    <3>4. s[i].part = "body" => i > 1 /\ OkHead(s[i - 1])
      BY <3>1 DEF WellFramed
    <3>5. QED
      BY <3>1, <3>2, <3>3, <3>4
  <2>3. CASE i = Len(s) + 1
    <3>1. t[i] = c /\ ~(i < Len(t))
      BY <1>1, <2>3
    <3>2. c.part = "body" => Len(s) > 0 /\ OkHead(s[Len(s)])
      BY DEF Open
    <3>3. Len(s) > 0 => t[i - 1] = s[Len(s)]
      BY <1>1, <2>3
    <3>4. QED
      BY <1>1, <2>3, <3>1, <3>2, <3>3
  <2>4. QED
    BY <1>1, <2>1, <2>2, <2>3
<1>4. QED
  BY <1>3 DEF WellFramed, t

\* A new number goes behind lower ones.
LEMMA AppendRising ==
    ASSUME NEW s \in Seq(Chunk), NEW c \in Chunk, Rising(s),
           Honest(c) => UpTo(s, c.seq - 1)
    PROVE  Rising(Append(s, c))
<1>1. ASSUME NEW i \in 1..Len(s), Honest(s[i]), Honest(c) PROVE s[i].seq < c.seq
  <2>1. s[i].seq \in Int /\ c.seq \in Int
    BY ChunkSeq
  <2>2. QED
    BY <1>1, <2>1 DEF UpTo
<1>2. QED
  BY <1>1 DEF Rising

LEMMA AppendBounds ==
    ASSUME NEW s \in Seq(Chunk), NEW c \in Chunk, NEW n \in Int
    PROVE  /\ Above(s, n) /\ (Honest(c) => c.seq > n) => Above(Append(s, c), n)
           /\ UpTo(s, n) /\ (Honest(c) => c.seq <= n) => UpTo(Append(s, c), n)
           /\ Open(Append(s, c)) <=> OkHead(c)
<1> DEFINE t == Append(s, c)
<1>1. Len(s) \in Nat /\ Len(t) = Len(s) + 1 /\ t[Len(t)] = c /\ t # <<>>
      /\ \A i \in 1..Len(s) : t[i] = s[i]
  OBVIOUS
<1> HIDE DEF t
<1>2. \A i \in 1..Len(t) : t[i] = c \/ (i \in 1..Len(s) /\ t[i] = s[i])
  BY <1>1
<1>3. (Open(t) <=> OkHead(c))
  BY <1>1 DEF Open
<1>4. /\ Above(s, n) /\ (Honest(c) => c.seq > n) => Above(t, n)
      /\ UpTo(s, n) /\ (Honest(c) => c.seq <= n) => UpTo(t, n)
  BY <1>2 DEF Above, UpTo
<1>5. QED
  BY <1>3, <1>4 DEF t

\* What is in front is a header, and the frame taken off the front leaves whole
\* frames with higher numbers.
LEMMA FrontIsHead ==
    ASSUME NEW s \in Seq(Chunk), s # <<>>, WellFramed(s)
    PROVE  s[1] \in Chunk /\ s[1].part = "head"
<1>1. 1 \in 1..Len(s) /\ s[1] \in Chunk
  OBVIOUS
<1>2. s[1].part # "body"
  BY <1>1 DEF WellFramed
<1>3. QED
  BY <1>1, <1>2, ChunkSeq

\* t is s without its first k chunks.
Without(s, t, k) ==
    /\ Len(t) = Len(s) - k
    /\ \A i \in 1..Len(t) : t[i] = s[i + k] /\ i + k \in 1..Len(s)

LEMMA TailAt ==
    ASSUME NEW s \in Seq(Chunk), NEW k \in Nat, k <= Len(s),
           NEW t \in Seq(Chunk), t = SubSeq(s, k + 1, Len(s))
    PROVE  Without(s, t, k)
<1>1. Len(s) \in Nat /\ Len(t) = Len(s) - k
  OBVIOUS
<1>2. ASSUME NEW i \in 1..Len(t) PROVE t[i] = s[i + k] /\ i + k \in 1..Len(s)
  <2>1. i \in 1..(Len(s) - k) /\ i \in Int /\ k \in Int
    BY <1>1
  <2>2. i + k \in 1..Len(s) /\ (k + 1) + i - 1 = i + k
    BY <1>1, <2>1
  <2>3. t[i] = s[(k + 1) + i - 1]
    BY <1>1, <2>1
  <2>4. QED
    BY <2>2, <2>3
<1>3. QED
  BY <1>1, <1>2 DEF Without

LEMMA Shifted ==
    ASSUME NEW i \in Int, NEW k \in {1, 2}, NEW m \in Nat, NEW n \in Nat, m = n - k,
           i \in 1..m
    PROVE  /\ i > 1 => i - 1 \in 1..m /\ (i - 1) + k = (i + k) - 1
           /\ i < m => i + 1 \in 1..m /\ (i + 1) + k = (i + k) + 1 /\ i + k < n
           /\ 1 < i + k
           /\ m \in 1..m /\ m + k = n
OBVIOUS

LEMMA TailFramed ==
    ASSUME NEW s \in Seq(Chunk), s # <<>>, WellFramed(s), Rising(s),
           NEW k \in {1, 2}, k = FrameLen(s[1]), k <= Len(s),
           NEW t \in Seq(Chunk), Without(s, t, k)
    PROVE  /\ WellFramed(t) /\ Rising(t)
           /\ Honest(s[1]) => Above(t, s[1].seq)
           /\ \A n \in Int : UpTo(s, n) => UpTo(t, n)
           /\ Open(t) <=> Open(s)
<1>1. /\ Len(s) \in Nat /\ Len(t) \in Nat /\ Len(t) = Len(s) - k
      /\ \A i \in 1..Len(t) : i \in Int /\ t[i] = s[i + k] /\ i + k \in 1..Len(s)
  BY DEF Without
<1>2. s[1].part = "head" /\ 1 \in 1..Len(s) /\ k \in Int
  BY FrontIsHead
<1>3. k = 2 <=> OkHead(s[1])
  BY <1>2 DEF FrameLen, OkHead
<1>4. k = 2 => s[2].part = "body" /\ 2 \in 1..Len(s)
  BY <1>1, <1>2, <1>3 DEF WellFramed
<1>5. ~OkHead(s[k])
  BY <1>3, <1>4 DEF OkHead
<1> HIDE DEF FrameLen
<1>6. ASSUME NEW i \in 1..Len(t)
      PROVE  /\ t[i].part = "body" => i > 1 /\ OkHead(t[i - 1])
             /\ OkHead(t[i]) /\ i < Len(t) => t[i + 1].part = "body"
  <2>1. i + k \in 1..Len(s) /\ t[i] = s[i + k]
    BY <1>1
  <2>2. s[i + k].part = "body" => OkHead(s[(i + k) - 1])
    BY <2>1 DEF WellFramed
  <2>3. i = 1 => s[i + k].part # "body"
    <3>1. i = 1 => (i + k) - 1 = k
      BY <1>2
    <3>2. QED
      BY <1>5, <2>2, <3>1
  <2>4. i > 1 => t[i - 1] = s[(i + k) - 1]
    <3>1. i > 1 => i - 1 \in 1..Len(t) /\ (i - 1) + k = (i + k) - 1
      BY <1>1, Shifted
    <3>2. QED
      BY <3>1, <1>1
  <2>5. ASSUME i < Len(t) PROVE i + k < Len(s) /\ t[i + 1] = s[(i + k) + 1]
    <3>1. i + 1 \in 1..Len(t) /\ (i + 1) + k = (i + k) + 1 /\ i + k < Len(s)
      BY <2>5, <1>1, Shifted
    <3>2. QED
      BY <3>1, <1>1
  <2>6. OkHead(s[i + k]) /\ i + k < Len(s) => s[(i + k) + 1].part = "body"
    BY <2>1 DEF WellFramed
  <2>7. QED
    <3>1. i > 1 \/ i = 1
      OBVIOUS
    <3>2. t[i].part = "body" => i > 1 /\ OkHead(t[i - 1])
      BY <2>1, <2>2, <2>3, <2>4, <3>1
    <3>3. OkHead(t[i]) /\ i < Len(t) => t[i + 1].part = "body"
      BY <2>1, <2>5, <2>6
    <3>4. QED
      BY <3>2, <3>3
<1>7. Rising(t)
  <2>1. ASSUME NEW i \in 1..Len(t), NEW j \in 1..Len(t), i < j, Honest(t[i]), Honest(t[j])
        PROVE  t[i].seq < t[j].seq
    <3>1. i + k < j + k
      BY <2>1, <1>1, <1>2
    <3>2. i + k \in 1..Len(s) /\ j + k \in 1..Len(s) /\ t[i] = s[i + k] /\ t[j] = s[j + k]
      BY <1>1
    <3>3. QED
      BY <2>1, <3>1, <3>2 DEF Rising
  <2>2. QED
    BY <2>1 DEF Rising
<1>8. ASSUME Honest(s[1]) PROVE Above(t, s[1].seq)
  <2>1. ASSUME NEW i \in 1..Len(t), Honest(t[i]) PROVE t[i].seq > s[1].seq
    <3>1. 1 < i + k /\ t[i] = s[i + k] /\ i + k \in 1..Len(s)
      BY <1>1, Shifted
    <3>2. s[1].seq < s[i + k].seq
      BY <1>2, <1>8, <2>1, <3>1 DEF Rising
    <3>3. s[1].seq \in Int /\ s[i + k].seq \in Int
      BY <1>2, <3>1, ChunkSeq
    <3>4. QED
      BY <3>1, <3>2, <3>3
  <2>2. QED
    BY <2>1 DEF Above
<1>9. \A n \in Int : UpTo(s, n) => UpTo(t, n)
  BY <1>1 DEF UpTo
<1>10. Open(t) <=> Open(s)
  <2>1. CASE Len(t) = 0
    <3>1. t = <<>> /\ Len(s) = k
      BY <1>1, <2>1
    <3>2. QED
      BY <1>5, <3>1 DEF Open
  <2>2. CASE Len(t) > 0
    <3>1. t # <<>> /\ 1 \in 1..Len(t)
      BY <1>1, <2>2
    <3>4. Len(t) \in 1..Len(t) /\ Len(t) + k = Len(s)
      BY <1>1, <3>1, Shifted
    <3>2. t[Len(t)] = s[Len(s)]
      BY <1>1, <3>4
    <3>3. QED
      BY <3>1, <3>2 DEF Open
  <2>3. QED
    BY <1>1, <2>1, <2>2
<1>11. QED
  BY <1>6, <1>7, <1>8, <1>9, <1>10 DEF WellFramed

\* Time changes the ages in the frames and nothing else.
SameFrames(s, t) ==
    /\ Len(t) = Len(s)
    /\ \A i \in 1..Len(s) : t[i].part = s[i].part /\ t[i].status = s[i].status
                             /\ t[i].seq = s[i].seq

LEMMA SameFramesKeep ==
    ASSUME NEW s \in Seq(Chunk), NEW t \in Seq(Chunk), SameFrames(s, t)
    PROVE  /\ WellFramed(s) => WellFramed(t)
           /\ Rising(s) => Rising(t)
           /\ \A n : (Above(s, n) => Above(t, n)) /\ (UpTo(s, n) => UpTo(t, n))
           /\ Open(t) <=> Open(s)
           /\ s = <<>> => t = <<>>
<1>1. Len(s) \in Nat /\ Len(t) = Len(s)
  BY DEF SameFrames
<1>2. \A i \in 1..Len(s) : /\ OkHead(t[i]) <=> OkHead(s[i])
                           /\ Honest(t[i]) <=> Honest(s[i])
                           /\ t[i].part = s[i].part /\ t[i].seq = s[i].seq
  BY DEF SameFrames, OkHead, Honest
<1>3. ASSUME WellFramed(s) PROVE WellFramed(t)
  <2>1. ASSUME NEW i \in 1..Len(s)
        PROVE  /\ t[i].part = "body" => i > 1 /\ OkHead(t[i - 1])
               /\ OkHead(t[i]) /\ i < Len(s) => t[i + 1].part = "body"
    <3>1. (i > 1 => i - 1 \in 1..Len(s)) /\ (i < Len(s) => i + 1 \in 1..Len(s))
      BY <1>1
    <3>2. /\ s[i].part = "body" => i > 1 /\ OkHead(s[i - 1])
          /\ OkHead(s[i]) /\ i < Len(s) => s[i + 1].part = "body"
      BY <1>3 DEF WellFramed
    <3>3. QED
      BY <1>2, <3>1, <3>2
  <2>2. QED
    BY <1>1, <2>1 DEF WellFramed
<1>4. Rising(s) => Rising(t)
  BY <1>1, <1>2 DEF Rising
<1>5. \A n : (Above(s, n) => Above(t, n)) /\ (UpTo(s, n) => UpTo(t, n))
  BY <1>1, <1>2 DEF Above, UpTo
<1>6. (Open(t) <=> Open(s)) /\ (s = <<>> => t = <<>>)
  <2>1. CASE Len(s) = 0
    BY <1>1, <2>1 DEF Open
  <2>2. CASE Len(s) > 0
    <3>1. Len(s) \in 1..Len(s) /\ s # <<>> /\ t # <<>>
      BY <1>1, <2>2
    <3>2. QED
      BY <1>1, <1>2, <3>1 DEF Open
  <2>3. QED
    BY <1>1, <2>1, <2>2
<1>7. QED
  BY <1>3, <1>4, <1>5, <1>6

LEMMA AgedSame ==
    ASSUME NEW a \in Seq(Chunk), NEW b \in Seq(Chunk)
    PROVE  SameFrames(a \o b, Aged(a) \o Aged(b))
<1>1. ASSUME NEW s \in Seq(Chunk)
      PROVE  Len(Aged(s)) = Len(s) /\ \A i \in 1..Len(s) :
               /\ Aged(s)[i].part = s[i].part /\ Aged(s)[i].status = s[i].status
               /\ Aged(s)[i].seq = s[i].seq
  <2>1. Len(s) \in Nat
    OBVIOUS
  <2>2. ASSUME NEW c \in Chunk, NEW n
        PROVE  LET d == [c EXCEPT !.age = n]
               IN d.part = c.part /\ d.status = c.status /\ d.seq = c.seq
    BY DEF Chunk
  <2>3. ASSUME NEW i \in 1..Len(s)
        PROVE  /\ Aged(s)[i].part = s[i].part /\ Aged(s)[i].status = s[i].status
               /\ Aged(s)[i].seq = s[i].seq
    <3>1. s[i] \in Chunk /\ Aged(s)[i] = [s[i] EXCEPT !.age = Older(s[i].age)]
      BY DEF Aged
    <3>2. QED
      BY <2>2, <3>1
  <2>4. QED
    BY <2>1, <2>3 DEF Aged
<1>2. Aged(a) \in Seq(Chunk) /\ Aged(b) \in Seq(Chunk)
  BY AgedType
<1>3. Len(Aged(a)) = Len(a) /\ Len(Aged(b)) = Len(b)
  BY <1>1
<1> DEFINE x == Aged(a)
           y == Aged(b)
<1>4. /\ \A i \in 1..Len(a) : x[i].part = a[i].part /\ x[i].status = a[i].status
                                /\ x[i].seq = a[i].seq
      /\ \A i \in 1..Len(b) : y[i].part = b[i].part /\ y[i].status = b[i].status
                                /\ y[i].seq = b[i].seq
  BY <1>1
<1>5. x \in Seq(Chunk) /\ y \in Seq(Chunk) /\ Len(x) = Len(a) /\ Len(y) = Len(b)
  BY <1>2, <1>3
<1> HIDE DEF x, y
<1>6. SameFrames(a \o b, x \o y)
  <2>1. Len(a) \in Nat /\ Len(b) \in Nat /\ Len(a \o b) = Len(a) + Len(b)
        /\ Len(x \o y) = Len(a) + Len(b)
    BY <1>5
  <2>2. ASSUME NEW i \in 1..(Len(a) + Len(b))
        PROVE  \/ i \in 1..Len(a) /\ (a \o b)[i] = a[i] /\ (x \o y)[i] = x[i]
               \/ /\ i - Len(a) \in 1..Len(b)
                  /\ (a \o b)[i] = b[i - Len(a)] /\ (x \o y)[i] = y[i - Len(a)]
    BY <1>5, <2>1
  <2>3. ASSUME NEW i \in 1..Len(a \o b)
        PROVE  /\ (x \o y)[i].part = (a \o b)[i].part
               /\ (x \o y)[i].status = (a \o b)[i].status
               /\ (x \o y)[i].seq = (a \o b)[i].seq
    <3>1. CASE i \in 1..Len(a) /\ (a \o b)[i] = a[i] /\ (x \o y)[i] = x[i]
      BY <1>4, <3>1
    <3>2. CASE i - Len(a) \in 1..Len(b) /\ (a \o b)[i] = b[i - Len(a)]
               /\ (x \o y)[i] = y[i - Len(a)]
      BY <1>4, <3>2
    <3>3. QED
      BY <2>1, <2>2, <3>1, <3>2
  <2>4. QED
    BY <2>1, <2>3 DEF SameFrames
<1>7. QED
  BY <1>6 DEF x, y

-----------------------------------------------------------------------------
(* Steps that write nothing and decode nothing: what has been written stays, *)
(* and the helper that is read goes on or dies.                            *)

LEMMA ContentType == ASSUME TypeOK PROVE Content \in Seq(Chunk)
BY DEF TypeOK, StreamOK, Content

\* How the phase of the helper that is read may change beside its writing.
GoesOn(was, is) ==
    /\ is = "writing" => was = "writing"
    /\ is \in {"exec", "init"} => was \in {"exec", "init"}
    /\ was \in {"writing", "zombie"} => is \in {was, "zombie"}

Drift ==
    /\ readFd' = readFd /\ UNCHANGED seqVars
    /\ SameFrames(Content, Content') /\ Content' \in Seq(Chunk)
    /\ pc' = "gone" => pc = "gone"
    /\ readFd # None => procs'[readFd].seq = procs[readFd].seq
                        /\ GoesOn(procs[readFd].phase, procs'[readFd].phase)

LEMMA DriftKeeps == ASSUME TypeOK, Stream, Drift PROVE Stream'
<1>1. CASE readFd = None
  BY <1>1 DEF Stream, Drift
<1>2. CASE readFd # None
  <2>1. Content \in Seq(Chunk) /\ Content' \in Seq(Chunk) /\ readFd' = readFd
    BY ContentType DEF Drift
  <2>2. /\ WellFramed(Content) => WellFramed(Content')
        /\ Rising(Content) => Rising(Content')
        /\ \A n : (Above(Content, n) => Above(Content', n))
                 /\ (UpTo(Content, n) => UpTo(Content', n))
        /\ Open(Content') <=> Open(Content)
        /\ Content = <<>> => Content' = <<>>
    BY <2>1, SameFramesKeep DEF Drift
  <2>3. WellFramed(Content') /\ Rising(Content')
    BY <1>2, <2>2 DEF Stream
  <2>4. hasSeq' => Above(Content', lastSeq')
    BY <1>2, <2>2 DEF Stream, Drift, seqVars
  <2> DEFINE was == procs[readFd].phase
             is  == procs'[readFd].phase
  <2>5. GoesOn(was, is) /\ procs'[readFd].seq = procs[readFd].seq
    BY <1>2 DEF Drift
  <2>6. /\ Open(Content') => is \in {"writing", "zombie"}
        /\ is = "writing" => Open(Content')
    BY <1>2, <2>2, <2>5 DEF Stream, GoesOn, Phase
  <2>7. is # "zombie" => /\ UpTo(Content', procs'[readFd].seq)
                         /\ hasSeq' => lastSeq' <= procs'[readFd].seq
    BY <1>2, <2>2, <2>5 DEF Stream, Drift, seqVars, GoesOn, Phase
  <2>8. is \in {"exec", "init"} => Content' = <<>> /\ ~hasSeq'
    BY <1>2, <2>2, <2>5 DEF Stream, Drift, seqVars, GoesOn, Phase
  <2>9. pc' = "gone" => readFd' = None
    BY <2>1 DEF Stream, Drift
  <2>10. QED
    BY <2>1, <2>3, <2>4, <2>6, <2>7, <2>8, <2>9 DEF Stream, Phase
<1>3. QED
  BY <1>1, <1>2

LEMMA SameFramesSelf == ASSUME NEW s PROVE SameFrames(s, s)
BY DEF SameFrames

\* Sending a signal does not touch phase or frame number.
LEMMA SignalGoesOn ==
    ASSUME TypeOK, readFd # None,
           procs' = procs \/ \E p \in Pids, sig \in {"TERM", "KILL"} : procs' = Signalled(p, sig)
    PROVE  procs'[readFd].seq = procs[readFd].seq
           /\ GoesOn(procs[readFd].phase, procs'[readFd].phase)
<1>1. readFd \in Pids /\ procs \in [Pids -> Proc] /\ procs[readFd] \in Proc
  BY DEF TypeOK, StreamOK, ProcsOK
<1>2. procs'[readFd].seq = procs[readFd].seq /\ procs'[readFd].phase = procs[readFd].phase
  BY <1>1 DEF Signalled, Proc
<1>3. QED
  BY <1>2 DEF GoesOn

LEMMA QuietDrift ==
    ASSUME TypeOK, UNCHANGED <<streamVars, seqVars>>, pc' = "gone" => pc = "gone",
           procs' = procs \/ \E p \in Pids, sig \in {"TERM", "KILL"} : procs' = Signalled(p, sig)
    PROVE  Drift
<1>1. Content' = Content /\ readFd' = readFd
  BY DEF streamVars, Content
<1>2. Content \in Seq(Chunk)
  BY ContentType
<1>3. QED
  BY <1>1, <1>2, SameFramesSelf, SignalGoesOn DEF Drift

\* With the pipe closed nothing can be read.
LEMMA ClosedKeeps == ASSUME readFd' = None PROVE Stream'
BY DEF Stream

LEMMA TerminationSignals ==
    ASSUME TypeOK, RequestTermination
    PROVE  procs' = procs \/ \E p \in Pids, sig \in {"TERM", "KILL"} : procs' = Signalled(p, sig)
BY DEF RequestTermination, kidVars, TypeOK, StreamOK

LEMMA TrySpawnStream ==
    ASSUME TypeOK, Supervised, Stream, NEW on \in BOOLEAN, NEW masked \in BOOLEAN,
           TrySpawn(on, masked), UNCHANGED lastSeq, pc' # "gone"
    PROVE  Stream'
<1>1. CASE \E p \in Pids : Spawned(p, masked)
  <2>1. PICK p \in Pids : Spawned(p, masked)
    BY <1>1
  <2>2. readFd' = p /\ Content' = <<>> /\ hasSeq' = FALSE /\ procs'[p] = NewProc(masked)
    BY <2>1 DEF Spawned, Content, TypeOK, ProcsOK
  <2>3. procs'[p].phase = "exec" /\ procs'[p].seq = 0
    BY <2>2 DEF NewProc, NoProc
  <2>4. WellFramed(<<>>) /\ Rising(<<>>) /\ ~Open(<<>>) /\ UpTo(<<>>, 0)
    BY DEF WellFramed, Rising, Open, UpTo
  <2>5. QED
    BY <2>2, <2>3, <2>4 DEF Stream, Phase
<1>2. CASE \E p \in Pids : SpawnUnreadable(p, masked)
  BY <1>2, ClosedKeeps DEF SpawnUnreadable, ClosePipe
<1>3. CASE UNCHANGED <<kidVars, streamVars, hasSeq>>
  <2>1. UNCHANGED <<streamVars, seqVars>> /\ procs' = procs
    BY <1>3 DEF kidVars, seqVars
  <2>2. QED
    BY <2>1, QuietDrift, DriftKeeps
<1>4. QED
  BY <1>1, <1>2, <1>3 DEF TrySpawn, SpawnFailed

-----------------------------------------------------------------------------
(* The helper writes.                                                      *)

\* A chunk is put behind what has been written.
LEMMA Written ==
    ASSUME TypeOK, NEW part \in {"head", "body"}, NEW status \in Status,
           NEW n \in 1..MaxSeq, Write(part, status, n), UNCHANGED input
    PROVE  \E c \in Chunk : /\ c.part = part /\ c.status = status /\ c.seq = n
                            /\ Content' = Append(Content, c)
<1> DEFINE c == [part |-> part, status |-> status, seq |-> n, age |-> 0]
<1>1. c \in Chunk /\ c.part = part /\ c.status = status /\ c.seq = n
  BY HelperAssumption DEF HelperAssumption, Chunk
<1>2. pipe' = Append(pipe, c)
  BY DEF Write
<1> HIDE DEF c
<1>3. input \o Append(pipe, c) = Append(input \o pipe, c)
  BY <1>1 DEF TypeOK, StreamOK
<1>4. Content' = Append(Content, c)
  BY <1>2, <1>3 DEF Content
<1>5. QED
  BY <1>1, <1>4

\* Beside the writes a helper changes its phase only, and as GoesOn says.
LEMMA BecomesDrift ==
    ASSUME TypeOK, NEW p \in Pids, NEW ph, Becomes(p, ph),
           UNCHANGED <<pipe, input, readFd, seqVars, pc>>,
           GoesOn(Phase(p), ph)
    PROVE  Drift
<1>1. Content' = Content /\ Content \in Seq(Chunk)
  BY ContentType DEF Content
<1>2. ASSUME readFd # None
      PROVE  procs'[readFd].seq = procs[readFd].seq
             /\ GoesOn(procs[readFd].phase, procs'[readFd].phase)
  <2>1. readFd \in Pids /\ procs \in [Pids -> Proc] /\ procs[readFd] \in Proc
    BY <1>2 DEF TypeOK, StreamOK, ProcsOK
  <2>2. CASE readFd = p
    BY <2>1, <2>2 DEF Becomes, Proc, Phase
  <2>3. CASE readFd # p
    BY <2>1, <2>3 DEF Becomes, GoesOn
  <2>4. QED
    BY <2>2, <2>3
<1>3. QED
  BY <1>1, <1>2, SameFramesSelf DEF Drift

LEMMA WriteHeaderStream ==
    ASSUME TypeOK, Stream, NEW p \in Pids, HelperWriteHeader(p),
           UNCHANGED <<input, readFd, seqVars, pc>>
    PROVE  Stream'
<1> DEFINE n == procs[p].seq + 1
<1>1. readFd = p /\ p # None /\ procs[p] \in Proc /\ procs[p].phase = "ready"
      /\ procs \in [Pids -> Proc]
  BY HelperAssumption DEF HelperAssumption, HelperWriteHeader, CanWrite, Phase, TypeOK, ProcsOK
<1>2. n \in 1..MaxSeq /\ n \in Int /\ procs[p].seq \in Int /\ n - 1 = procs[p].seq
  BY <1>1, HelperAssumption DEF HelperAssumption, HelperWriteHeader, Proc
<1>3. Write("head", "OK", n)
  BY DEF HelperWriteHeader
<1>4. procs'[p].phase = "writing" /\ procs'[p].seq = n
  BY <1>1 DEF HelperWriteHeader, Proc
<1> HIDE DEF n
<1>5. PICK c \in Chunk : /\ c.part = "head" /\ c.status = "OK" /\ c.seq = n
                         /\ Content' = Append(Content, c)
  BY <1>2, <1>3, Written DEF Status
<1>6. Honest(c) /\ OkHead(c) /\ c.part # "body"
  BY <1>5 DEF Honest, OkHead
<1>7. Content \in Seq(Chunk) /\ WellFramed(Content) /\ Rising(Content)
      /\ ~Open(Content) /\ UpTo(Content, procs[p].seq)
      /\ (hasSeq => Above(Content, lastSeq) /\ lastSeq <= procs[p].seq)
  BY <1>1, ContentType DEF Stream, Phase
<1>8. WellFramed(Content') /\ Rising(Content') /\ Open(Content')
  <2>1. WellFramed(Content')
    BY <1>5, <1>6, <1>7, AppendFramed
  <2>2. Rising(Content')
    BY <1>2, <1>5, <1>7, AppendRising
  <2>3. Open(Content')
    BY <1>2, <1>5, <1>6, <1>7, AppendBounds
  <2>4. QED
    BY <2>1, <2>2, <2>3
<1>9. lastSeq \in Int
  BY HelperAssumption DEF HelperAssumption, TypeOK, CountsOK
<1>10. hasSeq' => Above(Content', lastSeq') /\ lastSeq' <= n
  <2>1. hasSeq => n > lastSeq
    BY <1>2, <1>7, <1>9
  <2>2. hasSeq => Above(Append(Content, c), lastSeq)
    BY <1>5, <1>7, <1>9, <2>1, AppendBounds
  <2>3. QED
    BY <1>5, <1>9, <1>2, <2>1, <2>2 DEF seqVars
<1>11. UpTo(Content', n)
  <2>1. UpTo(Content, n)
    <3>1. ASSUME NEW i \in 1..Len(Content), Honest(Content[i]) PROVE Content[i].seq <= n
      <4>1. Content[i].seq \in Int /\ Content[i].seq <= procs[p].seq
        BY <1>7, <3>1, ChunkSeq DEF UpTo
      <4>2. QED
        BY <1>2, <4>1
    <3>2. QED
      BY <3>1 DEF UpTo
  <2>2. QED
    BY <1>2, <1>5, <1>7, <2>1, AppendBounds
<1>12. readFd' = p /\ pc' = pc
  BY <1>1
<1>13. QED
  BY <1>1, <1>4, <1>8, <1>10, <1>11, <1>12 DEF Stream, Phase

LEMMA WriteRecordsStream ==
    ASSUME TypeOK, Stream, NEW p \in Pids, HelperWriteRecords(p),
           UNCHANGED <<input, readFd, seqVars, pc>>
    PROVE  Stream'
<1>1. readFd = p /\ p # None /\ procs[p] \in Proc /\ procs[p].phase = "writing"
      /\ procs \in [Pids -> Proc]
  BY HelperAssumption DEF HelperAssumption, HelperWriteRecords, CanWrite, Phase, TypeOK, ProcsOK
<1>2. procs[p].seq \in 1..MaxSeq /\ procs[p].seq \in Int
  BY <1>1, HelperAssumption DEF HelperAssumption, HelperWriteRecords, Proc
<1>3. Write("body", "OK", procs[p].seq)
  BY DEF HelperWriteRecords
<1>4. procs'[p].phase = "asleep" /\ procs'[p].seq = procs[p].seq
  BY <1>1 DEF HelperWriteRecords, Becomes, Proc
<1>5. PICK c \in Chunk : /\ c.part = "body" /\ Content' = Append(Content, c)
  BY <1>2, <1>3, Written DEF Status
<1>6. ~Honest(c) /\ ~OkHead(c)
  BY <1>5 DEF Honest, OkHead
<1>7. Content \in Seq(Chunk) /\ WellFramed(Content) /\ Rising(Content)
      /\ Open(Content) /\ UpTo(Content, procs[p].seq)
      /\ (hasSeq => Above(Content, lastSeq) /\ lastSeq <= procs[p].seq)
  BY <1>1, ContentType DEF Stream, Phase
<1>8. WellFramed(Content') /\ Rising(Content') /\ ~Open(Content')
      /\ UpTo(Content', procs[p].seq)
  BY <1>2, <1>5, <1>6, <1>7, AppendFramed, AppendRising, AppendBounds
<1>9. lastSeq \in Int
  BY HelperAssumption DEF HelperAssumption, TypeOK, CountsOK
<1>10. hasSeq' => Above(Content', lastSeq') /\ lastSeq' <= procs[p].seq
  BY <1>5, <1>6, <1>7, <1>9, AppendBounds DEF seqVars
<1>11. readFd' = p /\ pc' = pc
  BY <1>1
<1>12. QED
  BY <1>1, <1>4, <1>8, <1>10, <1>11 DEF Stream, Phase

\* A refused frame, or the frame that says why there is no driver: a header without
\* records, after which no frame of this helper follows or the number stays.
LEMMA WriteGarbageStream ==
    ASSUME TypeOK, Stream, NEW p \in Pids, HelperWriteGarbage(p),
           UNCHANGED <<input, readFd, seqVars, pc>>
    PROVE  Stream'
<1>1. readFd = p /\ p # None /\ procs[p] \in Proc /\ procs[p].phase = "ready"
      /\ procs \in [Pids -> Proc]
  BY HelperAssumption DEF HelperAssumption, HelperWriteGarbage, CanWrite, Phase, TypeOK, ProcsOK
<1>2. 1 \in 1..MaxSeq /\ procs[p].seq \in Int
  BY <1>1, HelperAssumption DEF HelperAssumption, Proc
<1>3. Write("head", "GARBAGE", 1)
  BY DEF HelperWriteGarbage
<1>4. procs'[p].phase = "asleep" /\ procs'[p].seq = procs[p].seq
  BY <1>1 DEF HelperWriteGarbage, Becomes, Proc
<1>5. PICK c \in Chunk : /\ c.part = "head" /\ c.status = "GARBAGE"
                         /\ Content' = Append(Content, c)
  BY <1>2, <1>3, Written DEF Status
<1>6. ~Honest(c) /\ ~OkHead(c) /\ c.part # "body"
  BY <1>5 DEF Honest, OkHead
<1>7. Content \in Seq(Chunk) /\ WellFramed(Content) /\ Rising(Content)
      /\ ~Open(Content) /\ UpTo(Content, procs[p].seq)
      /\ (hasSeq => Above(Content, lastSeq) /\ lastSeq <= procs[p].seq)
  BY <1>1, ContentType DEF Stream, Phase
<1>8. WellFramed(Content') /\ Rising(Content') /\ ~Open(Content')
      /\ UpTo(Content', procs[p].seq)
  BY <1>2, <1>5, <1>6, <1>7, AppendFramed, AppendRising, AppendBounds
<1>9. lastSeq \in Int
  BY HelperAssumption DEF HelperAssumption, TypeOK, CountsOK
<1>10. hasSeq' => Above(Content', lastSeq') /\ lastSeq' <= procs[p].seq
  BY <1>5, <1>6, <1>7, <1>9, AppendBounds DEF seqVars
<1>11. readFd' = p /\ pc' = pc
  BY <1>1
<1>12. QED
  BY <1>1, <1>4, <1>8, <1>10, <1>11 DEF Stream, Phase

LEMMA InitFailsStream ==
    ASSUME TypeOK, Stream, NEW p \in Pids, HelperInitFails(p),
           UNCHANGED <<input, readFd, seqVars, pc>>
    PROVE  Stream'
<1>1. CASE CanWrite(p)
  <2>1. readFd = p /\ p # None /\ procs[p] \in Proc /\ procs[p].phase = "init"
        /\ procs \in [Pids -> Proc]
    BY <1>1, HelperAssumption DEF HelperAssumption, HelperInitFails, CanWrite, Phase, TypeOK,
                                  ProcsOK
  <2>2. Content = <<>> /\ ~hasSeq
    BY <2>1 DEF Stream, Phase
  <2>3. PICK st \in {"UNAVAILABLE", "ERROR"} : Write("head", st, 1)
    BY <1>1 DEF HelperInitFails
  <2>4. procs'[p].phase = "zombie"
    BY <2>1 DEF HelperInitFails, Becomes, Proc
  <2>5. st \in Status /\ 1 \in 1..MaxSeq
    BY HelperAssumption DEF HelperAssumption, Status
  <2>6. PICK c \in Chunk : c.part = "head" /\ Content' = Append(Content, c)
    BY <2>3, <2>5, Written
  <2>7. Content \in Seq(Chunk) /\ WellFramed(Content) /\ Rising(Content)
        /\ ~Open(Content) /\ UpTo(Content, c.seq - 1)
    BY <2>2, ContentType DEF WellFramed, Rising, Open, UpTo
  <2>8. WellFramed(Content') /\ Rising(Content')
    BY <2>6, <2>7, AppendFramed, AppendRising
  <2>9. readFd' = p /\ pc' = pc /\ ~hasSeq'
    BY <2>1, <2>2 DEF seqVars
  <2>10. QED
    BY <2>1, <2>4, <2>8, <2>9 DEF Stream, Phase
<1>2. CASE ~CanWrite(p)
  <2>1. Becomes(p, "zombie") /\ UNCHANGED pipe /\ GoesOn(Phase(p), "zombie")
    BY <1>2 DEF HelperInitFails, GoesOn
  <2>2. QED
    BY <2>1, BecomesDrift, DriftKeeps
<1>3. QED
  BY <1>1, <1>2

LEMMA HelperStream ==
    ASSUME TypeOK, Stream, NEW p \in Pids, Works(p) \/ Fails(p) \/ Dies(p) \/ InitReaps(p)
    PROVE  Stream'
<1>1. UNCHANGED <<input, readFd, seqVars, pc>>
  BY DEF Works, Fails, Dies, InitReaps, OfHelper
<1>2. CASE HelperWriteHeader(p) \/ HelperWriteRecords(p) \/ HelperWriteGarbage(p)
           \/ HelperInitFails(p)
  BY <1>1, <1>2, WriteHeaderStream, WriteRecordsStream, WriteGarbageStream, InitFailsStream
<1>3. ASSUME NEW ph \in {"init", "ready", "zombie", "hung", "stuck"},
             Becomes(p, ph), UNCHANGED pipe, GoesOn(Phase(p), ph)
      PROVE  Stream'
  BY <1>1, <1>3, BecomesDrift, DriftKeeps
<1>4. CASE HelperArm(p) \/ HelperInit(p) \/ HelperBrokenPipe(p)
  BY <1>3, <1>4 DEF HelperArm, HelperInit, HelperBrokenPipe, GoesOn
<1>5. CASE HelperHang(p) \/ HelperUnstick(p) \/ HelperCrash(p)
  BY <1>3, <1>5 DEF HelperHang, HelperUnstick, HelperCrash, GoesOn
<1>6. CASE SignalDies(p)
  BY <1>3, <1>6 DEF SignalDies, GoesOn
<1>7. CASE InitReaps(p)
  BY <1>1, <1>7 DEF InitReaps, OfHelper, Stream
<1>8. QED
  BY <1>2, <1>4, <1>5, <1>6, <1>7 DEF Works, Fails, Dies, OfHelper, HelperWorks, HelperFails

-----------------------------------------------------------------------------
(* The bridge reads.                                                       *)

\* The frame in front of the input is in front of all that has been written.
LEMMA Front ==
    ASSUME TypeOK, input # <<>>
    PROVE  Content # <<>> /\ Content[1] = Head(input) /\ Head(input) \in Chunk
<1>1. input \in Seq(Chunk) /\ pipe \in Seq(Chunk)
  BY DEF TypeOK, StreamOK
<1>2. Len(input) \in Nat /\ Len(input) > 0 /\ Len(pipe) \in Nat
      /\ Len(input \o pipe) = Len(input) + Len(pipe)
  BY <1>1
<1>3. (input \o pipe)[1] = input[1] /\ input \o pipe # <<>>
  BY <1>1, <1>2
<1>4. QED
  BY <1>1, <1>2, <1>3 DEF Content

\* Taking a frame off the input takes it off all that has been written.
LEMMA Taken ==
    ASSUME TypeOK, NEW k \in {1, 2}, k <= Len(input),
           input' = SubSeq(input, k + 1, Len(input)), pipe' = pipe
    PROVE  Content' \in Seq(Chunk) /\ Without(Content, Content', k)
<1> DEFINE s == input
           u == SubSeq(input, k + 1, Len(input))
           v == pipe
<1>1. s \in Seq(Chunk) /\ v \in Seq(Chunk) /\ k \in Nat /\ k <= Len(s)
  BY DEF TypeOK, StreamOK
<1>2. u \in Seq(Chunk)
  <2>1. Len(s) \in Nat
    BY <1>1
  <2>2. \A i \in (k + 1)..Len(s) : s[i] \in Chunk
    BY <1>1, <2>1
  <2>3. QED
    BY <1>1, <2>1, <2>2
<1>3. Without(s, u, k)
  BY <1>1, <1>2, TailAt
<1>4. Content = s \o v /\ Content' = u \o v
  BY DEF Content
<1> HIDE DEF s, u, v
<1>5. Without(s \o v, u \o v, k)
  <2>1. Len(s) \in Nat /\ Len(u) \in Nat /\ Len(v) \in Nat /\ Len(u) = Len(s) - k
        /\ Len(s \o v) = Len(s) + Len(v) /\ Len(u \o v) = Len(u) + Len(v)
    <3>1. Len(u) = Len(s) - k
      BY <1>3 DEF Without
    <3>2. Len(s) \in Nat /\ Len(u) \in Nat /\ Len(v) \in Nat
      BY <1>1, <1>2
    <3>3. Len(s \o v) = Len(s) + Len(v)
      BY <1>1
    <3>4. Len(u \o v) = Len(u) + Len(v)
      BY <1>1, <1>2
    <3>5. QED
      BY <3>1, <3>2, <3>3, <3>4
  <2>2. ASSUME NEW i \in 1..Len(u \o v)
        PROVE  (u \o v)[i] = (s \o v)[i + k] /\ i + k \in 1..Len(s \o v)
    <3>1. i \in Int /\ i + k \in 1..Len(s \o v)
      BY <2>1
    <3>2. CASE i <= Len(u)
      <4>1. i \in 1..Len(u) /\ i + k \in 1..Len(s)
        BY <2>1, <3>1, <3>2
      <4>2. (u \o v)[i] = u[i] /\ (s \o v)[i + k] = s[i + k]
        BY <1>1, <1>2, <4>1
      <4>3. QED
        BY <1>3, <3>1, <4>1, <4>2 DEF Without
    <3>3. CASE i > Len(u)
      <4>1. i - Len(u) \in 1..Len(v) /\ (i + k) - Len(s) = i - Len(u) /\ i + k > Len(s)
        BY <2>1, <3>1, <3>3
      <4>2. (u \o v)[i] = v[i - Len(u)]
        BY <1>1, <1>2, <2>1, <3>1, <3>3, ConcatProperties, SMTT(30)
      <4>3. (s \o v)[i + k] = v[(i + k) - Len(s)]
        BY <1>1, <2>1, <3>1, <4>1, ConcatProperties
      <4>4. QED
        BY <3>1, <4>1, <4>2, <4>3
    <3>4. i <= Len(u) \/ i > Len(u)
      BY <2>1, <3>1
    <3>5. QED
      BY <3>1, <3>2, <3>3, <3>4, Zenon
  <2>3. Len(u \o v) = Len(s \o v) - k
    BY <2>1
  <2>4. QED
    BY <2>2, <2>3 DEF Without
<1>6. u \o v \in Seq(Chunk)
  BY <1>1, <1>2
<1>7. QED
  BY <1>4, <1>5, <1>6

LEMMA DecodeStream ==
    ASSUME TypeOK, Supervised, Stream, DecodeFrame PROVE Stream'
<1> DEFINE c == Head(input)
           k == FrameLen(c)
<1>1. readFd # None /\ input # <<>> /\ k <= Len(input) /\ pc' = pc /\ pc = "read"
      /\ UNCHANGED <<readFd, pipe, procs>>
  BY DEF Supervised, PipeHeld, DecodeFrame, WantsFrame, FrontComplete, kidVars
<1>2. Content # <<>> /\ Content[1] = c /\ c \in Chunk /\ c.status # "GARBAGE"
  BY <1>1, Front DEF DecodeFrame, Accepted
<1>3. k \in {1, 2}
  BY DEF FrameLen
<1>4. lastSeq' = c.seq /\ hasSeq' = TRUE /\ input' = SubSeq(input, k + 1, Len(input))
  BY DEF DecodeFrame
<1>5. Content' \in Seq(Chunk) /\ Without(Content, Content', k) /\ k <= Len(Content)
  <2>1. Content' \in Seq(Chunk) /\ Without(Content, Content', k)
    BY <1>1, <1>3, <1>4, Taken
  <2>2. Len(input) \in Nat /\ Len(pipe) \in Nat /\ Len(Content) = Len(input) + Len(pipe)
    BY DEF TypeOK, StreamOK, Content
  <2>3. QED
    BY <1>1, <1>3, <2>1, <2>2
<1>6. Content \in Seq(Chunk)
  BY ContentType
<1>7. WellFramed(Content) /\ Rising(Content)
  BY <1>1 DEF Stream
<1> HIDE DEF c
<1>8. Honest(c)
  BY <1>2, <1>6, <1>7, FrontIsHead DEF Honest
<1>9. k = FrameLen(Content[1])
  BY <1>2
<1> HIDE DEF k
<1>10. /\ WellFramed(Content') /\ Rising(Content')
       /\ Above(Content', c.seq)
       /\ \A n \in Int : UpTo(Content, n) => UpTo(Content', n)
       /\ Open(Content') <=> Open(Content)
  BY <1>2, <1>3, <1>5, <1>6, <1>7, <1>8, <1>9, TailFramed
<1>11. procs[readFd].seq \in Int
  BY <1>1, HelperAssumption DEF HelperAssumption, TypeOK, StreamOK, ProcsOK, Proc
<1>12. UpTo(Content, procs[readFd].seq)
         => UpTo(Content', procs[readFd].seq) /\ c.seq <= procs[readFd].seq
  <2>1. 1 \in 1..Len(Content)
    BY <1>2, <1>6
  <2>2. UpTo(Content, procs[readFd].seq) => c.seq <= procs[readFd].seq
    BY <1>2, <1>8, <2>1 DEF UpTo
  <2>3. QED
    BY <1>10, <1>11, <2>2
<1>13. readFd' = readFd /\ procs' = procs /\ lastSeq' = c.seq
  BY <1>1, <1>4
<1>14. Phase(readFd) \notin {"exec", "init"}
  BY <1>1, <1>2 DEF Stream
<1>15. /\ Open(Content') => Phase(readFd) \in {"writing", "zombie"}
       /\ Phase(readFd) = "writing" => Open(Content')
       /\ Phase(readFd) # "zombie" => UpTo(Content', procs[readFd].seq)
                                      /\ c.seq <= procs[readFd].seq
  BY <1>1, <1>10, <1>12 DEF Stream
<1>16. pc' # "gone"
  BY <1>1
<1>17. QED
  BY <1>10, <1>13, <1>14, <1>15, <1>16 DEF Stream, Phase

LEMMA ReadMoreStream == ASSUME TypeOK, Stream, ReadMore PROVE Stream'
<1>1. Content' = Content
  BY DEF ReadMore, Content, TypeOK, StreamOK
<1>2. UNCHANGED <<readFd, seqVars, pc, procs>>
  BY DEF ReadMore, kidVars
<1>3. readFd # None => GoesOn(procs[readFd].phase, procs'[readFd].phase)
                       /\ procs'[readFd].seq = procs[readFd].seq
  BY <1>2 DEF GoesOn
<1>4. Drift
  BY <1>1, <1>2, <1>3, ContentType, SameFramesSelf DEF Drift
<1>5. QED
  BY <1>4, DriftKeeps

\* The other steps of the controller close the pipe or leave it alone.
LEMMA ControllerStream ==
    ASSUME TypeOK, Stream,
           PollBegin \/ ReadEnds \/ PollReap \/ PollTimeouts \/ UserOp \/ ShutdownBegin
             \/ Shutdown \/ ProcessEnds
    PROVE  Stream'
<1> DEFINE Signals == procs' = procs
                        \/ \E p \in Pids, sig \in {"TERM", "KILL"} : procs' = Signalled(p, sig)
<1>1. ASSUME UNCHANGED <<streamVars, seqVars>>, pc' = "gone" => pc = "gone", Signals
      PROVE  Stream'
  BY <1>1, QuietDrift, DriftKeeps
<1>2. CutOff \/ ClosePipe \/ Reap => Stream'
  BY ClosedKeeps DEF CutOff, ClosePipe, Reap
<1>3. CASE PollBegin
  <2>1. CASE UNCHANGED <<kidVars, streamVars>>
    BY <1>1, <1>3, <2>1 DEF PollBegin, kidVars
  <2>2. QED
    BY <1>2, <1>3, <2>1 DEF PollBegin
<1>4. CASE ReadEnds
  <2>1. CASE ReadDone
    BY <1>1, <1>4, <2>1 DEF ReadEnds, ReadDone, kidVars
  <2>2. QED
    BY <1>2, <1>4, <2>1 DEF ReadEnds, ReadEof, ReadFails
<1>5. CASE PollReap
  BY <1>1, <1>2, <1>5 DEF PollReap, kidVars
<1>6. CASE PollTimeouts
  <2>1. CASE ClosePipe
    BY <1>2, <2>1
  <2>2. CASE UNCHANGED streamVars
    <3>1. Signals
      BY <1>6, TerminationSignals DEF PollTimeouts, kidVars, TypeOK, StreamOK
    <3>2. QED
      BY <1>1, <1>6, <2>2, <3>1 DEF PollTimeouts
  <2>3. QED
    BY <1>6, <2>1, <2>2 DEF PollTimeouts
<1>7. CASE UserOp
  BY <1>1, <1>7 DEF UserOp, kidVars
<1>8. CASE ShutdownBegin \/ ShutdownReap
  BY <1>2, <1>8 DEF ShutdownBegin, ShutdownReap
<1>9. CASE ShutdownKill
  BY <1>1, <1>9 DEF ShutdownKill, TypeOK, StreamOK
<1>10. CASE ShutdownEnd
  BY <1>1, <1>10 DEF ShutdownEnd, kidVars
<1>11. CASE ProcessEnds
  BY <1>2, <1>11 DEF ProcessEnds
<1>12. QED
  BY <1>3, <1>4, <1>5, <1>6, <1>7, <1>8, <1>9, <1>10, <1>11 DEF Shutdown

LEMMA TickStream == ASSUME TypeOK, Stream, Tick PROVE Stream'
<1>1. input \in Seq(Chunk) /\ pipe \in Seq(Chunk)
  BY DEF TypeOK, StreamOK
<1>2. SameFrames(Content, Content') /\ Content' \in Seq(Chunk)
  BY <1>1, AgedSame, AgedType DEF Tick, Content
<1>3. ASSUME readFd # None
      PROVE  procs'[readFd].seq = procs[readFd].seq
             /\ GoesOn(procs[readFd].phase, procs'[readFd].phase)
  <2>1. readFd \in Pids /\ procs[readFd] \in Proc
    BY <1>3 DEF TypeOK, StreamOK, ProcsOK
  <2>2. QED
    BY <2>1 DEF Tick, Woken, Phase, Proc, GoesOn
<1>4. Drift
  BY <1>2, <1>3 DEF Tick, Drift
<1>5. QED
  BY <1>4, DriftKeeps

LEMMA StreamInit == Init => Stream
BY DEF Init, Stream

LEMMA StreamStep == TypeOK /\ Supervised /\ Stream /\ [Next]_vars => Stream'
<1>1. SUFFICES ASSUME TypeOK, Supervised, Stream, [Next]_vars PROVE Stream'
  OBVIOUS
<1>2. CASE Start
  <2>1. TrySpawn(cfgEnabled, FALSE) /\ UNCHANGED lastSeq /\ pc' # "gone"
    BY <1>2 DEF Start
  <2>2. QED
    BY <1>1, <2>1, TrySpawnStream DEF TypeOK, FlagsOK
<1>3. CASE PollSpawn \/ PollFinish
  <2>1. TrySpawn(enabled, TRUE) /\ UNCHANGED lastSeq /\ pc' # "gone"
    BY <1>3 DEF PollSpawn, PollFinish
  <2>2. QED
    BY <1>1, <2>1, TrySpawnStream DEF TypeOK, FlagsOK
<1>4. CASE DecodeFrame \/ ReadMore
  BY <1>1, <1>4, DecodeStream, ReadMoreStream
<1>5. CASE PollBegin \/ ReadEnds \/ PollReap \/ PollTimeouts \/ UserOp \/ ShutdownBegin
             \/ Shutdown \/ ProcessEnds
  BY <1>1, <1>5, ControllerStream
<1>6. CASE Tick
  BY <1>1, <1>6, TickStream
<1>7. CASE \E p \in Pids : Works(p) \/ Fails(p) \/ Dies(p) \/ InitReaps(p)
  BY <1>1, <1>7, HelperStream
<1>8. CASE UNCHANGED vars
  <2>1. UNCHANGED <<streamVars, seqVars, pc, procs>>
    BY <1>8 DEF vars, kidVars
  <2>2. QED
    BY <1>1, <2>1, QuietDrift, DriftKeeps
<1>9. QED
  BY <1>1, <1>2, <1>3, <1>4, <1>5, <1>6, <1>7, <1>8 DEF Next, Poll
-----------------------------------------------------------------------------
(* What poll() says of the helpers. No decoded sample is younger than the  *)
(* last one taken, nor is one on its way; and what is kept about the child *)
(* is true of it.                                                          *)

TakenBefore(s) == \A i \in 1..Len(s) : OkHead(s[i]) => sampled <= s[i].age
SamplesTaken == (hasSample => sampled <= sampleAge) /\ TakenBefore(input) /\ TakenBefore(pipe)

Accounted ==
    /\ helperStatus = "OK" => hasSample
    /\ pid # None /\ pc # "gone" => Phase(pid) # "absent"
    /\ termSent /\ pc # "gone" => procs[pid].sigs # {}
    /\ pc \in {"reapAgain", "finish"} /\ ~enabled /\ pid # None => termSent

LEMMA AgesAreInts ==
    ASSUME TypeOK
    PROVE  /\ sampled \in Int /\ sampleAge \in Int /\ 0 <= sampleAge
           /\ \A i \in 1..Len(input) : input[i].age \in Int /\ 0 <= input[i].age
           /\ \A i \in 1..Len(pipe) : pipe[i].age \in Int /\ 0 <= pipe[i].age
<1>1. \A c \in Chunk : c.age \in Int /\ 0 <= c.age
  BY HelperAssumption DEF HelperAssumption, Chunk
<1>2. input \in Seq(Chunk) /\ pipe \in Seq(Chunk)
  BY DEF TypeOK, StreamOK
<1>3. sampled \in Int /\ sampleAge \in Int /\ 0 <= sampleAge
  BY HelperAssumption DEF HelperAssumption, TypeOK, CountsOK
<1>4. QED
  BY <1>1, <1>2, <1>3

LEMMA DecodeTaken ==
    ASSUME TypeOK, Supervised, Stream, SamplesTaken, DecodeFrame PROVE SamplesTaken'
<1> DEFINE c == Head(input)
           k == FrameLen(c)
<1>1. /\ readFd # None /\ input # <<>> /\ k \in {1, 2} /\ k <= Len(input)
      /\ input' = SubSeq(input, k + 1, Len(input)) /\ UNCHANGED <<pipe, sampled>>
  BY DEF Supervised, PipeHeld, DecodeFrame, WantsFrame, FrontComplete, FrameLen, timeVars
<1>2. c = input[1] /\ 1 \in 1..Len(input) /\ c.part = "head"
  <2>1. Content # <<>> /\ Content[1] = c
    BY <1>1, Front
  <2>2. Content[1].part = "head"
    BY <1>1, <2>1, ContentType, FrontIsHead DEF Stream
  <2> QED
    BY <1>1, <2>1, <2>2 DEF TypeOK, StreamOK
<1>3. hasSample' => sampled' <= sampleAge'
  <2>1. CASE c.status = "OK"
    <3>1. sampleAge' = c.age /\ sampled <= c.age
      BY <1>2, <2>1 DEF DecodeFrame, SampledAgo, SamplesTaken, TakenBefore, OkHead
    <3> QED
      BY <1>1, <3>1
  <2>2. CASE c.status # "OK"
    BY <1>1, <2>2 DEF DecodeFrame, sampleVars, SamplesTaken
  <2> QED
    BY <2>1, <2>2
<1>4. TakenBefore(input)'
  <2> DEFINE s == input
             u == SubSeq(input, k + 1, Len(input))
  <2>1. s \in Seq(Chunk) /\ Len(s) \in Nat /\ k \in Nat /\ k <= Len(s)
    BY <1>1 DEF TypeOK, StreamOK
  <2>2. TakenBefore(s)
    BY DEF SamplesTaken
  <2>3. input' = u /\ u \in Seq(Chunk)
    BY <1>1, DecodeFrameType DEF TypeOK, StreamOK
  <2> HIDE DEF s, k
  <2>4. Without(s, u, k)
    BY <2>1, <2>3, TailAt DEF s
  <2> HIDE DEF u
  <2> QED
    BY <1>1, <2>2, <2>3, <2>4 DEF Without, TakenBefore
<1> QED
  BY <1>1, <1>3, <1>4 DEF SamplesTaken, TakenBefore

LEMMA ReadMoreTaken ==
    ASSUME TypeOK, SamplesTaken, ReadMore PROVE SamplesTaken'
<1>1. input' = input \o pipe /\ pipe' = <<>> /\ UNCHANGED <<sampled, hasSample, sampleAge>>
  BY DEF ReadMore, timeVars, sampleVars
<1>2. input \in Seq(Chunk) /\ pipe \in Seq(Chunk)
  BY DEF TypeOK, StreamOK
<1>3. ASSUME NEW i \in 1..Len(input \o pipe)
      PROVE  \/ i \in 1..Len(input) /\ (input \o pipe)[i] = input[i]
             \/ \E j \in 1..Len(pipe) : (input \o pipe)[i] = pipe[j]
  <2>1. Len(input) \in Nat /\ Len(pipe) \in Nat /\ Len(input \o pipe) = Len(input) + Len(pipe)
    BY <1>2
  <2>2. CASE i <= Len(input)
    BY <1>2, <2>1, <2>2
  <2>3. CASE i > Len(input)
    <3>1. i - Len(input) \in 1..Len(pipe) /\ (input \o pipe)[i] = pipe[i - Len(input)]
      BY <1>2, <1>3, <2>1, <2>3, ConcatProperties
    <3> QED
      BY <3>1
  <2> QED
    BY <1>3, <2>1, <2>2, <2>3
<1> QED
  BY <1>1, <1>3 DEF SamplesTaken, TakenBefore

LEMMA TickTaken == ASSUME TypeOK, SamplesTaken, Tick PROVE SamplesTaken'
<1>1. \A m, n \in Int : m <= n => Older(m) <= Older(n) \/ n > StaleAfter + 1
  BY HelperAssumption DEF HelperAssumption, Older
<1>2. ASSUME NEW s \in Seq(Chunk), TakenBefore(s)
      PROVE  \A i \in 1..Len(Aged(s)) : OkHead(Aged(s)[i]) => Older(sampled) <= Aged(s)[i].age
  <2>1. SUFFICES ASSUME NEW i \in 1..Len(Aged(s)), OkHead(Aged(s)[i])
                 PROVE  Older(sampled) <= Aged(s)[i].age
    OBVIOUS
  <2>2. Len(Aged(s)) = Len(s) /\ Aged(s)[i] = [s[i] EXCEPT !.age = Older(@)] /\ s[i] \in Chunk
    BY <1>2 DEF Aged
  <2>3. Aged(s)[i].age = Older(s[i].age) /\ OkHead(s[i]) /\ s[i].age \in 0..(StaleAfter + 1)
    BY <2>1, <2>2 DEF Chunk, OkHead
  <2>4. sampled <= s[i].age /\ sampled \in Int
    BY <1>2, <2>1, <2>2, <2>3, AgesAreInts DEF TakenBefore
  <2> QED
    BY <1>1, <2>3, <2>4, HelperAssumption DEF HelperAssumption
<1>3. hasSample' => sampled' <= sampleAge'
  BY <1>1, AgesAreInts, HelperAssumption DEF HelperAssumption, Tick, SamplesTaken, TypeOK, CountsOK
<1>4. input \in Seq(Chunk) /\ pipe \in Seq(Chunk) /\ input' = Aged(input) /\ pipe' = Aged(pipe)
      /\ sampled' = Older(sampled)
  BY DEF TypeOK, StreamOK, Tick
<1>5. TakenBefore(input)' /\ TakenBefore(pipe)'
  BY <1>2, <1>4 DEF SamplesTaken, TakenBefore
<1> QED
  BY <1>3, <1>5 DEF SamplesTaken

\* A helper stamps the header that it writes: nothing else makes the last sample younger.
LEMMA HelperTaken ==
    ASSUME TypeOK, SamplesTaken,
           NEW p \in Pids, Works(p) \/ Fails(p) \/ Dies(p) \/ InitReaps(p)
    PROVE  SamplesTaken'
<1> DEFINE W(part, status, n) == [part |-> part, status |-> status, seq |-> n, age |-> 0]
<1>1. UNCHANGED <<input, hasSample, sampleAge>> /\ sampled' = IF Stamps THEN 0 ELSE sampled
  BY DEF Works, Fails, Dies, InitReaps, OfHelper, sampleVars
<1>2. sampled' <= sampled /\ sampled' \in Int
  BY <1>1, HelperAssumption DEF HelperAssumption, TypeOK, CountsOK
<1>3. ASSUME NEW c, pipe' = Append(pipe, c), OkHead(c) => sampled' <= c.age
      PROVE  TakenBefore(pipe)'
  <2>1. pipe \in Seq(Chunk) /\ Len(pipe) \in Nat
    BY DEF TypeOK, StreamOK
  <2>2. ASSUME NEW i \in 1..Len(pipe') PROVE OkHead(pipe'[i]) => sampled' <= pipe'[i].age
    <3>1. CASE i = Len(pipe) + 1
      BY <1>3, <2>1, <3>1
    <3>2. CASE i \in 1..Len(pipe)
      BY <1>2, <1>3, <2>1, <3>2, AgesAreInts DEF SamplesTaken, TakenBefore
    <3> QED
      BY <1>3, <2>1, <2>2, <3>1, <3>2
  <2> QED
    BY <2>2 DEF TakenBefore
<1>4. UNCHANGED pipe => TakenBefore(pipe)'
  BY <1>2, AgesAreInts DEF SamplesTaken, TakenBefore
<1>5. ASSUME HelperWriteHeader(p) PROVE TakenBefore(pipe)'
  <2>1. Stamps
    BY <1>5 DEF HelperWriteHeader, Stamps, TypeOK, ProcsOK, Proc
  <2>2. \E n : pipe' = Append(pipe, W("head", "OK", n))
    BY <1>5 DEF HelperWriteHeader, Write
  <2> QED
    BY <1>1, <1>3, <2>1, <2>2
<1>6. ASSUME HelperWriteRecords(p) PROVE TakenBefore(pipe)'
  BY <1>3, <1>6 DEF HelperWriteRecords, Write, OkHead
<1>7. ASSUME HelperWriteGarbage(p) PROVE TakenBefore(pipe)'
  BY <1>3, <1>7 DEF HelperWriteGarbage, Write, OkHead
<1>8. ASSUME HelperInitFails(p) PROVE TakenBefore(pipe)'
  BY <1>3, <1>4, <1>8 DEF HelperInitFails, Write, OkHead
<1>9. TakenBefore(pipe)'
  BY <1>4, <1>5, <1>6, <1>7, <1>8
     DEF Works, Fails, Dies, InitReaps, OfHelper, HelperWorks, HelperFails, HelperArm, HelperInit,
         HelperBrokenPipe, HelperHang, HelperUnstick, HelperCrash, SignalDies
<1>10. TakenBefore(input)' /\ (hasSample' => sampled' <= sampleAge')
  BY <1>1, <1>2, AgesAreInts DEF SamplesTaken, TakenBefore
<1> QED
  BY <1>9, <1>10 DEF SamplesTaken

LEMMA SamplesTakenStep ==
    ASSUME TypeOK, Supervised, Stream, SamplesTaken, [Next]_vars PROVE SamplesTaken'
<1>1. ASSUME UNCHANGED <<sampled, sampleVars>>, UNCHANGED <<input, pipe>> \/ ClosePipe
      PROVE  SamplesTaken'
  BY <1>1 DEF SamplesTaken, TakenBefore, ClosePipe, sampleVars
<1>2. ASSUME NEW on, NEW masked, TrySpawn(on, masked)
      PROVE  UNCHANGED <<input, pipe>> \/ ClosePipe \/ (input' = <<>> /\ pipe' = <<>>)
  BY <1>2 DEF TrySpawn, Spawned, SpawnUnreadable, SpawnFailed, streamVars
<1>3. ASSUME UNCHANGED <<sampled, sampleVars>>, input' = <<>>, pipe' = <<>>
      PROVE  SamplesTaken'
  BY <1>3 DEF SamplesTaken, TakenBefore, sampleVars
<1>4. CASE Start \/ PollSpawn \/ PollFinish
  BY <1>1, <1>2, <1>3, <1>4 DEF Start, PollSpawn, PollFinish, timeVars
<1>5. CASE PollBegin \/ ReadEnds \/ PollReap \/ PollTimeouts
  BY <1>1, <1>5 DEF PollBegin, ReadEnds, ReadDone, ReadEof, ReadFails, PollReap, PollTimeouts,
                    CutOff, Reap, streamVars, timeVars
<1>6. CASE UserOp \/ ShutdownBegin \/ Shutdown \/ ProcessEnds
  BY <1>1, <1>6 DEF UserOp, ShutdownBegin, Shutdown, ShutdownReap, ShutdownKill, ShutdownEnd,
                    ProcessEnds, CutOff, Reap, streamVars, timeVars
<1>7. CASE UNCHANGED vars
  BY <1>1, <1>7 DEF vars, streamVars, timeVars
<1> QED
  BY <1>4, <1>5, <1>6, <1>7, DecodeTaken, ReadMoreTaken, TickTaken, HelperTaken DEF Next, Poll

LEMMA TerminationAccounted ==
    ASSUME TypeOK, RequestTermination, UNCHANGED pid
    PROVE  /\ Same /\ Quiet
           /\ termSent' => termSent \/ procs'[pid].sigs # {}
           /\ pid # None => termSent'
<1>1. CASE pid # None /\ ~termSent
  <2>1. "TERM" \in procs'[pid].sigs
    BY <1>1, SignalIsQuiet DEF RequestTermination, TypeOK, StreamOK
  <2> QED
    BY <1>1, <2>1, TerminationIsSame, TerminationIsQuiet DEF RequestTermination
<1>2. CASE ~(pid # None /\ ~termSent)
  BY <1>2, TerminationIsSame, TerminationIsQuiet DEF RequestTermination, kidVars
<1> QED
  BY <1>1, <1>2

\* A step that keeps the child.
LEMMA KeepsAccounted ==
    ASSUME TypeOK, Supervised, Accounted, Same, Quiet, UNCHANGED pid,
           pc = "gone" => pc' = "gone",
           helperStatus' = "OK" => hasSample',
           pc' # "gone" /\ termSent' => termSent \/ procs'[pid].sigs # {},
           pc' \in {"reapAgain", "finish"} /\ ~enabled' /\ pid # None => termSent'
    PROVE  Accounted'
<1>1. pid \in Pids \cup {None} /\ (termSent => pid # None)
  BY DEF TypeOK, StreamOK, Supervised, CutOffIsFinal
<1>2. pid' # None /\ pc' # "gone" => Phase(pid)' # "absent"
  BY <1>1 DEF Same, Accounted, Phase
<1>3. termSent' /\ pc' # "gone" => procs'[pid].sigs # {}
  BY <1>1 DEF Quiet, Accounted
<1> QED
  BY <1>2, <1>3 DEF Accounted

\* A step after which there is no child.
LEMMA NobodyAccounted ==
    ASSUME pid' = None, ~termSent', helperStatus' = "OK" => hasSample' PROVE Accounted'
BY DEF Accounted

LEMMA TrySpawnAccounted ==
    ASSUME TypeOK, Supervised, Accounted, NEW on, NEW masked, TrySpawn(on, masked),
           UNCHANGED hasSample, pc # "gone", pc' \notin {"reapAgain", "finish"}
    PROVE  Accounted'
<1>1. ASSUME NEW p \in Pids, Phase(p) = "absent", Spawned(p, masked) PROVE Accounted'
  BY <1>1 DEF Spawned, NewProc, NoProc, Accounted, Phase, TypeOK, ProcsOK
<1>2. ASSUME NEW p \in Pids, Phase(p) = "absent", SpawnUnreadable(p, masked) PROVE Accounted'
  BY <1>2 DEF SpawnUnreadable, NewProc, NoProc, Accounted, Phase, TypeOK, ProcsOK
<1>3. CASE UNCHANGED <<pid, kidVars>> /\ (helperStatus' = "OK" => helperStatus = "OK")
  BY <1>3 DEF Accounted, Phase, kidVars
<1> QED
  BY <1>1, <1>2, <1>3 DEF TrySpawn, SpawnFailed

LEMMA AccountedStep ==
    ASSUME TypeOK, Supervised, Accounted, [Next]_vars PROVE Accounted'
<1>0. helperStatus = "OK" => hasSample
  BY DEF Accounted
<1>1. CASE Start \/ PollSpawn \/ PollFinish
  BY <1>1, TrySpawnAccounted DEF Start, PollSpawn, PollFinish, sampleVars
<1>2. CASE PollBegin
  <2>1. UNCHANGED <<pid, helperStatus, hasSample>> /\ pc = "idle" /\ pc' \in {"spawn", "reap"}
    BY <1>2 DEF PollBegin, viewVars, sampleVars
  <2>2. CASE RequestTermination
    BY <1>0, <2>1, <2>2, TerminationAccounted, KeepsAccounted
  <2>3. CASE UNCHANGED kidVars
    BY <1>0, <2>1, <2>3, UnchangedIsSame, SameIsQuiet, KeepsAccounted DEF kidVars
  <2> QED
    BY <1>2, <2>2, <2>3 DEF PollBegin, CutOff
<1>3. CASE DecodeFrame \/ ReadMore
  <2>1. UNCHANGED <<pid, kidVars, pc>> /\ pc = "read"
    BY <1>3 DEF DecodeFrame, ReadMore, WantsFrame, WantsInput, ctlVars
  <2>2. helperStatus' = "OK" => hasSample'
    BY <1>0, <1>3 DEF DecodeFrame, ReadMore, viewVars, sampleVars
  <2> QED
    BY <2>1, <2>2, UnchangedIsSame, SameIsQuiet, KeepsAccounted DEF kidVars
<1>4. CASE ReadEnds
  <2>1. UNCHANGED <<pid, hasSample>> /\ pc = "read" /\ pc' = "reap"
        /\ (helperStatus' = "OK" => helperStatus = "OK")
    BY <1>4 DEF ReadEnds, ReadDone, ReadEof, ReadFails, WantsFrame, WantsInput, viewVars, sampleVars
  <2>2. CASE RequestTermination
    BY <1>0, <2>1, <2>2, TerminationAccounted, KeepsAccounted
  <2>3. CASE UNCHANGED kidVars
    BY <1>0, <2>1, <2>3, UnchangedIsSame, SameIsQuiet, KeepsAccounted DEF kidVars
  <2> QED
    BY <1>4, <2>2, <2>3 DEF ReadEnds, ReadDone, ReadEof, ReadFails, CutOff
<1>5. CASE PollReap \/ ShutdownReap
  <2>1. UNCHANGED <<hasSample, helperStatus>>
    BY <1>5 DEF PollReap, ShutdownReap, viewVars, sampleVars
  <2>2. CASE Reap
    BY <1>0, <2>1, <2>2, NobodyAccounted DEF Reap
  <2>3. CASE PollReap /\ UNCHANGED <<pid, kidVars>>
    <3>1. pc \in {"reap", "reapAgain"} /\ (pc' = "finish" => pc = "reapAgain")
          /\ pc' \in {"timeouts", "finish"} /\ UNCHANGED enabled
      BY <2>3 DEF PollReap, modeVars
    <3>2. pc' \in {"reapAgain", "finish"} /\ ~enabled' /\ pid # None => termSent'
      BY <2>3, <3>1 DEF Accounted, kidVars
    <3> QED
      BY <1>0, <2>1, <2>3, <3>1, <3>2, UnchangedIsSame, SameIsQuiet, KeepsAccounted DEF kidVars
  <2> QED
    BY <1>5, <2>2, <2>3 DEF PollReap, ShutdownReap
<1>6. CASE PollTimeouts
  <2>1. UNCHANGED <<pid, hasSample, helperStatus, enabled>> /\ pc = "timeouts" /\ pc' = "reapAgain"
    BY <1>6 DEF PollTimeouts, ctlVars, sampleVars, modeVars
  <2>2. CASE RequestTermination
    BY <1>0, <2>1, <2>2, TerminationAccounted, KeepsAccounted
  <2>3. CASE pid # None /\ termSent /\ procs' = Signalled(pid, "KILL") /\ UNCHANGED termSent
    <3>1. Same /\ Quiet
      BY <2>3, SignalIsSame, SignalIsQuiet DEF TypeOK, StreamOK
    <3> QED
      BY <1>0, <2>1, <2>3, <3>1, KeepsAccounted
  <2>4. CASE UNCHANGED kidVars /\ (pid = None \/ enabled)
    BY <1>0, <2>1, <2>4, UnchangedIsSame, SameIsQuiet, KeepsAccounted DEF kidVars
  <2> QED
    BY <1>6, <2>2, <2>3, <2>4 DEF PollTimeouts
<1>7. CASE UserOp \/ ShutdownEnd
  <2>1. UNCHANGED <<pid, kidVars, hasSample, helperStatus, enabled>>
    BY <1>7 DEF UserOp, ShutdownEnd, ctlVars, viewVars, sampleVars, modeVars
  <2>2. (pc' = pc \/ pc' = "down") /\ (pc = "gone" => pc' = "gone")
    BY <1>7 DEF UserOp, ShutdownEnd, WaitLabels
  <2>3. pc' \in {"reapAgain", "finish"} /\ ~enabled' /\ pid # None => termSent'
    BY <2>1, <2>2 DEF Accounted, kidVars
  <2> QED
    BY <1>0, <2>1, <2>2, <2>3, UnchangedIsSame, SameIsQuiet, KeepsAccounted DEF kidVars
<1>8. CASE ShutdownBegin
  <2>1. RequestTermination /\ UNCHANGED <<pid, hasSample, helperStatus>> /\ pc = "idle"
        /\ pc' = "termWait"
    BY <1>8 DEF ShutdownBegin, CutOff, ctlVars, viewVars, sampleVars
  <2> QED
    BY <1>0, <2>1, TerminationAccounted, KeepsAccounted
<1>9. CASE ShutdownKill
  <2>1. procs' = Signalled(pid, "KILL") /\ UNCHANGED <<pid, hasSample, helperStatus>>
        /\ pid # None /\ pc = "termWait" /\ pc' = "killWait"
    BY <1>9 DEF ShutdownKill, ctlVars, viewVars, sampleVars
  <2>2. Same /\ Quiet /\ procs'[pid].sigs # {}
    BY <2>1, SignalIsSame, SignalIsQuiet DEF TypeOK, StreamOK
  <2> QED
    BY <1>0, <2>1, <2>2, KeepsAccounted
<1>10. CASE ProcessEnds
  <2>1. UNCHANGED <<pid, hasSample, helperStatus, termSent, enabled>> /\ pc' = "gone"
    BY <1>10 DEF ProcessEnds, viewVars, sampleVars, modeVars
  <2> QED
    BY <1>0, <1>10, <2>1, TimeIsSame, TimeIsQuiet, KeepsAccounted
<1>11. CASE Tick
  <2>1. UNCHANGED <<pid, hasSample, helperStatus, termSent, enabled, pc>>
    BY <1>11 DEF Tick, viewVars, modeVars
  <2>2. pc' \in {"reapAgain", "finish"} /\ ~enabled' /\ pid # None => termSent'
    BY <2>1 DEF Accounted
  <2> QED
    BY <1>0, <1>11, <2>1, <2>2, TimeIsSame, TimeIsQuiet, KeepsAccounted
<1>12. ASSUME NEW p \in Pids, Works(p) \/ Fails(p) \/ Dies(p) \/ InitReaps(p)
       PROVE  Accounted'
  <2>1. UNCHANGED <<pid, hasSample, helperStatus, termSent, enabled, pc>>
    BY <1>12 DEF Works, Fails, Dies, InitReaps, OfHelper, viewVars, sampleVars, modeVars
  <2>2. pc' \in {"reapAgain", "finish"} /\ ~enabled' /\ pid # None => termSent'
    BY <2>1 DEF Accounted
  <2>3. CASE InitReaps(p)
    <3>1. pc = "gone"
      BY <2>3 DEF InitReaps, OfHelper
    <3> QED
      BY <2>1, <3>1 DEF Accounted
  <2> QED
    BY <1>0, <1>12, <2>1, <2>2, <2>3, HelperIsSame, HelperIsQuiet, KeepsAccounted
<1>13. CASE UNCHANGED vars
  BY <1>13 DEF vars, ctlVars, kidVars, viewVars, sampleVars, modeVars, Accounted, Phase
<1> QED
  BY <1>1, <1>2, <1>3, <1>4, <1>5, <1>6, <1>7, <1>8, <1>9, <1>10, <1>11, <1>12, <1>13
     DEF Next, Poll, Shutdown
-----------------------------------------------------------------------------
(* What the reader may rely on.                                            *)

\* Whatever a helper has written and the bridge has not decoded is a run of whole
\* frames, at most the last one begun, numbered upwards from the last one accepted:
\* across restarts, half frames, crashes between two writes, and refused frames.
THEOREM FramesInOrder == Spec => []Stream
<1>1. Init => Stream
  BY StreamInit
<1>2. TypeOK /\ Supervised /\ Stream /\ [Next]_vars => Stream'
  BY StreamStep
<1>3. QED
  BY <1>1, <1>2, Supervision, PTL DEF Spec

\* decode_frame() refuses no frame of a helper that writes no garbage: the pipe of an
\* honest helper fails only when a read() does.
THEOREM HonestHelperServed == Spec => HonestFramesAccepted
<1>1. TypeOK /\ Supervised /\ Stream /\ [Next]_vars
        => [pc = "read" /\ pc' = "reap" /\ helperStatus' = "ERROR" /\ helperStatus # "ERROR"
             => faults' > faults \/ \E i \in 1..Len(input) : input[i].status = "GARBAGE"]_vars
  <2>1. SUFFICES ASSUME TypeOK, Supervised, Stream, Next, pc = "read", pc' = "reap",
                        helperStatus' = "ERROR", helperStatus # "ERROR"
                 PROVE  faults' > faults \/ \E i \in 1..Len(input) : input[i].status = "GARBAGE"
    OBVIOUS
  <2>2. ReadEnds
    <3>1. ~(Start \/ UserOp \/ ShutdownBegin \/ Shutdown \/ ProcessEnds \/ Tick)
      BY <2>1 DEF Start, UserOp, ShutdownBegin, Shutdown, ShutdownReap, ShutdownKill,
                  ShutdownEnd, WaitLabels, ProcessEnds, Tick
    <3>2. ~\E p \in Pids : Works(p) \/ Fails(p) \/ Dies(p) \/ InitReaps(p)
      BY <2>1 DEF Works, Fails, Dies, InitReaps, OfHelper
    <3>3. ~(PollBegin \/ PollSpawn \/ DecodeFrame \/ ReadMore \/ PollReap \/ PollTimeouts
            \/ PollFinish)
      BY <2>1 DEF PollBegin, PollSpawn, DecodeFrame, ReadMore, PollReap, PollTimeouts, PollFinish
    <3>4. QED
      BY <2>1, <3>1, <3>2, <3>3 DEF Next, Poll
  <2>3. ReadFails
    BY <2>1, <2>2 DEF ReadEnds, ReadDone, ReadEof, viewVars
  <2>4. CASE Fault
    <3>1. faults \in Int /\ faults' = faults + 1
      BY <2>1, <2>4, HelperAssumption DEF HelperAssumption, Fault, TypeOK, CountsOK
    <3>2. faults' > faults
      BY <3>1
    <3>3. QED
      BY <3>2
  <2>5. CASE WantsFrame /\ ~Accepted(Head(input))
    <3>1. readFd # None /\ input # <<>>
      BY <2>1, <2>5 DEF Supervised, PipeHeld, WantsFrame, FrontComplete
    <3>2. Content # <<>> /\ Content[1] = Head(input) /\ Content \in Seq(Chunk)
      BY <3>1, <2>1, Front, ContentType
    <3>3. Content[1].part = "head" /\ 1 \in 1..Len(Content)
      BY <3>1, <3>2, <2>1, FrontIsHead DEF Stream
    <3>4. Content[1].status # "GARBAGE" => Accepted(Content[1])
      BY <3>1, <3>3, <2>1 DEF Stream, Above, Honest, Accepted
    <3>5. 1 \in 1..Len(input) /\ input[1] = Head(input)
      BY <3>1, <2>1 DEF TypeOK, StreamOK
    <3>6. QED
      BY <2>5, <3>2, <3>4, <3>5
  <2>6. QED
    BY <2>3, <2>4, <2>5 DEF ReadFails
<1>2. QED
  BY <1>1, Supervision, FramesInOrder, PTL DEF Spec, HonestFramesAccepted

\* What poll() returns agrees with the helper processes. The invariant is that of the
\* supervision and of the stream, that no sample shown or on its way is younger than the
\* last one taken, and that a child that is kept exists, and has been told to stop when
\* the poll of a source no longer enabled comes to its end.
THEOREM HealthReturnedIsTrue == Spec => HealthMatchesHelpers
<1> DEFINE Inv == Stream /\ SamplesTaken /\ Accounted
           helpers == {p \in Pids : procs[p].phase # "absent"}
           Matches ==
             /\ health' = "healthy" => sampled' <= StaleAfter
             /\ health' = "unavailable" => \A p \in Pids : procs'[p].phase = "absent"
             /\ health' = "starting" => \E p \in Pids : procs'[p].phase # "absent"
             /\ health' = "disabled" =>
                  \A p \in Pids : procs'[p].phase = "absent" \/ procs'[p].sigs # {}
<1>1. Init => Inv
  BY StreamInit DEF Init, SamplesTaken, TakenBefore, Accounted
<1>2. TypeOK /\ Supervised /\ Inv /\ [Next]_vars => Inv'
  BY StreamStep, SamplesTakenStep, AccountedStep
<1>3. TypeOK /\ Supervised /\ Inv /\ [Next]_vars
        => [pc = "finish" /\ pc' = "idle" => Matches]_vars
  <2>1. SUFFICES ASSUME TypeOK, Supervised, Inv, Next, pc = "finish", pc' = "idle" PROVE Matches
    OBVIOUS
  <2>2. PollFinish
    <3>1. ~(Start \/ UserOp \/ ShutdownBegin \/ Shutdown \/ ProcessEnds \/ Tick)
      BY <2>1 DEF Start, UserOp, ShutdownBegin, Shutdown, ShutdownReap, ShutdownKill,
                  ShutdownEnd, WaitLabels, ProcessEnds, Tick
    <3>2. ~\E p \in Pids : Works(p) \/ Fails(p) \/ Dies(p) \/ InitReaps(p)
      BY <2>1 DEF Works, Fails, Dies, InitReaps, OfHelper
    <3>3. ~(PollBegin \/ PollSpawn \/ DecodeFrame \/ ReadMore \/ ReadEnds \/ PollReap
            \/ PollTimeouts)
      BY <2>1 DEF PollBegin, PollSpawn, DecodeFrame, ReadMore, ReadEnds, PollReap, PollTimeouts
    <3>4. QED
      BY <2>1, <3>1, <3>2, <3>3 DEF Next, Poll
  <2>3. TypeOK' /\ Supervised' /\ Accounted'
    BY <2>1, TypeStep, SupervisedStep, AccountedStep
  <2>4. /\ TrySpawn(enabled, TRUE) /\ health' = HealthOf(enabled, pid', helperStatus')
        /\ UNCHANGED <<enabled, hasSample, sampleAge, sampled>>
    BY <2>2 DEF PollFinish, modeVars, sampleVars
  <2>5. /\ enabled \in BOOLEAN /\ hasSample \in BOOLEAN /\ sampled \in Int /\ sampleAge \in Int
        /\ StaleAfter \in Int /\ pid \in Pids \cup {None} /\ pid' \in Pids \cup {None}
        /\ helperStatus' \in {"OK", "UNAVAILABLE", "ERROR"}
    BY <2>1, <2>3, HelperAssumption
       DEF HelperAssumption, TypeOK, FlagsOK, CountsOK, StreamOK, LabelsOK, Status
  <2>6. \A p \in helpers' : p = pid'
    BY <2>1, <2>3 DEF Supervised, OneHelper
  <2>7. CASE ~enabled
    <3>1. health' = "disabled" /\ UNCHANGED <<pid, procs>>
      BY <2>4, <2>7 DEF HealthOf, TrySpawn, MaySpawn, kidVars
    <3>2. pid # None => procs[pid].sigs # {}
      BY <2>1, <2>7 DEF Accounted
    <3>3. \A p \in helpers' : procs'[p].sigs # {}
      BY <2>6, <3>1, <3>2, NoneIsNoPid
    <3> QED
      BY <3>1, <3>3
  <2>8. CASE enabled /\ hasSample
    <3>1. health' = IF sampleAge <= StaleAfter THEN "healthy" ELSE "stale"
      BY <2>4, <2>8 DEF HealthOf
    <3>2. sampled <= sampleAge
      BY <2>1, <2>8 DEF SamplesTaken
    <3> QED
      BY <2>4, <2>5, <3>1, <3>2
  <2>9. CASE enabled /\ ~hasSample
    <3>1. helperStatus' \in {"UNAVAILABLE", "ERROR"}
      BY <2>3, <2>4, <2>5, <2>9 DEF Accounted
    <3>2. health' = IF pid' = None THEN "unavailable" ELSE "starting"
      BY <2>4, <2>9, <3>1 DEF HealthOf
    <3>3. pid' = None => helpers' = {}
      BY <2>6, NoneIsNoPid
    <3>4. pid' # None => pid' \in helpers'
      BY <2>1, <2>3, <2>5 DEF Accounted, Phase
    <3> QED
      BY <3>2, <3>3, <3>4
  <2> QED
    BY <2>5, <2>7, <2>8, <2>9
<1>4. QED
  BY <1>1, <1>2, <1>3, Supervision, PTL DEF Spec, HealthMatchesHelpers
=============================================================================
