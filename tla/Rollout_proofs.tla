---------------------------- MODULE Rollout_proofs ----------------------------
(***************************************************************************)
(* Proofs about the actor scripts: what the policies are shown, what a     *)
(* transition is made of, and what the collected files hold, for every     *)
(* length of an episode, a chunk, a frame history and a gate window.       *)
(*                                                                         *)
(* The frame history is a function of the frame it ends at (FramesOf), the *)
(* window of values too (Gated), and the loop's observation is the         *)
(* environment's frame but after an evaluation of train_rlpd.py (Acting):  *)
(* the rest follows from the step that makes a transition.                 *)
(***************************************************************************)
EXTENDS Rollout, FiniteSetTheorems, SequenceTheorems, TLAPS

Moments == [ep : Nat, t : Nat]

\* The frame k steps before f, the first of the episode if there is none.
Back(f, k) == [f EXCEPT !.t = IF @ >= k THEN @ - k ELSE 0]

\* A sequence of frames that leads up to f.
LeadsTo(s, f) == s \in Seq(Moments) /\ \A i \in 1..Len(s) : s[i] = Back(f, Len(s) - i)

-----------------------------------------------------------------------------
(***************************************************************************)
(* The inductive invariant, in parts.                                      *)
(***************************************************************************)
Flags ==
  /\ script \in Scripts /\ script \in AllScripts
  /\ pc \in {"loop", "boundary", "done"}
  /\ learning \in BOOLEAN /\ waits \in BOOLEAN
  /\ chunk_step \in Nat /\ last_eval \in 0..chunk_step
  /\ evaluated \in BOOLEAN

\* The history of frames is that of the environment's frame.
FramesOf ==
  /\ env \in Moments
  /\ LeadsTo(fh, env)
  /\ Len(fh) \in 1..FrameHistory
  /\ Len(fh) = FrameHistory \/ Len(fh) > env.t

\* The loop holds the environment's frame, and the base chunk for it.
Acting ==
  /\ obs \in Moments /\ base = HistoryOf(obs)
  /\ pc = "loop" => /\ obs.t < MaxEpisodeSteps
                    /\ obs = env \/ (script = "rlpd" /\ evaluated)

\* How far an episode, and the episodes, have come.
Bounded ==
  /\ obs.t <= MaxEpisodeSteps + 1 /\ env.t <= MaxEpisodeSteps + 1
  /\ pc = "loop" => env.t <= MaxEpisodeSteps
  /\ env.ep \in 1..(EpisodeBound + 4) /\ obs.ep \in 1..(EpisodeBound + 4)
  /\ pc = "loop" => env.ep <= EpisodeBound + 3
  /\ pc = "loop" /\ script = "rlpd" /\ EvalDue => env.ep <= EpisodeBound + 2
  /\ pc = "boundary" => \/ env.ep <= EpisodeBound + 1
                        \/ script # "rlpd" /\ env.ep <= EpisodeBound + 2 /\ ~EvalDue
  /\ script \in Evaluators => env.ep <= EpisodeBound + 1

\* The values of the gate window are those of the steps up to the frame.
Gated ==
  /\ gate \in BOOLEAN
  /\ LeadsTo(vhist, env) /\ Len(vhist) <= PamK + 1 /\ Len(vhist) <= env.t
  /\ script # "qoil" => vhist = <<>> /\ ~gate
  /\ gate /\ pc = "loop" => Len(vhist) = PamK + 1

\* Where the last transition of each buffer stands to the loop.
Followed ==
  /\ streams = [r \in Rings |-> streams[r]]
  /\ script # "qoil" => streams["demo"] = None
  /\ script \notin Trainers => streams["online"] = None
  /\ \A r \in Rings : streams[r].seq \in 0..chunk_step
  /\ \A r \in Rings :
    \/ streams[r] = None \/ streams[r].done \/ streams[r].trunc
    \/ script = "qoil" /\ streams[r].seq < chunk_step
    \/ pc # "boundary" /\ streams[r].next = obs

\* The episode being collected, and the arrays kept.
Records == [obs : Moments, next : Moments, done : BOOLEAN]

Chain(trs) ==
  /\ trs \in Seq(Records)
  /\ \A i \in 1..(Len(trs) - 1) : ~trs[i].done /\ trs[i + 1].obs = trs[i].next

Run(trs) == Chain(trs) /\ (trs # <<>> => trs[1].obs.t = 0)

Whole(trs) ==
  /\ trs \in Seq(Records)
  /\ trs # <<>> => trs[1].obs.t = 0 /\ trs[Len(trs)].done
  /\ \A i \in 1..(Len(trs) - 1) : IF trs[i].done THEN trs[i + 1].obs.t = 0
                                  ELSE trs[i + 1].obs = trs[i].next

Collected ==
  /\ Run(ep) /\ Whole(kept)
  /\ script = "collect" /\ pc = "loop" =>
       IF ep = <<>> THEN env.t = 0
       ELSE ~ep[Len(ep)].done /\ ep[Len(ep)].next = env

Inv == Flags /\ FramesOf /\ Acting /\ Bounded /\ Gated /\ Followed /\ Collected

-----------------------------------------------------------------------------
(***************************************************************************)
(* Frames.                                                                 *)
(***************************************************************************)
\* Going on n steps and back k more is going back k - n.
LEMMA BackIs ==
  ASSUME NEW f \in Moments, NEW n \in Nat
  PROVE  /\ [f EXCEPT !.t = @ + n] \in Moments
         /\ [f EXCEPT !.t = @ + n].t = f.t + n /\ [f EXCEPT !.t = @ + n].ep = f.ep
         /\ \A k \in Nat : /\ Back(f, k) \in Moments
                           /\ Back([f EXCEPT !.t = @ + n], n + k) = Back(f, k)
                           /\ Back(f, k).ep = f.ep /\ Back(f, k).t <= f.t
         /\ \A k \in 0..n : Back([f EXCEPT !.t = @ + n], k) = [f EXCEPT !.t = @ + (n - k)]
  <1> DEFINE g == [f EXCEPT !.t = @ + n]
  <1>1. f.t \in Nat /\ f.ep \in Nat /\ g \in Moments /\ g.t = f.t + n /\ g.ep = f.ep
    BY DEF Moments
  <1>2. ASSUME NEW k \in Nat
        PROVE  /\ Back(f, k) \in Moments /\ Back(g, n + k) = Back(f, k)
               /\ Back(f, k).ep = f.ep /\ Back(f, k).t <= f.t
    <2>1. Back(f, k) \in Moments /\ Back(f, k).ep = f.ep /\ Back(f, k).t <= f.t
      BY <1>1 DEF Moments, Back
    <2>2. f.t >= k <=> f.t + n >= n + k
      BY <1>1
    <2>3. (f.t + n) - (n + k) = f.t - k
      BY <1>1
    <2>4. Back(g, n + k) = Back(f, k)
      BY <1>1, <2>2, <2>3 DEF Moments, Back
    <2> QED
      BY <2>1, <2>4
  <1>3. ASSUME NEW k \in 0..n PROVE Back(g, k) = [f EXCEPT !.t = @ + (n - k)]
    <2>1. g.t >= k /\ g.t - k = f.t + (n - k)
      BY <1>1
    <2> QED
      BY <2>1 DEF Moments, Back
  <1> QED
    BY <1>1, <1>2, <1>3

\* The last m of a sequence.
Lasts(s, m) == SubSeq(s, 1 + (IF Len(s) > m THEN Len(s) - m ELSE 0), Len(s))

\* They are the last ones, at most m and no fewer than there are.
LEMMA LastsIs ==
  ASSUME NEW S, NEW s \in Seq(S), NEW m \in Nat \ {0}
  PROVE  /\ Lasts(s, m) \in Seq(S)
         /\ Len(Lasts(s, m)) = IF Len(s) > m THEN m ELSE Len(s)
         /\ \A i \in 1..Len(Lasts(s, m)) : Lasts(s, m)[i] = s[i + Len(s) - Len(Lasts(s, m))]
  <1> DEFINE d == IF Len(s) > m THEN Len(s) - m ELSE 0
             r == Lasts(s, m)
             l == IF Len(s) > m THEN m ELSE Len(s)
  <1>1. Len(s) \in Nat /\ d \in Nat /\ l \in Nat /\ l = Len(s) - d
    BY LenProperties
  <1>2. \A i \in (1 + d)..Len(s) : s[i] \in S
    BY <1>1, ElementOfSeq
  <1>3. r = SubSeq(s, 1 + d, Len(s))
    BY DEF Lasts
  <1> HIDE DEF d, r, l
  <1>4. /\ r \in Seq(S)
        /\ Len(r) = IF 1 + d <= Len(s) THEN Len(s) - (1 + d) + 1 ELSE 0
        /\ \A i \in 1..(Len(s) - (1 + d) + 1) : r[i] = s[1 + d + i - 1]
    BY <1>1, <1>2, <1>3, SubSeqProperties
  <1>5. Len(r) = l
    BY <1>1, <1>4
  <1>6. ASSUME NEW i \in 1..l PROVE r[i] = s[i + Len(s) - l]
    <2>1. i \in 1..(Len(s) - (1 + d) + 1) /\ 1 + d + i - 1 = i + Len(s) - l
      BY <1>1
    <2> QED
      BY <1>4, <2>1
  <1> QED
    BY <1>4, <1>5, <1>6 DEF r, l

\* The steps of a chunk of n from f.
Went(f, n) == [i \in 1..n |-> [f EXCEPT !.t = @ + i]]

\* They are n frames.
LEMMA WentIs ==
  ASSUME NEW f \in Moments, NEW n \in Nat
  PROVE  /\ Went(f, n) \in Seq(Moments) /\ Len(Went(f, n)) = n
         /\ \A i \in 1..n : Went(f, n)[i] = [f EXCEPT !.t = @ + i]
  <1>1. ASSUME NEW i \in 1..n PROVE [f EXCEPT !.t = @ + i] \in Moments
    BY DEF Moments
  <1>2. Went(f, n) \in [1..n -> Moments] /\ \A i \in 1..n : Went(f, n)[i] = [f EXCEPT !.t = @ + i]
    BY <1>1 DEF Went
  <1> QED
    BY <1>2, IsASeq, LenProperties

\* The frames up to f and the n after it, the last m of them.
LEMMA GoesOn ==
  ASSUME NEW f \in Moments, NEW n \in Nat, NEW m \in Nat \ {0}, NEW s, LeadsTo(s, f)
  PROVE  LET r == Lasts(s \o Went(f, n), m)
         IN  /\ LeadsTo(r, [f EXCEPT !.t = @ + n])
             /\ Len(r) = IF Len(s) + n > m THEN m ELSE Len(s) + n
  <1> DEFINE w == Went(f, n)
             g == [f EXCEPT !.t = @ + n]
             c == s \o w
             r == Lasts(c, m)
             l == IF Len(c) > m THEN m ELSE Len(c)
  <1>1. s \in Seq(Moments) /\ Len(s) \in Nat /\ \A i \in 1..Len(s) : s[i] = Back(f, Len(s) - i)
    BY LenProperties DEF LeadsTo
  <1>2. w \in Seq(Moments) /\ Len(w) = n /\ \A i \in 1..n : w[i] = [f EXCEPT !.t = @ + i]
    BY WentIs
  <1> HIDE DEF w, g
  <1>3. /\ c \in Seq(Moments) /\ Len(c) = Len(s) + n
        /\ \A j \in 1..(Len(s) + n) : c[j] = IF j <= Len(s) THEN s[j] ELSE w[j - Len(s)]
    <2>1. /\ c \in Seq(Moments) /\ Len(c) = Len(s) + Len(w)
          /\ \A j \in 1..(Len(s) + Len(w)) :
               c[j] = IF j <= Len(s) THEN s[j] ELSE w[j - Len(s)]
      <3>1. s \in Seq(Moments) /\ w \in Seq(Moments)
        BY <1>1, <1>2
      <3> QED
        BY <3>1, ConcatProperties
    <2> HIDE DEF c
    <2> QED
      BY <1>2, <2>1
  <1> HIDE DEF c
  <1>4. ASSUME NEW j \in 1..Len(c) PROVE c[j] = Back(g, Len(c) - j)
    <2>1. CASE j <= Len(s)
      <3>1. Len(s) - j \in Nat /\ Len(c) - j = n + (Len(s) - j)
        BY <1>1, <1>3, <2>1
      <3>2. Back(g, n + (Len(s) - j)) = Back(f, Len(s) - j)
        BY <3>1, BackIs DEF g
      <3>3. c[j] = s[j] /\ s[j] = Back(f, Len(s) - j)
        BY <1>1, <1>3, <2>1
      <3> QED
        BY <3>1, <3>2, <3>3
    <2>2. CASE ~(j <= Len(s))
      <3>1. /\ j - Len(s) \in 1..n /\ Len(c) - j \in 0..n /\ n - (Len(c) - j) = j - Len(s)
        BY <1>1, <1>3, <2>2
      <3>2. Back(g, Len(c) - j) = [f EXCEPT !.t = @ + (n - (Len(c) - j))]
        <4>1. PICK k \in 0..n : k = Len(c) - j
          BY <3>1
        <4>2. Back(g, k) = [f EXCEPT !.t = @ + (n - k)]
          BY BackIs DEF g
        <4> QED
          BY <4>1, <4>2
      <3>3. c[j] = w[j - Len(s)]
        BY <1>3, <2>2
      <3> QED
        BY <1>2, <3>1, <3>2, <3>3
    <2> QED
      BY <2>1, <2>2
  <1>5. r \in Seq(Moments) /\ Len(r) = l /\ \A i \in 1..l : r[i] = c[i + Len(c) - l]
    <2>1. /\ r \in Seq(Moments) /\ Len(r) = IF Len(c) > m THEN m ELSE Len(c)
          /\ \A i \in 1..Len(r) : r[i] = c[i + Len(c) - Len(r)]
      BY <1>3, LastsIs
    <2> HIDE DEF r
    <2> QED
      BY <2>1
  <1> HIDE DEF r
  <1>6. ASSUME NEW i \in 1..Len(r) PROVE r[i] = Back(g, Len(r) - i)
    <2>1. Len(c) \in Nat /\ l \in 0..Len(c) /\ i \in 1..l
      BY <1>1, <1>3, <1>5
    <2>2. i + Len(c) - l \in 1..Len(c) /\ Len(c) - (i + Len(c) - l) = Len(r) - i
      BY <1>5, <2>1
    <2> QED
      BY <1>4, <1>5, <2>1, <2>2
  <1> QED
    BY <1>3, <1>5, <1>6 DEF LeadsTo, r, c, w, g

\* What BaseObs makes of a deque s.
Shown(s) ==
  [i \in 1..FrameHistory |->
     IF i + Len(s) <= FrameHistory THEN s[1] ELSE s[i + Len(s) - FrameHistory]]

\* It is the history of the frame that the deque ends at.
LEMMA ShownOf ==
  ASSUME NEW f \in Moments, NEW s, LeadsTo(s, f), Len(s) \in 1..FrameHistory,
         Len(s) = FrameHistory \/ Len(s) > f.t
  PROVE  Shown(s) = HistoryOf(f)
  <1>1. /\ FrameHistory \in Nat \ {0} /\ f.t \in Nat
        /\ \A i \in 1..Len(s) : s[i] = Back(f, Len(s) - i)
    BY ChunkEnvAssumption DEF LeadsTo, Moments
  <1>2. ASSUME NEW i \in 1..FrameHistory
        PROVE  (IF i + Len(s) <= FrameHistory THEN s[1] ELSE s[i + Len(s) - FrameHistory])
               = [f EXCEPT !.t = IF @ + i >= FrameHistory THEN @ + i - FrameHistory ELSE 0]
    <2>1. Back(f, FrameHistory - i)
            = [f EXCEPT !.t = IF @ + i >= FrameHistory THEN @ + i - FrameHistory ELSE 0]
      BY <1>1 DEF Back, Moments
    <2>2. CASE i + Len(s) <= FrameHistory
      <3>1. s[1] = Back(f, Len(s) - 1)
        BY <1>1
      <3>2. Back(f, Len(s) - 1) = Back(f, FrameHistory - i)
        BY <1>1, <2>2 DEF Back, Moments
      <3> QED
        BY <2>1, <2>2, <3>1, <3>2
    <2>3. CASE ~(i + Len(s) <= FrameHistory)
      <3>1. /\ i + Len(s) - FrameHistory \in 1..Len(s)
            /\ Len(s) - (i + Len(s) - FrameHistory) = FrameHistory - i
        BY <1>1, <2>3
      <3> QED
        BY <1>1, <2>1, <2>3, <3>1
    <2> QED
      BY <2>2, <2>3
  <1> QED
    BY <1>2 DEF Shown, HistoryOf

\* So base_obs is right wherever FramesOf holds, before a step and after it.
LEMMA ShownIs ==
  /\ FramesOf => BaseObs = HistoryOf(env)
  /\ FramesOf' => BaseObs' = HistoryOf(env')
  <1>1. BaseObs = Shown(fh) /\ BaseObs' = Shown(fh')
    BY DEF BaseObs, Shown
  <1>2. FramesOf => BaseObs = HistoryOf(env)
    BY <1>1, ShownOf DEF FramesOf
  <1>3. ASSUME FramesOf' PROVE BaseObs' = HistoryOf(env')
    <2>1. /\ env' \in Moments /\ LeadsTo(fh', env') /\ Len(fh') \in 1..FrameHistory
          /\ Len(fh') = FrameHistory \/ Len(fh') > env'.t
      BY <1>3 DEF FramesOf, LeadsTo, Back
    <2>2. Shown(fh') = HistoryOf(env')
      BY <2>1, ShownOf
    <2> QED
      BY <1>1, <2>2
  <1> QED
    BY <1>2, <1>3

\* A reset, with either kind of history, and a rollout to the t-th frame.
LEMMA ResetIs ==
  ASSUME FramesOf, Reset \/ ResetDeques
  PROVE  /\ env' = [ep |-> env.ep + 1, t |-> 0] /\ env' \in Moments
         /\ FramesOf' /\ BaseObs' = HistoryOf(env')
  <1>1. env' = [ep |-> env.ep + 1, t |-> 0] /\ env' \in Moments /\ env'.t = 0
    BY DEF FramesOf, Moments, Reset, ResetDeques
  <1>2. FrameHistory \in Nat \ {0}
    BY ChunkEnvAssumption
  <1>3. \A k \in Nat : Back(env', k) = env'
    BY <1>1 DEF Back
  <1>4. /\ fh' \in Seq(Moments) /\ Len(fh') \in {1, FrameHistory}
        /\ \A i \in 1..Len(fh') : fh'[i] = env'
    <2>1. CASE Reset
      <3>1. fh' = <<env'>>
        BY <2>1 DEF Reset
      <3> QED
        BY <1>1, <3>1
    <2>2. CASE ResetDeques
      <3>1. fh' = [i \in 1..FrameHistory |-> env']
        BY <2>2 DEF ResetDeques
      <3>2. fh' \in Seq(Moments) /\ Len(fh') = FrameHistory
        BY <1>1, <1>2, <3>1, IsASeq, LenProperties
      <3> QED
        BY <3>1, <3>2
    <2> QED
      BY <2>1, <2>2
  <1>5. LeadsTo(fh', env')
    BY <1>2, <1>3, <1>4 DEF LeadsTo
  <1>6. FramesOf'
    <2>1. Len(fh') \in 1..FrameHistory /\ (Len(fh') = FrameHistory \/ Len(fh') > env'.t)
      <3>1. 1 \in 1..FrameHistory /\ FrameHistory \in 1..FrameHistory /\ 1 > 0
        BY <1>2
      <3>2. CASE Len(fh') = 1
        BY <1>1, <3>1, <3>2
      <3>3. CASE Len(fh') = FrameHistory
        BY <3>1, <3>3
      <3> QED
        BY <1>4, <3>2, <3>3
    <2> QED
      BY <1>1, <1>5, <2>1 DEF FramesOf, LeadsTo, Back
  <1>7. BaseObs' = HistoryOf(env')
    BY <1>6, ShownIs
  <1> QED
    BY <1>1, <1>6, <1>7

\* The frames of a rollout to the t-th.
LEMMA RolloutIs ==
  ASSUME FramesOf, NEW t \in Nat, RolloutTo(t)
  PROVE  env' = [ep |-> env.ep + 1, t |-> t] /\ env' \in Moments /\ FramesOf'
  <1> DEFINE s == [i \in 1..(t + 1) |-> [ep |-> env.ep + 1, t |-> i - 1]]
             r == Lasts(s, FrameHistory)
  <1>1. /\ env' = [ep |-> env.ep + 1, t |-> t] /\ env' \in Moments
        /\ fh' = r /\ FrameHistory \in Nat \ {0}
    BY ChunkEnvAssumption DEF FramesOf, Moments, RolloutTo, LastFrames, Lasts
  <1>2. s \in Seq(Moments) /\ Len(s) = t + 1
    <2>1. s \in [1..(t + 1) -> Moments]
      BY DEF FramesOf, Moments
    <2> QED
      BY <2>1, IsASeq, LenProperties
  <1>3. \A i \in 1..(t + 1) : s[i] = Back(env', t + 1 - i)
    BY <1>1 DEF Back, FramesOf, Moments
  <1> HIDE DEF s
  <1> DEFINE l == IF t + 1 > FrameHistory THEN FrameHistory ELSE t + 1
  <1>4. r \in Seq(Moments) /\ Len(r) = l /\ \A i \in 1..l : r[i] = s[i + (t + 1) - l]
    <2>1. /\ r \in Seq(Moments) /\ Len(r) = (IF Len(s) > FrameHistory THEN FrameHistory ELSE Len(s))
          /\ \A i \in 1..Len(r) : r[i] = s[i + Len(s) - Len(r)]
      <3>1. s \in Seq(Moments) /\ FrameHistory \in Nat \ {0}
        BY <1>1, <1>2
      <3> QED
        BY <3>1, LastsIs
    <2> QED
      BY <1>2, <2>1
  <1> HIDE DEF r
  <1>5. ASSUME NEW i \in 1..Len(r) PROVE r[i] = Back(env', Len(r) - i)
    <2>1. i + (t + 1) - l \in 1..(t + 1) /\ t + 1 - (i + (t + 1) - l) = Len(r) - i
      BY <1>1, <1>4
    <2> QED
      BY <1>3, <1>4, <2>1
  <1>6. LeadsTo(fh', env')
    BY <1>1, <1>4, <1>5 DEF LeadsTo
  <1>7. Len(fh') \in 1..FrameHistory /\ (Len(fh') = FrameHistory \/ Len(fh') > env'.t)
    BY <1>1, <1>4
  <1> QED
    BY <1>1, <1>6, <1>7 DEF FramesOf, LeadsTo, Back

-----------------------------------------------------------------------------
(***************************************************************************)
(* One pass of a loop, whichever script takes it.                          *)
(***************************************************************************)
\* What a chunk of at most h steps comes to.
LEMMA ChunkIs ==
  ASSUME FramesOf, NEW h \in Nat \ {0}, NEW o \in Outcomes(h), StepChunk(o)
  PROVE  /\ o.n \in 1..h /\ o.done \in BOOLEAN /\ o.trunc \in BOOLEAN
         /\ env' = [env EXCEPT !.t = @ + o.n] /\ env' \in Moments
         /\ env'.t = env.t + o.n /\ env'.ep = env.ep
         /\ o.trunc <=> env'.t >= MaxEpisodeSteps
         /\ o.n < h => o.done \/ o.trunc
         /\ o.n = 1 \/ env'.t <= MaxEpisodeSteps
         /\ FramesOf' /\ BaseObs' = HistoryOf(env')
         /\ fh' = Lasts(fh \o Went(env, o.n), FrameHistory)
  <1>1. /\ o.n \in 1..h /\ o.done \in BOOLEAN /\ o.trunc \in BOOLEAN
        /\ o.trunc <=> env.t + o.n >= MaxEpisodeSteps
        /\ \A i \in 1..(o.n - 1) : ~(env.t + i >= MaxEpisodeSteps)
        /\ o.n < h => o.done \/ o.trunc
    BY DEF Outcomes, Truncated
  <1>2. env \in Moments /\ env.t \in Nat /\ MaxEpisodeSteps \in Nat
    BY ChunkEnvAssumption DEF FramesOf, Moments
  <1>3. /\ env' = [env EXCEPT !.t = @ + o.n] /\ env' \in Moments
        /\ env'.t = env.t + o.n /\ env'.ep = env.ep
    BY <1>1, <1>2, BackIs DEF StepChunk
  <1>4. o.n = 1 \/ env'.t <= MaxEpisodeSteps
    <2>1. CASE o.n # 1
      <3>1. o.n - 1 \in 1..(o.n - 1) /\ env.t + (o.n - 1) < MaxEpisodeSteps
        BY <1>1, <1>2, <2>1
      <3> QED
        BY <1>1, <1>2, <1>3, <3>1
    <2> QED
      BY <2>1
  <1>5. FrameHistory \in Nat \ {0}
    BY ChunkEnvAssumption
  <1>6. fh' = Lasts(fh \o Went(env, o.n), FrameHistory)
    BY DEF StepChunk, LastFrames, Lasts, Went
  <1>7. /\ LeadsTo(fh', env')
        /\ Len(fh') = IF Len(fh) + o.n > FrameHistory THEN FrameHistory ELSE Len(fh) + o.n
    <2>1. o.n \in Nat /\ LeadsTo(fh, env)
      BY <1>1 DEF FramesOf
    <2>2. PICK r : r = Lasts(fh \o Went(env, o.n), FrameHistory)
      OBVIOUS
    <2>3. /\ LeadsTo(r, [env EXCEPT !.t = @ + o.n])
          /\ Len(r) = IF Len(fh) + o.n > FrameHistory THEN FrameHistory ELSE Len(fh) + o.n
      BY <1>2, <1>5, <2>1, <2>2, GoesOn
    <2> QED
      BY <1>3, <1>6, <2>2, <2>3
  <1>8. Len(fh') \in 1..FrameHistory /\ (Len(fh') = FrameHistory \/ Len(fh') > env'.t)
    BY <1>1, <1>2, <1>3, <1>5, <1>7 DEF FramesOf
  <1>9. FramesOf'
    BY <1>3, <1>7, <1>8 DEF FramesOf, LeadsTo, Back
  <1>10. BaseObs' = HistoryOf(env')
    BY <1>9, ShownIs
  <1> QED
    BY <1>1, <1>3, <1>4, <1>6, <1>9, <1>10

\* What a pass leaves for the next one, or for the end of the episode.
LEMMA PassIs ==
  ASSUME Inv, pc = "loop", env.ep <= EpisodeBound + 1,
         NEW h \in Nat \ {0}, NEW o \in Outcomes(h), StepChunk(o), GoOn(o),
         chunk_step' = chunk_step + 1, evaluated' \in BOOLEAN,
         UNCHANGED <<script, learning, waits, last_eval>>
  PROVE  /\ Flags' /\ FramesOf' /\ Acting' /\ Bounded'
         /\ o.done \in BOOLEAN /\ o.trunc \in BOOLEAN
         /\ IF o.done \/ o.trunc THEN pc' = "boundary" ELSE pc' = "loop" /\ obs' = env'
  <1>1. /\ o.n \in 1..h /\ o.done \in BOOLEAN /\ o.trunc \in BOOLEAN
        /\ env' \in Moments /\ env'.t = env.t + o.n /\ env'.ep = env.ep
        /\ o.trunc <=> env'.t >= MaxEpisodeSteps
        /\ o.n = 1 \/ env'.t <= MaxEpisodeSteps
        /\ FramesOf' /\ BaseObs' = HistoryOf(env')
    BY ChunkIs DEF Inv
  <1>2. IF o.done \/ o.trunc THEN pc' = "boundary" /\ obs' = obs /\ base' = base
        ELSE pc' = "loop" /\ obs' = env' /\ base' = BaseObs'
    BY <1>1 DEF GoOn
  <1>3. Flags'
    <2>1. chunk_step' \in Nat /\ last_eval' \in 0..chunk_step'
      BY DEF Inv, Flags
    <2> QED
      BY <1>2, <2>1 DEF Inv, Flags
  <1>4. MaxEpisodeSteps \in Nat /\ EpisodeBound \in Nat /\ env.t \in Nat /\ env.ep \in Nat
    BY ChunkEnvAssumption, RolloutAssumption DEF Inv, FramesOf, Moments
  <1>5. env'.t <= MaxEpisodeSteps + 1 /\ (~o.trunc => env'.t < MaxEpisodeSteps)
    <2>1. env.t <= MaxEpisodeSteps
      BY DEF Inv, Bounded
    <2> QED
      BY <1>1, <1>4, <2>1
  <1>6. Acting'
    <2>1. obs' \in Moments /\ base' = HistoryOf(obs')
      BY <1>1, <1>2 DEF Inv, Acting
    <2>2. pc' = "loop" => obs' = env' /\ obs'.t < MaxEpisodeSteps
      BY <1>2, <1>5
    <2> QED
      BY <2>1, <2>2 DEF Acting, HistoryOf
  <1>7. Bounded'
    <2>1. /\ obs.t <= MaxEpisodeSteps + 1 /\ obs.ep \in 1..(EpisodeBound + 4)
          /\ env.ep \in 1..(EpisodeBound + 4)
      BY DEF Inv, Bounded
    <2>2. env'.ep <= EpisodeBound + 1 /\ env'.ep \in 1..(EpisodeBound + 4)
      BY <1>1, <1>4, <2>1
    <2>3. obs'.t <= MaxEpisodeSteps + 1 /\ obs'.ep \in 1..(EpisodeBound + 4)
      BY <1>2, <1>5, <2>1, <2>2
    <2>4. pc' = "loop" => env'.t <= MaxEpisodeSteps
      BY <1>1, <1>2, <1>4, <1>5
    <2>5. env'.ep <= EpisodeBound + 3 /\ env'.ep <= EpisodeBound + 2
      BY <1>4, <2>2
    <2> QED
      BY <1>5, <2>2, <2>3, <2>4, <2>5 DEF Bounded
  <1> QED
    BY <1>1, <1>2, <1>3, <1>6, <1>7

\* The gate of a script that has none.
LEMMA NoGate ==
  ASSUME Inv, script # "qoil", UNCHANGED <<script, vhist, gate>>, env' \in Moments
  PROVE  Gated'
  <1>1. vhist' = <<>> /\ gate' \in BOOLEAN /\ ~gate' /\ script' # "qoil"
    BY DEF Inv, Gated
  <1>2. env'.t \in Nat /\ PamK \in Nat
    BY RolloutAssumption DEF Moments
  <1>3. LeadsTo(vhist', env') /\ Len(vhist') = 0
    BY <1>1 DEF LeadsTo
  <1> QED
    BY <1>1, <1>2, <1>3 DEF Gated, LeadsTo, Back

\* The gate at a reset and at an evaluation, which clear the window.
LEMMA ClearGate ==
  ASSUME Inv, env' \in Moments, vhist' = <<>>, UNCHANGED script,
         gate' = FALSE \/ (gate' = gate /\ pc' = "boundary")
  PROVE  Gated'
  <1>1. gate' \in BOOLEAN /\ (gate' => script' = "qoil" /\ pc' = "boundary")
    <2>1. gate \in BOOLEAN /\ (gate => script = "qoil")
      BY DEF Inv, Gated
    <2>2. CASE gate' = FALSE
      BY <2>2
    <2>3. CASE gate' = gate /\ pc' = "boundary"
      BY <2>1, <2>3, Zenon
    <2> QED
      BY <2>2, <2>3
  <1>2. env'.t \in Nat /\ PamK \in Nat
    BY RolloutAssumption DEF Moments
  <1>3. LeadsTo(vhist', env') /\ Len(vhist') = 0
    BY DEF LeadsTo
  <1> QED
    BY <1>1, <1>2, <1>3 DEF Gated, LeadsTo, Back

\* A transition is added to one of the buffers.
LEMMA AddIs ==
  ASSUME Inv, script \in Trainers, pc = "loop", NEW o, NEW ring \in Rings,
         AddTransition(o, ring), script # "qoil" => ring = "online",
         chunk_step' = chunk_step + 1, UNCHANGED script,
         o.done \in BOOLEAN, o.trunc \in BOOLEAN,
         IF o.done \/ o.trunc THEN pc' = "boundary" ELSE pc' = "loop" /\ obs' = env'
  PROVE  /\ Followed'
         /\ \A r \in Rings : streams'[r] # streams[r] =>
              \/ InStep(streams[r], streams'[r]) \/ streams[r].trunc
              \/ script = "qoil" /\ streams[r].seq + 1 < streams'[r].seq
  <1> DEFINE Behind(p) == \/ p = None \/ p.done \/ p.trunc
                          \/ script = "qoil" /\ p.seq < chunk_step
                          \/ p.next = obs
             tr == last'
  <1>1. /\ tr.obs = obs /\ tr.next = env' /\ tr.seq = chunk_step + 1
        /\ tr.done = o.done /\ tr.trunc = o.trunc
        /\ streams' = [streams EXCEPT ![ring] = tr]
    BY DEF AddTransition, Passed
  <1>2. /\ chunk_step \in Nat /\ streams = [r \in Rings |-> streams[r]]
        /\ \A r \in Rings : streams[r].seq \in 0..chunk_step
        /\ \A r \in Rings : Behind(streams[r])
        /\ script # "qoil" => streams["demo"] = None
    <2>1. chunk_step \in Nat /\ streams = [r \in Rings |-> streams[r]]
      BY DEF Inv, Flags, Followed
    <2>2. /\ \A r \in Rings : streams[r].seq \in 0..chunk_step
          /\ script # "qoil" => streams["demo"] = None
      BY DEF Inv, Followed
    <2>3. \A r \in Rings : Behind(streams[r])
      <3>1. Followed
        BY DEF Inv
      <3>2. ASSUME NEW r \in Rings PROVE Behind(streams[r])
        BY <3>1, Zenon DEF Followed
      <3> QED
        BY <3>2
    <2> QED
      BY <2>1, <2>2, <2>3
  <1> HIDE DEF tr
  <1>3. streams' = [r \in Rings |-> IF r = ring THEN tr ELSE streams[r]]
    BY <1>1, <1>2
  <1>4. ASSUME NEW r \in Rings, r # ring
        PROVE  /\ streams'[r] = streams[r]
               /\ \/ streams'[r] = None \/ streams'[r].done \/ streams'[r].trunc
                  \/ script = "qoil" /\ streams'[r].seq < chunk_step'
    <2>1. streams'[r] = streams[r]
      BY <1>3, <1>4
    <2>2. CASE script = "qoil"
      <3>1. streams[r].seq < chunk_step'
        BY <1>2
      <3> QED
        BY <2>1, <2>2, <3>1
    <2>3. CASE script # "qoil"
      <3>1. r = "demo"
        BY <1>4, <2>3 DEF Rings
      <3> QED
        BY <1>2, <2>1, <2>3, <3>1
    <2> QED
      BY <2>1, <2>2, <2>3
  <1>5. streams'[ring] = tr
    BY <1>3
  <1>6. \/ streams'[ring].done \/ streams'[ring].trunc
        \/ pc' # "boundary" /\ streams'[ring].next = obs'
    BY <1>1, <1>5
  <1>7. Followed'
    <2>1. \A r \in Rings : streams'[r].seq \in 0..chunk_step'
      BY <1>1, <1>2, <1>4, <1>5
    <2>2. script' # "qoil" => streams'["demo"] = None
      BY <1>2, <1>4 DEF Rings
    <2>3. streams' = [r \in Rings |-> streams'[r]]
      BY <1>3
    <2>4. script' \notin Trainers => streams'["online"] = None
      OBVIOUS
    <2>5. \A r \in Rings : \/ streams'[r] = None \/ streams'[r].done \/ streams'[r].trunc
                           \/ script' = "qoil" /\ streams'[r].seq < chunk_step'
                           \/ pc' # "boundary" /\ streams'[r].next = obs'
      BY <1>4, <1>6
    <2> QED
      BY <2>1, <2>2, <2>3, <2>4, <2>5 DEF Followed
  <1>8. ASSUME NEW r \in Rings, streams'[r] # streams[r]
        PROVE  \/ InStep(streams[r], streams'[r]) \/ streams[r].trunc
               \/ script = "qoil" /\ streams[r].seq + 1 < streams'[r].seq
    <2>1. r = ring /\ streams'[r] = tr
      BY <1>4, <1>5, <1>8
    <2>2. script = "qoil" /\ streams[r].seq < chunk_step => streams[r].seq + 1 < tr.seq
      BY <1>1, <1>2
    <2> QED
      BY <1>1, <1>2, <2>1, <2>2 DEF InStep
  <1> QED
    BY <1>7, <1>8

\* The arithmetic of a window that gains n values and keeps m.
LEMMA WindowBound ==
  \A l, n, m, t \in Nat : l <= t =>
    (IF l + n > m THEN m ELSE l + n) <= m /\ (IF l + n > m THEN m ELSE l + n) <= t + n
  OBVIOUS

\* The window of values after a chunk of train_qoil.py.
LEMMA WindowIs ==
  ASSUME Inv, NEW n \in Nat \ {0}, env' = [env EXCEPT !.t = @ + n], script' = script,
         script = "qoil",
         LET h == vhist \o [i \in 1..n |-> [env EXCEPT !.t = @ + i]]
         IN  vhist' = SubSeq(h, 1 + (IF Len(h) > PamK + 1 THEN Len(h) - PamK - 1 ELSE 0), Len(h)),
         gate' \in (IF Stagnating(vhist') THEN BOOLEAN ELSE {FALSE})
  PROVE  Gated'
  <1> DEFINE h == vhist \o Went(env, n)
  <1>1. /\ env \in Moments /\ env.t \in Nat /\ PamK \in Nat \ {0} /\ PamK + 1 \in Nat \ {0}
        /\ LeadsTo(vhist, env) /\ Len(vhist) \in Nat
        /\ Len(vhist) <= PamK + 1 /\ Len(vhist) <= env.t
    <2>1. vhist \in Seq(Moments)
      BY DEF Inv, Gated, LeadsTo
    <2> QED
      BY <2>1, LenProperties, RolloutAssumption DEF Inv, Gated, FramesOf, Moments
  <1>2. Len(h) \in Nat
    <2>1. vhist \in Seq(Moments)
      BY <1>1 DEF LeadsTo
    <2>2. Went(env, n) \in Seq(Moments)
      BY <1>1, WentIs
    <2>3. h \in Seq(Moments)
      BY <2>1, <2>2, ConcatProperties
    <2> QED
      BY <2>3, LenProperties
  <1>3. vhist' = SubSeq(h, 1 + (IF Len(h) > PamK + 1 THEN Len(h) - PamK - 1 ELSE 0), Len(h))
    BY DEF Went
  <1> HIDE DEF h
  <1>4. Len(h) - PamK - 1 = Len(h) - (PamK + 1)
    BY <1>1, <1>2
  <1>5. vhist' = Lasts(h, PamK + 1)
    BY <1>3, <1>4 DEF Lasts
  <1>6. /\ LeadsTo(vhist', env')
        /\ Len(vhist') = IF Len(vhist) + n > PamK + 1 THEN PamK + 1 ELSE Len(vhist) + n
    <2>1. PICK m \in Nat \ {0} : m = PamK + 1
      BY <1>1
    <2>2. PICK r : r = Lasts(vhist \o Went(env, n), m)
      OBVIOUS
    <2>3. /\ LeadsTo(r, [env EXCEPT !.t = @ + n])
          /\ Len(r) = IF Len(vhist) + n > m THEN m ELSE Len(vhist) + n
      <3>1. env \in Moments /\ n \in Nat /\ LeadsTo(vhist, env)
        BY <1>1
      <3> HIDE <2>1
      <3> QED
        BY <2>2, <3>1, GoesOn
    <2> QED
      BY <1>5, <2>1, <2>2, <2>3 DEF h
  <1>7. env'.t = env.t + n
    BY <1>1 DEF Moments
  <1>8. Len(vhist') <= PamK + 1 /\ Len(vhist') <= env'.t
    BY <1>1, <1>6, <1>7, WindowBound
  <1>9. gate' \in BOOLEAN /\ (gate' => Len(vhist') = PamK + 1)
    <2>1. CASE Stagnating(vhist')
      <3>1. Len(vhist') > PamK /\ gate' \in BOOLEAN
        BY <2>1 DEF Stagnating
      <3> QED
        BY <1>1, <1>6, <3>1
    <2>2. CASE ~Stagnating(vhist')
      BY <2>2
    <2> QED
      BY <2>1, <2>2
  <1> QED
    BY <1>6, <1>8, <1>9 DEF Gated, LeadsTo, Back

-----------------------------------------------------------------------------
(***************************************************************************)
(* The demonstrations.                                                     *)
(***************************************************************************)
\* A chain goes on with another.
LEMMA ChainGoesOn ==
  ASSUME NEW a, NEW b, Run(a), Chain(b), b # <<>>,
         IF a = <<>> THEN b[1].obs.t = 0
         ELSE ~a[Len(a)].done /\ b[1].obs = a[Len(a)].next
  PROVE  Run(a \o b) /\ a \o b # <<>> /\ (a \o b)[Len(a \o b)] = b[Len(b)]
  <1> DEFINE c == a \o b
  <1>1. a \in Seq(Records) /\ b \in Seq(Records)
    BY DEF Run, Chain
  <1>2. /\ Len(a) \in Nat /\ Len(b) \in Nat \ {0} /\ (a = <<>> <=> Len(a) = 0)
    BY <1>1, LenProperties, EmptySeq
  <1>3. /\ c \in Seq(Records) /\ Len(c) = Len(a) + Len(b)
        /\ \A i \in 1..(Len(a) + Len(b)) : c[i] = IF i <= Len(a) THEN a[i] ELSE b[i - Len(a)]
    BY <1>1, ConcatProperties
  <1> HIDE DEF c
  <1>4. ASSUME NEW i \in 1..(Len(c) - 1) PROVE ~c[i].done /\ c[i + 1].obs = c[i].next
    <2>1. CASE i < Len(a)
      <3>1. c[i] = a[i] /\ c[i + 1] = a[i + 1] /\ i \in 1..(Len(a) - 1)
        BY <1>2, <1>3, <2>1
      <3> QED
        BY <3>1 DEF Run, Chain
    <2>2. CASE i = Len(a)
      <3>1. c[i] = a[Len(a)] /\ a # <<>>
        BY <1>2, <1>3, <2>2
      <3>2. i + 1 \in 1..(Len(a) + Len(b)) /\ ~(i + 1 <= Len(a)) /\ i + 1 - Len(a) = 1
        BY <1>2, <1>3, <2>2
      <3>3. c[i + 1] = b[1]
        BY <1>3, <3>2
      <3> QED
        BY <3>1, <3>3
    <2>3. CASE i > Len(a)
      <3>1. /\ c[i] = b[i - Len(a)] /\ c[i + 1] = b[i - Len(a) + 1]
            /\ i - Len(a) \in 1..(Len(b) - 1)
        BY <1>2, <1>3, <2>3
      <3> QED
        BY <3>1 DEF Chain
    <2> QED
      BY <1>2, <2>1, <2>2, <2>3
  <1>5. c[1].obs.t = 0
    <2>1. CASE a = <<>>
      BY <1>2, <1>3, <2>1
    <2>2. CASE a # <<>>
      <3>1. c[1] = a[1]
        BY <1>2, <1>3, <2>2
      <3> QED
        BY <2>2, <3>1 DEF Run
    <2> QED
      BY <2>1, <2>2
  <1>6. c # <<>> /\ c[Len(c)] = b[Len(b)]
    <2>1. Len(c) # 0 /\ Len(c) - Len(a) = Len(b) /\ ~(Len(c) <= Len(a))
      BY <1>2, <1>3
    <2> QED
      BY <1>2, <1>3, <2>1, EmptySeq
  <1> QED
    BY <1>3, <1>4, <1>5, <1>6 DEF Run, Chain, c

\* The arrays go on with an episode that ends in success.
LEMMA WholeGoesOn ==
  ASSUME NEW a, NEW b, Whole(a), Run(b), b # <<>>, b[Len(b)].done
  PROVE  Whole(a \o b)
  <1> DEFINE c == a \o b
  <1>1. a \in Seq(Records) /\ b \in Seq(Records)
    BY DEF Whole, Run, Chain
  <1>2. Len(a) \in Nat /\ Len(b) \in Nat \ {0} /\ (a = <<>> <=> Len(a) = 0)
    BY <1>1, LenProperties, EmptySeq
  <1>3. /\ c \in Seq(Records) /\ Len(c) = Len(a) + Len(b)
        /\ \A i \in 1..(Len(a) + Len(b)) : c[i] = IF i <= Len(a) THEN a[i] ELSE b[i - Len(a)]
    BY <1>1, ConcatProperties
  <1> HIDE DEF c
  <1>4. ASSUME NEW i \in 1..(Len(c) - 1)
        PROVE  IF c[i].done THEN c[i + 1].obs.t = 0 ELSE c[i + 1].obs = c[i].next
    <2>1. CASE i < Len(a)
      <3>1. c[i] = a[i] /\ c[i + 1] = a[i + 1] /\ i \in 1..(Len(a) - 1)
        BY <1>2, <1>3, <2>1
      <3> QED
        BY <3>1 DEF Whole
    <2>2. CASE i = Len(a)
      <3>1. c[i] = a[Len(a)] /\ c[i + 1] = b[1] /\ a # <<>>
        BY <1>2, <1>3, <2>2
      <3>2. a[Len(a)].done /\ b[1].obs.t = 0
        BY <3>1 DEF Whole, Run
      <3> QED
        BY <3>1, <3>2
    <2>3. CASE i > Len(a)
      <3>1. /\ c[i] = b[i - Len(a)] /\ c[i + 1] = b[i - Len(a) + 1]
            /\ i - Len(a) \in 1..(Len(b) - 1)
        BY <1>2, <1>3, <2>3
      <3>2. ~b[i - Len(a)].done /\ b[i - Len(a) + 1].obs = b[i - Len(a)].next
        BY <3>1 DEF Run, Chain
      <3> QED
        BY <3>1, <3>2
    <2> QED
      BY <1>2, <2>1, <2>2, <2>3
  <1>5. c[1].obs.t = 0
    <2>1. CASE a = <<>>
      <3>1. c[1] = b[1]
        BY <1>2, <1>3, <2>1
      <3> QED
        BY <3>1 DEF Run
    <2>2. CASE a # <<>>
      <3>1. c[1] = a[1]
        BY <1>2, <1>3, <2>2
      <3> QED
        BY <2>2, <3>1 DEF Whole
    <2> QED
      BY <2>1, <2>2
  <1>6. c[Len(c)].done
    <2>1. Len(c) - Len(a) = Len(b) /\ ~(Len(c) <= Len(a)) /\ Len(c) \in 1..(Len(a) + Len(b))
      BY <1>2, <1>3
    <2> QED
      BY <1>3, <2>1
  <1> QED
    BY <1>3, <1>4, <1>5, <1>6 DEF Whole, c

\* The transitions of a chunk are a chain from the frame to the next one.
LEMMA StepsIs ==
  ASSUME env \in Moments, NEW o, o.n \in Nat \ {0}, o.done \in BOOLEAN,
         env' = [env EXCEPT !.t = @ + o.n]
  PROVE  /\ Chain(Steps(o)) /\ Steps(o) # <<>> /\ Steps(o)[1].obs = env
         /\ Steps(o)[Len(Steps(o))].next = env' /\ Steps(o)[Len(Steps(o))].done = o.done
  <1> DEFINE w == Steps(o)
  <1>1. env.t \in Nat /\ env.ep \in Nat
    BY DEF Moments
  <1>2. ASSUME NEW i \in 1..o.n
        PROVE  /\ [env EXCEPT !.t = @ + i - 1] \in Moments /\ [env EXCEPT !.t = @ + i] \in Moments
               /\ (o.done /\ i = o.n) \in BOOLEAN
    BY <1>1 DEF Moments
  <1>3. /\ w \in [1..o.n -> Records]
        /\ \A i \in 1..o.n : /\ w[i].obs = [env EXCEPT !.t = @ + i - 1]
                             /\ w[i].next = [env EXCEPT !.t = @ + i]
                             /\ w[i].done <=> o.done /\ i = o.n
    BY <1>2 DEF Steps, Records
  <1> HIDE DEF w
  <1>4. w \in Seq(Records) /\ Len(w) = o.n
    BY <1>3, IsASeq, LenProperties
  <1>5. ASSUME NEW i \in 1..(Len(w) - 1) PROVE ~w[i].done /\ w[i + 1].obs = w[i].next
    <2>1. i \in 1..o.n /\ i + 1 \in 1..o.n /\ i # o.n
      BY <1>4
    <2>2. PICK j \in 1..o.n : j = i + 1
      BY <2>1
    <2>3. env.t + j - 1 = env.t + i
      BY <1>1, <2>1, <2>2
    <2>4. w[j].obs = [env EXCEPT !.t = @ + i]
      BY <1>3, <2>3
    <2> QED
      BY <1>3, <2>1, <2>2, <2>4
  <1>6. 1 \in 1..o.n /\ o.n \in 1..o.n
    OBVIOUS
  <1>7. w[1].obs = env
    <2>1. w[1].obs = [env EXCEPT !.t = @ + 1 - 1]
      BY <1>3, <1>6
    <2>2. [env EXCEPT !.t = @ + 1 - 1] = env
      BY <1>1 DEF Moments
    <2> QED
      BY <2>1, <2>2
  <1>8. w # <<>> /\ w[Len(w)].next = env' /\ w[Len(w)].done = o.done
    <2>1. w[o.n].next = env' /\ (w[o.n].done <=> o.done) /\ w[o.n].done \in BOOLEAN
      BY <1>3, <1>6 DEF Records
    <2>2. w # <<>>
      BY <1>4, EmptySeq
    <2> QED
      BY <1>4, <2>1, <2>2
  <1> QED
    BY <1>4, <1>5, <1>7, <1>8 DEF Chain, w

-----------------------------------------------------------------------------
(***************************************************************************)
(* The parts of the invariant that a step of one script leaves alone.      *)
(***************************************************************************)
\* No transition is added.
LEMMA FollowedKept ==
  ASSUME Inv, UNCHANGED <<script, streams>>, chunk_step' \in {chunk_step, chunk_step + 1},
         \/ script \notin Trainers \/ pc = "boundary"
         \/ obs' = obs /\ pc' # "boundary"
  PROVE  Followed'
  <1>1. chunk_step \in Nat /\ Followed
    BY DEF Inv, Flags
  <1>2. /\ streams' = [r \in Rings |-> streams'[r]]
        /\ script' # "qoil" => streams'["demo"] = None
        /\ script' \notin Trainers => streams'["online"] = None
    BY <1>1 DEF Followed
  <1>3. \A r \in Rings : streams'[r].seq \in 0..chunk_step'
    BY <1>1 DEF Followed
  <1>4. ASSUME NEW r \in Rings
        PROVE  \/ streams'[r] = None \/ streams'[r].done \/ streams'[r].trunc
               \/ script' = "qoil" /\ streams'[r].seq < chunk_step'
               \/ pc' # "boundary" /\ streams'[r].next = obs'
    <2>1. CASE script \notin Trainers
      <3>1. streams[r] = None
        BY <1>1, <2>1 DEF Followed, Rings, Trainers
      <3> QED
        BY <3>1
    <2>2. CASE streams[r] = None \/ streams[r].done \/ streams[r].trunc
      BY <2>2
    <2>3. CASE script = "qoil" /\ streams[r].seq < chunk_step
      <3>1. streams[r].seq < chunk_step'
        BY <1>1, <2>3 DEF Followed
      <3> QED
        BY <2>3, <3>1
    <2>4. CASE pc # "boundary" /\ streams[r].next = obs
      BY <2>1, <2>4
    <2>5. \/ streams[r] = None \/ streams[r].done \/ streams[r].trunc
          \/ script = "qoil" /\ streams[r].seq < chunk_step
          \/ pc # "boundary" /\ streams[r].next = obs
      BY <1>1, Zenon DEF Followed
    <2> QED
      BY <2>2, <2>3, <2>4, <2>5
  <1> QED
    BY <1>2, <1>3, <1>4 DEF Followed

\* Nothing is collected.
LEMMA CollectedKept ==
  ASSUME Inv, UNCHANGED <<script, ep, kept>>, script # "collect"
  PROVE  Collected'
  BY DEF Inv, Collected, Run, Chain, Whole

\* The flags, when the loop goes from one place to another.
LEMMA FlagsKept ==
  ASSUME Inv, UNCHANGED <<script, waits, chunk_step>>, learning' \in BOOLEAN,
         last_eval' \in {last_eval, chunk_step}, evaluated' \in BOOLEAN,
         pc' \in {"loop", "boundary", "done"}
  PROVE  Flags'
  <1>1. chunk_step \in Nat /\ last_eval \in 0..chunk_step
    BY DEF Inv, Flags
  <1>2. last_eval' \in 0..chunk_step'
    BY <1>1
  <1> QED
    BY <1>2 DEF Inv, Flags

\* An evaluation has just been made.
LEMMA NotDue ==
  ASSUME Inv, chunk_step' = chunk_step, last_eval' = chunk_step
  PROVE  ~EvalDue'
  <1>1. chunk_step \in Nat /\ EvalEvery \in Nat \ {0}
    BY RolloutAssumption DEF Inv, Flags
  <1>2. chunk_step' - last_eval' = 0
    BY <1>1
  <1> QED
    BY <1>1, <1>2 DEF EvalDue

\* A new episode, at most the last but one: the loop holds its first frame.
LEMMA NewEpisode ==
  ASSUME Inv, Reset \/ ResetDeques, pc' = "loop", obs' = env', base' = BaseObs',
         UNCHANGED script, env.ep <= EpisodeBound + 2,
         script = "rlpd" => env.ep <= EpisodeBound + 1,
         script \in Evaluators => env.ep <= EpisodeBound
  PROVE  FramesOf' /\ Acting' /\ Bounded' /\ env' \in Moments /\ env'.t = 0
  <1>1. /\ env' = [ep |-> env.ep + 1, t |-> 0] /\ env' \in Moments
        /\ FramesOf' /\ BaseObs' = HistoryOf(env')
    BY ResetIs DEF Inv
  <1>2. MaxEpisodeSteps \in Nat \ {0} /\ EpisodeBound \in Nat /\ env.ep \in Nat
    BY ChunkEnvAssumption, RolloutAssumption DEF Inv, FramesOf, Moments
  <1>3. env'.t = 0 /\ env'.ep = env.ep + 1
    BY <1>1
  <1>4. Acting'
    <2>1. obs' \in Moments /\ base' = HistoryOf(obs') /\ obs'.t < MaxEpisodeSteps /\ obs' = env'
      BY <1>1, <1>2, <1>3
    <2> QED
      BY <2>1 DEF Acting, HistoryOf
  <1>5. Bounded'
    <2>1. /\ env'.ep \in 1..(EpisodeBound + 4) /\ env'.ep <= EpisodeBound + 3
          /\ script' = "rlpd" => env'.ep <= EpisodeBound + 2
          /\ script' \in Evaluators => env'.ep <= EpisodeBound + 1
      BY <1>2, <1>3
    <2>2. env'.t <= MaxEpisodeSteps + 1 /\ env'.t <= MaxEpisodeSteps
      BY <1>2, <1>3
    <2> QED
      BY <2>1, <2>2 DEF Bounded
  <1> QED
    BY <1>1, <1>3, <1>4, <1>5

\* A rollout that is not stored: the loop keeps its frame.
LEMMA NotStored ==
  ASSUME Inv, NEW t \in 1..MaxEpisodeSteps, RolloutTo(t), UNCHANGED <<script, obs, base>>,
         script \notin Evaluators, pc' = pc \/ pc' = "done",
         pc = "loop" /\ pc' = pc => script = "rlpd" /\ evaluated',
         \/ pc' = "done" /\ env.ep <= EpisodeBound + 3
         \/ pc = "loop" /\ env.ep <= EpisodeBound + 2 /\ ~EvalDue'
         \/ pc = "boundary" /\ script # "rlpd" /\ env.ep <= EpisodeBound + 1 /\ ~EvalDue'
  PROVE  FramesOf' /\ Acting' /\ Bounded' /\ env' \in Moments
  <1>0. MaxEpisodeSteps \in Nat \ {0} /\ EpisodeBound \in Nat /\ env.ep \in Nat
    BY ChunkEnvAssumption, RolloutAssumption DEF Inv, FramesOf, Moments
  <1>1. t \in Nat /\ t <= MaxEpisodeSteps
    BY <1>0
  <1>2. env' = [ep |-> env.ep + 1, t |-> t] /\ env' \in Moments /\ FramesOf'
    BY <1>1, RolloutIs DEF Inv
  <1>3. env'.t = t /\ env'.ep = env.ep + 1
    BY <1>2
  <1>4. Acting'
    <2>1. /\ obs \in Moments /\ base = HistoryOf(obs)
          /\ pc = "loop" => obs.t < MaxEpisodeSteps
      BY DEF Inv, Acting
    <2> QED
      BY <2>1 DEF Acting, HistoryOf
  <1>5. Bounded'
    <2>1. obs.t <= MaxEpisodeSteps + 1 /\ obs.ep \in 1..(EpisodeBound + 4)
      BY DEF Inv, Bounded
    <2>2. env'.t <= MaxEpisodeSteps + 1 /\ env'.t <= MaxEpisodeSteps
      BY <1>0, <1>1, <1>3
    <2>3. env'.ep \in 1..(EpisodeBound + 4)
      BY <1>0, <1>3
    <2>4. pc' = "loop" => env'.ep <= EpisodeBound + 3 /\ ~EvalDue'
      BY <1>0, <1>3
    <2>5. pc' = "boundary" => script' # "rlpd" /\ env'.ep <= EpisodeBound + 2 /\ ~EvalDue'
      BY <1>0, <1>3
    <2> QED
      BY <2>1, <2>2, <2>3, <2>4, <2>5 DEF Bounded
  <1> QED
    BY <1>2, <1>4, <1>5

-----------------------------------------------------------------------------
(***************************************************************************)
(* The steps.                                                              *)
(***************************************************************************)
LEMMA InitInv == Init => Inv
  <1> SUFFICES ASSUME Init PROVE Inv
    OBVIOUS
  <1>1. /\ env = [ep |-> 1, t |-> 0] /\ env \in Moments /\ env.t = 0 /\ env.ep = 1
        /\ fh = <<env>> /\ obs = env /\ base = BaseObs
    BY DEF Init, Moments
  <1>2. /\ FrameHistory \in Nat \ {0} /\ MaxEpisodeSteps \in Nat \ {0}
        /\ PamK \in Nat /\ EpisodeBound \in Nat
    BY ChunkEnvAssumption, RolloutAssumption
  <1>3. FramesOf
    <2>1. fh \in Seq(Moments) /\ Len(fh) = 1 /\ fh[1] = env /\ Back(env, 0) = env
      BY <1>1 DEF Back
    <2>2. Len(fh) \in 1..FrameHistory /\ Len(fh) > env.t
      BY <1>1, <1>2, <2>1
    <2>3. ASSUME NEW i \in 1..Len(fh) PROVE fh[i] = Back(env, Len(fh) - i)
      <3>1. i = 1 /\ Len(fh) - i = 0
        BY <2>1
      <3> QED
        BY <2>1, <3>1
    <2> QED
      BY <1>1, <2>1, <2>2, <2>3 DEF FramesOf, LeadsTo
  <1>4. Flags
    <2>1. script \in Scripts /\ script \in AllScripts /\ chunk_step = 0 /\ last_eval = 0
      BY RolloutAssumption DEF Init
    <2>2. pc = "loop" /\ learning \in BOOLEAN /\ waits \in BOOLEAN /\ evaluated \in BOOLEAN
      BY DEF Init
    <2>3. chunk_step \in Nat /\ last_eval \in 0..chunk_step
      BY <2>1
    <2> QED
      BY <2>1, <2>2, <2>3 DEF Flags
  <1>5. Acting
    BY <1>1, <1>2, <1>3, ShownIs DEF Acting
  <1>6. Bounded
    <2>1. chunk_step = 0 /\ last_eval = 0 /\ pc = "loop"
      BY DEF Init
    <2>2. /\ 0 <= MaxEpisodeSteps + 1 /\ 0 <= MaxEpisodeSteps /\ 1 \in 1..(EpisodeBound + 4)
          /\ 1 <= EpisodeBound + 3 /\ 1 <= EpisodeBound + 2 /\ 1 <= EpisodeBound + 1
      BY <1>2
    <2> QED
      BY <1>1, <2>1, <2>2 DEF Bounded
  <1>7. Gated
    <2>1. vhist = <<>> /\ gate = FALSE
      BY DEF Init
    <2>2. LeadsTo(vhist, env) /\ Len(vhist) = 0
      BY <2>1 DEF LeadsTo
    <2>3. Len(vhist) <= PamK + 1 /\ Len(vhist) <= env.t
      BY <1>1, <1>2, <2>2
    <2>4. gate \in BOOLEAN /\ ~gate
      BY <2>1
    <2> QED
      BY <2>1, <2>2, <2>3, <2>4 DEF Gated
  <1>8. Followed
    <2>1. streams = [r \in Rings |-> None] /\ chunk_step = 0 /\ None.seq = 0
      BY DEF Init, None
    <2> QED
      BY <2>1 DEF Followed, Rings
  <1>9. Collected
    <2>1. ep = <<>> /\ kept = <<>>
      BY DEF Init
    <2>2. <<>> \in Seq(Records) /\ Len(<<>>) = 0
      OBVIOUS
    <2> QED
      BY <1>1, <2>1, <2>2 DEF Collected, Run, Chain, Whole
  <1> QED
    BY <1>3, <1>4, <1>5, <1>6, <1>7, <1>8, <1>9 DEF Inv

\* A pass of a training script.
LEMMA TrainerPass ==
  ASSUME Inv, script \in Trainers, Running, NEW h \in Nat \ {0}, NEW o \in Outcomes(h),
         StepChunk(o), NEW ring \in Rings, AddTransition(o, ring), GoOn(o),
         script # "qoil" => ring = "online", Gated',
         chunk_step' = chunk_step + 1,
         UNCHANGED <<script, learning, waits, last_eval, ep, kept>>
  PROVE  Inv'
  <1>1. pc = "loop" /\ env.ep <= EpisodeBound + 1 /\ script # "collect"
    BY RolloutAssumption DEF Running, Inv, FramesOf, Moments, Trainers
  <1>2. evaluated' \in BOOLEAN
    BY DEF AddTransition
  <1>3. /\ Flags' /\ FramesOf' /\ Acting' /\ Bounded'
        /\ o.done \in BOOLEAN /\ o.trunc \in BOOLEAN
        /\ IF o.done \/ o.trunc THEN pc' = "boundary" ELSE pc' = "loop" /\ obs' = env'
    BY <1>1, <1>2, PassIs
  <1>4. Followed'
    BY <1>1, <1>3, AddIs
  <1>5. Collected'
    BY <1>1, CollectedKept
  <1> QED
    BY <1>3, <1>4, <1>5 DEF Inv

\* The training scripts, pass by pass.
LEMMA TrainerSteps ==
  ASSUME Inv, ResidualStep \/ DsrlStep \/ RlpdStep \/ QoilStep
  PROVE  Inv'
  <1>1. ASSUME NEW h \in Nat \ {0}, NEW o \in Outcomes(h), StepChunk(o), script # "qoil",
               UNCHANGED <<script, vhist, gate>>
        PROVE  Gated'
    <2>1. env' \in Moments
      BY <1>1, ChunkIs DEF Inv
    <2> QED
      BY <1>1, <2>1, NoGate
  <1>2. Horizon \in Nat \ {0} /\ 1 \in Nat \ {0} /\ "online" \in Rings /\ "demo" \in Rings
    BY RolloutAssumption DEF Rings
  <1>3. CASE ResidualStep \/ DsrlStep
    <2>1. /\ script \in Trainers /\ script # "qoil" /\ Running /\ chunk_step' = chunk_step + 1
          /\ UNCHANGED <<script, learning, waits, vhist, gate, last_eval, ep, kept>>
      BY <1>3 DEF ResidualStep, DsrlStep, Trainers
    <2>2. PICK o \in Outcomes(Horizon) : StepChunk(o) /\ AddTransition(o, "online") /\ GoOn(o)
      BY <1>3 DEF ResidualStep, DsrlStep
    <2>3. Gated'
      BY <1>1, <1>2, <2>1, <2>2
    <2> QED
      BY <1>2, <2>1, <2>2, <2>3, TrainerPass
  <1>4. CASE RlpdStep
    <2>1. /\ script \in Trainers /\ script # "qoil" /\ Running /\ chunk_step' = chunk_step + 1
          /\ UNCHANGED <<script, learning, waits, vhist, gate, last_eval, ep, kept>>
      BY <1>4 DEF RlpdStep, Trainers
    <2>2. PICK o \in Outcomes(1) : StepChunk(o) /\ AddTransition(o, "online") /\ GoOn(o)
      BY <1>4 DEF RlpdStep
    <2>3. Gated'
      BY <1>1, <1>2, <2>1, <2>2
    <2> QED
      BY <1>2, <2>1, <2>2, <2>3, TrainerPass
  <1>5. CASE QoilStep
    <2>1. /\ script \in Trainers /\ script = "qoil" /\ Running /\ chunk_step' = chunk_step + 1
          /\ UNCHANGED <<script, learning, waits, last_eval, ep, kept>>
          /\ gate' \in (IF Stagnating(vhist') THEN BOOLEAN ELSE {FALSE})
      BY <1>5 DEF QoilStep, Trainers
    <2>2. PICK o \in Outcomes(Horizon) :
            /\ StepChunk(o)
            /\ AddTransition(o, IF chunk_step >= RandomChunks /\ gate THEN "demo" ELSE "online")
            /\ GoOn(o)
            /\ LET v == vhist \o [i \in 1..o.n |-> [env EXCEPT !.t = @ + i]]
               IN  vhist' = SubSeq(v, 1 + (IF Len(v) > PamK + 1 THEN Len(v) - PamK - 1 ELSE 0),
                                   Len(v))
      BY <1>5 DEF QoilStep
    <2>3. o.n \in Nat \ {0} /\ env' = [env EXCEPT !.t = @ + o.n]
      BY <1>2, <2>2, ChunkIs DEF Inv
    <2>4. Gated'
      BY <2>1, <2>2, <2>3, WindowIs
    <2>5. PICK ring \in Rings : AddTransition(o, ring)
      BY <1>2, <2>2
    <2> QED
      BY <1>2, <2>1, <2>2, <2>4, <2>5, TrainerPass
  <1> QED
    BY <1>3, <1>4, <1>5

\* The end of an episode, the evaluations and the end of a training script.
LEMMA EpisodeEnds ==
  ASSUME Inv, Boundary \/ Evaluate \/ RlpdReset \/ RlpdEvaluate
  PROVE  Inv'
  <1>0. /\ Flags /\ Bounded /\ EpisodeBound \in Nat /\ env.ep \in Nat /\ env.ep >= 1
        /\ evaluated \in BOOLEAN /\ learning \in BOOLEAN
    BY RolloutAssumption DEF Inv, Bounded, Flags, FramesOf, Moments
  <1>1. CASE Boundary
    <2>1. /\ pc = "boundary" /\ script \in {"residual", "dsrl", "qoil"} /\ Reset /\ obs' = env'
          /\ base' = BaseObs' /\ vhist' = <<>> /\ gate' = FALSE /\ pc' = "loop"
          /\ UNCHANGED <<script, learning, waits, chunk_step, last_eval, ep, kept, history>>
      BY <1>1 DEF Boundary
    <2>2. script # "rlpd" /\ script \notin Evaluators /\ script # "collect"
      BY <2>1 DEF Evaluators
    <2>3. env.ep <= EpisodeBound + 2
      BY <1>0, <2>1 DEF Bounded
    <2>4. FramesOf' /\ Acting' /\ Bounded' /\ env' \in Moments
      BY <2>1, <2>2, <2>3, NewEpisode
    <2>5. Gated'
      BY <2>1, <2>4, ClearGate
    <2>6. Flags'
      BY <1>0, <2>1, FlagsKept DEF history
    <2>7. Followed'
      BY <2>1, FollowedKept DEF history
    <2>8. Collected'
      BY <2>1, <2>2, CollectedKept
    <2> QED
      BY <2>4, <2>5, <2>6, <2>7, <2>8 DEF Inv
  <1>2. CASE Evaluate
    <2>1. /\ pc = "boundary" /\ pc' = pc /\ script \in {"residual", "dsrl", "qoil"} /\ EvalDue
          /\ last_eval' = chunk_step
          /\ UNCHANGED <<script, learning, waits, obs, base, gate, chunk_step, ep, kept, history>>
      BY <1>2 DEF Evaluate
    <2>2. PICK t \in 1..MaxEpisodeSteps : RolloutTo(t)
      BY <1>2 DEF Evaluate
    <2>3. script # "rlpd" /\ script \notin Evaluators /\ script # "collect"
      BY <2>1 DEF Evaluators
    <2>4. env.ep <= EpisodeBound + 1
      BY <1>0, <2>1 DEF Bounded
    <2>5. ~EvalDue'
      BY <2>1, NotDue
    <2>6. FramesOf' /\ Acting' /\ Bounded' /\ env' \in Moments
      BY <2>1, <2>2, <2>3, <2>4, <2>5, NotStored
    <2>7. vhist' = <<>>
      <3>1. vhist' = IF script = "qoil" THEN <<>> ELSE vhist
        BY <1>2 DEF Evaluate
      <3> QED
        BY <3>1 DEF Inv, Gated
    <2>8. Gated'
      BY <2>1, <2>6, <2>7, ClearGate
    <2>9. Flags'
      BY <1>0, <2>1, FlagsKept DEF history
    <2>10. Followed'
      BY <2>1, FollowedKept DEF history
    <2>11. Collected'
      BY <2>1, <2>3, CollectedKept
    <2> QED
      BY <2>6, <2>8, <2>9, <2>10, <2>11 DEF Inv
  <1>3. CASE RlpdReset
    <2>1. /\ pc = "boundary" /\ script = "rlpd" /\ Reset /\ obs' = env'
          /\ base' = BaseObs' /\ pc' = "loop"
          /\ UNCHANGED <<script, learning, waits, vhist, gate, chunk_step, last_eval, ep, kept,
                         history>>
      BY <1>3 DEF RlpdReset
    <2>2. script # "qoil" /\ script \notin Evaluators /\ script # "collect"
      BY <2>1 DEF Evaluators
    <2>3. env.ep <= EpisodeBound + 1 /\ env.ep <= EpisodeBound + 2
      BY <1>0, <2>1 DEF Bounded
    <2>4. FramesOf' /\ Acting' /\ Bounded' /\ env' \in Moments
      BY <2>1, <2>2, <2>3, NewEpisode
    <2>5. Gated'
      BY <2>1, <2>2, <2>4, NoGate
    <2>6. Flags'
      BY <1>0, <2>1, FlagsKept DEF history
    <2>7. Followed'
      BY <2>1, FollowedKept DEF history
    <2>8. Collected'
      BY <2>1, <2>2, CollectedKept
    <2> QED
      BY <2>4, <2>5, <2>6, <2>7, <2>8 DEF Inv
  <1>4. CASE RlpdEvaluate
    <2>1. /\ pc = "loop" /\ pc' = pc /\ script = "rlpd" /\ EvalDue
          /\ last_eval' = chunk_step /\ evaluated' = TRUE
          /\ UNCHANGED <<script, learning, waits, obs, base, vhist, gate, chunk_step, ep, kept,
                         streams>>
      BY <1>4 DEF RlpdEvaluate
    <2>2. PICK t \in 1..MaxEpisodeSteps : RolloutTo(t)
      BY <1>4 DEF RlpdEvaluate
    <2>3. script # "qoil" /\ script \notin Evaluators /\ script # "collect"
      BY <2>1 DEF Evaluators
    <2>4. env.ep <= EpisodeBound + 2
      BY <1>0, <2>1 DEF Bounded
    <2>5. ~EvalDue'
      BY <2>1, NotDue
    <2>6. FramesOf' /\ Acting' /\ Bounded' /\ env' \in Moments
      BY <2>1, <2>2, <2>3, <2>4, <2>5, NotStored
    <2>8. Gated'
      BY <2>1, <2>3, <2>6, NoGate
    <2>9. Flags'
      BY <1>0, <2>1, FlagsKept
    <2>10. Followed'
      BY <2>1, FollowedKept
    <2>11. Collected'
      BY <2>1, <2>3, CollectedKept
    <2> QED
      BY <2>6, <2>8, <2>9, <2>10, <2>11 DEF Inv
  <1> QED
    BY <1>1, <1>2, <1>3, <1>4

\* The end of the learner, and of the script after it.
LEMMA Endings ==
  ASSUME Inv, LearnerEnds \/ Leave
  PROVE  Inv'
  <1>0. /\ Flags /\ Bounded /\ EpisodeBound \in Nat /\ env.ep \in Nat /\ evaluated \in BOOLEAN
        /\ learning \in BOOLEAN /\ env \in Moments
    BY RolloutAssumption DEF Inv, Bounded, Flags, FramesOf, Moments
  <1>1. CASE LearnerEnds
    <2>1. /\ learning' = FALSE
          /\ UNCHANGED <<script, pc, waits, env, fh, obs, base, vhist, gate, chunk_step, last_eval,
                         ep, kept, last, streams, evaluated>>
      BY <1>1 DEF LearnerEnds, envVars, loopVars, history
    <2>2. Flags'
      BY <1>0, <2>1, FlagsKept DEF Flags
    <2>3. FramesOf'
      BY <2>1 DEF Inv, FramesOf, LeadsTo, Back
    <2>4. Acting'
      BY <2>1 DEF Inv, Acting, HistoryOf
    <2>5. Bounded'
      BY <2>1 DEF Inv, Bounded, EvalDue
    <2>6. Gated'
      BY <2>1 DEF Inv, Gated, LeadsTo, Back
    <2>7. Followed'
      <3>1. Followed
        BY DEF Inv
      <3> QED
        BY <2>1, <3>1 DEF Followed
    <2>8. Collected'
      BY <2>1 DEF Inv, Collected, Run, Chain, Whole
    <2> QED
      BY <2>2, <2>3, <2>4, <2>5, <2>6, <2>7, <2>8 DEF Inv
  <1>2. CASE Leave
    <2>1. /\ pc = "loop" /\ pc' = "done" /\ script \in Trainers
          /\ UNCHANGED <<script, learning, waits, obs, base, vhist, gate, chunk_step, last_eval,
                         ep, kept, last, streams, evaluated>>
      BY <1>2 DEF Leave, loopVars, history
    <2>2. script \notin Evaluators /\ script # "collect"
      BY <2>1 DEF Trainers, Evaluators
    <2>3. env.ep <= EpisodeBound + 3
      BY <1>0, <2>1 DEF Bounded
    <2>4. Flags'
      BY <1>0, <2>1, FlagsKept
    <2>5. Followed'
      BY <2>1, FollowedKept
    <2>6. Collected'
      BY <2>1, <2>2, CollectedKept
    <2>7. FramesOf' /\ Acting' /\ Bounded' /\ Gated'
      <3>1. CASE UNCHANGED envVars
        <4>1. env' = env /\ fh' = fh
          BY <3>1 DEF envVars
        <4>2. FramesOf'
          BY <4>1 DEF Inv, FramesOf, LeadsTo, Back
        <4>3. Acting'
          BY <2>1 DEF Inv, Acting, HistoryOf
        <4>4. Bounded'
          BY <2>1, <4>1 DEF Inv, Bounded
        <4>5. Gated'
          BY <2>1, <4>1 DEF Inv, Gated, LeadsTo, Back
        <4> QED
          BY <4>2, <4>3, <4>4, <4>5
      <3>2. CASE script \in {"residual", "dsrl"} /\ \E t \in 1..MaxEpisodeSteps : RolloutTo(t)
        <4>1. PICK t \in 1..MaxEpisodeSteps : RolloutTo(t)
          BY <3>2
        <4>2. FramesOf' /\ Acting' /\ Bounded' /\ env' \in Moments
          BY <2>1, <2>2, <2>3, <4>1, NotStored
        <4>3. Gated'
          BY <2>1, <3>2, <4>2, NoGate
        <4> QED
          BY <4>2, <4>3
      <3> QED
        BY <1>2, <3>1, <3>2 DEF Leave
    <2> QED
      BY <2>4, <2>5, <2>6, <2>7 DEF Inv
  <1> QED
    BY <1>1, <1>2

\* The evaluators.
LEMMA EvaluatorSteps ==
  ASSUME Inv, EvalBaseStep \/ EvalDsrlStep \/ EvalFlowStep \/ EvalNext
  PROVE  Inv'
  <1>0. /\ Flags /\ Bounded /\ EpisodeBound \in Nat /\ env.ep \in Nat /\ evaluated \in BOOLEAN
        /\ learning \in BOOLEAN /\ env \in Moments /\ Horizon \in Nat \ {0}
    BY RolloutAssumption DEF Inv, Bounded, Flags, FramesOf, Moments
  <1>1. CASE EvalBaseStep \/ EvalDsrlStep \/ EvalFlowStep
    <2>1. /\ pc = "loop" /\ script \in Evaluators /\ script # "qoil" /\ script \notin Trainers
          /\ script # "collect" /\ chunk_step' = chunk_step + 1
          /\ UNCHANGED <<script, learning, waits, vhist, gate, last_eval, ep, kept, streams,
                         evaluated>>
      BY <1>1 DEF EvalBaseStep, EvalDsrlStep, EvalFlowStep, unchangedByEvaluator, Evaluators,
         Trainers
    <2>2. PICK h \in Nat \ {0} : \E o \in Outcomes(h) : StepChunk(o) /\ GoOn(o)
      <3>1. CASE EvalBaseStep \/ EvalDsrlStep
        BY <1>0, <3>1 DEF EvalBaseStep, EvalDsrlStep
      <3>2. CASE EvalFlowStep
        BY <1>0, <3>2 DEF EvalFlowStep
      <3> QED
        BY <1>1, <3>1, <3>2
    <2>3. PICK o \in Outcomes(h) : StepChunk(o) /\ GoOn(o)
      BY <2>2
    <2>4. env.ep <= EpisodeBound + 1
      BY <1>0, <2>1 DEF Bounded
    <2>5. Flags' /\ FramesOf' /\ Acting' /\ Bounded'
      BY <1>0, <2>1, <2>3, <2>4, PassIs
    <2>6. env' \in Moments
      BY <2>3, ChunkIs DEF Inv
    <2>7. Gated'
      BY <2>1, <2>6, NoGate
    <2>8. Followed'
      BY <2>1, FollowedKept
    <2>9. Collected'
      BY <2>1, CollectedKept
    <2> QED
      BY <2>5, <2>7, <2>8, <2>9 DEF Inv
  <1>2. CASE EvalNext
    <2>1. /\ pc = "boundary" /\ script \in Evaluators /\ script # "qoil" /\ script # "rlpd"
          /\ script # "collect"
          /\ UNCHANGED <<script, learning, waits, vhist, gate, last_eval, ep, kept, streams,
                         evaluated, chunk_step>>
      BY <1>2 DEF EvalNext, unchangedByEvaluator, Evaluators
    <2>2. Followed'
      BY <2>1, FollowedKept
    <2>3. Collected'
      BY <2>1, CollectedKept
    <2>4. CASE env.ep < EpisodeBound
      <3>1. /\ pc' = "loop" /\ (Reset \/ ResetDeques) /\ obs' = env' /\ base' = BaseObs'
        BY <1>2, <2>4 DEF EvalNext
      <3>2. env.ep <= EpisodeBound /\ env.ep <= EpisodeBound + 2
        BY <1>0, <2>4
      <3>3. FramesOf' /\ Acting' /\ Bounded' /\ env' \in Moments
        BY <2>1, <3>1, <3>2, NewEpisode
      <3>4. Gated'
        BY <2>1, <3>3, NoGate
      <3>5. Flags'
        BY <1>0, <2>1, <3>1, FlagsKept
      <3> QED
        BY <2>2, <2>3, <3>3, <3>4, <3>5 DEF Inv
    <2>5. CASE ~(env.ep < EpisodeBound)
      <3>1. pc' = "done" /\ UNCHANGED <<env, fh, obs, base>>
        BY <1>2, <2>5 DEF EvalNext, envVars
      <3>2. FramesOf'
        BY <3>1 DEF Inv, FramesOf, LeadsTo, Back
      <3>3. Acting'
        BY <2>1, <3>1 DEF Inv, Acting, HistoryOf
      <3>4. Bounded'
        BY <2>1, <3>1 DEF Inv, Bounded
      <3>5. Gated'
        BY <1>0, <2>1, <3>1, NoGate
      <3>6. Flags'
        BY <1>0, <2>1, <3>1, FlagsKept
      <3> QED
        BY <2>2, <2>3, <3>2, <3>3, <3>4, <3>5, <3>6 DEF Inv
    <2> QED
      BY <2>4, <2>5
  <1> QED
    BY <1>1, <1>2

\* The collection of demonstrations.
LEMMA CollectorSteps ==
  ASSUME Inv, CollectStep \/ CollectNext
  PROVE  Inv'
  <1>0. /\ Flags /\ Bounded /\ EpisodeBound \in Nat /\ env.ep \in Nat /\ evaluated \in BOOLEAN
        /\ learning \in BOOLEAN /\ env \in Moments /\ Horizon \in Nat \ {0}
        /\ Run(ep) /\ Whole(kept)
    BY RolloutAssumption DEF Inv, Bounded, Flags, FramesOf, Moments, Collected
  <1>1. CASE CollectStep
    <2>1. /\ pc = "loop" /\ script = "collect" /\ script # "qoil" /\ script \notin Trainers
          /\ chunk_step' = chunk_step + 1 /\ env.ep <= EpisodeBound
          /\ UNCHANGED <<script, learning, waits, vhist, gate, last_eval, kept, streams,
                         evaluated>>
      BY <1>1 DEF CollectStep, Trainers
    <2>2. PICK o \in Outcomes(Horizon) : StepChunk(o) /\ GoOn(o) /\ ep' = ep \o Steps(o)
      BY <1>1 DEF CollectStep
    <2>3. env.ep <= EpisodeBound + 1
      BY <1>0, <2>1
    <2>4. /\ Flags' /\ FramesOf' /\ Acting' /\ Bounded'
          /\ o.done \in BOOLEAN /\ o.trunc \in BOOLEAN
          /\ IF o.done \/ o.trunc THEN pc' = "boundary" ELSE pc' = "loop" /\ obs' = env'
      BY <1>0, <2>1, <2>2, <2>3, PassIs
    <2>5. o.n \in Nat \ {0} /\ env' = [env EXCEPT !.t = @ + o.n] /\ env' \in Moments
      BY <1>0, <2>2, ChunkIs DEF Inv
    <2>6. Gated'
      BY <2>1, <2>5, NoGate
    <2>7. Followed'
      BY <2>1, FollowedKept
    <2>8. Collected'
      <3> DEFINE w == Steps(o)
      <3>1. /\ Chain(w) /\ w # <<>> /\ w[1].obs = env
            /\ w[Len(w)].next = env' /\ w[Len(w)].done = o.done
        BY <1>0, <2>4, <2>5, StepsIs
      <3> HIDE DEF w
      <3>2. IF ep = <<>> THEN env.t = 0 ELSE ~ep[Len(ep)].done /\ ep[Len(ep)].next = env
        BY <2>1 DEF Inv, Collected
      <3>3. IF ep = <<>> THEN w[1].obs.t = 0
            ELSE ~ep[Len(ep)].done /\ w[1].obs = ep[Len(ep)].next
        BY <3>1, <3>2
      <3>4. Run(ep \o w) /\ ep \o w # <<>> /\ (ep \o w)[Len(ep \o w)] = w[Len(w)]
        BY <1>0, <3>1, <3>3, ChainGoesOn
      <3>5. ep' = ep \o w
        BY <2>2 DEF w
      <3>6. Run(ep') /\ ep' # <<>> /\ ep'[Len(ep')].next = env' /\ ep'[Len(ep')].done = o.done
        BY <3>1, <3>4, <3>5
      <3>7. pc' = "loop" => ~ep'[Len(ep')].done
        BY <2>4, <3>6
      <3>8. Whole(kept')
        BY <1>0, <2>1
      <3> QED
        BY <3>6, <3>7, <3>8 DEF Collected, Run, Chain, Whole
    <2> QED
      BY <2>4, <2>6, <2>7, <2>8 DEF Inv
  <1>2. CASE CollectNext
    <2>1. /\ pc = "boundary" /\ script = "collect" /\ script \notin Trainers
          /\ script \notin Evaluators /\ kept' = Kept /\ ep' = <<>>
          /\ UNCHANGED <<script, learning, waits, vhist, gate, chunk_step, last_eval, history>>
      BY <1>2 DEF CollectNext, Trainers, Evaluators
    <2>2. Followed'
      BY <2>1, FollowedKept DEF history
    <2>3. Whole(Kept)
      <3>1. CASE Successes(ep) > 0
        <4>1. PICK i \in DOMAIN ep : ep[i].done
          <5>1. {i \in DOMAIN ep : ep[i].done} # {}
            BY <3>1, FS_EmptySet DEF Successes
          <5> QED
            BY <5>1
        <4>2. ep \in Seq(Records) /\ Len(ep) \in Nat /\ i \in 1..Len(ep)
          BY <1>0, LenProperties DEF Run, Chain
        <4>3. i = Len(ep) /\ ep # <<>>
          BY <1>0, <4>1, <4>2 DEF Run, Chain
        <4>4. Whole(kept \o ep)
          BY <1>0, <4>1, <4>3, WholeGoesOn
        <4> QED
          BY <3>1, <4>4 DEF Kept
      <3>2. CASE ~(Successes(ep) > 0)
        BY <1>0, <3>2 DEF Kept
      <3> QED
        BY <3>1, <3>2
    <2>4. Whole(kept') /\ Run(ep')
      <3>1. Whole(kept')
        BY <2>1, <2>3
      <3>2. <<>> \in Seq(Records) /\ Len(<<>>) = 0
        OBVIOUS
      <3> QED
        BY <2>1, <3>1, <3>2 DEF Run, Chain
    <2>5. CASE pc' = "loop" /\ ResetDeques /\ obs' = env' /\ base' = BaseObs'
      <3>1. env.ep <= EpisodeBound + 2
        BY <1>0, <2>1 DEF Bounded
      <3>2. FramesOf' /\ Acting' /\ Bounded' /\ env' \in Moments /\ env'.t = 0
        BY <2>1, <2>5, <3>1, NewEpisode
      <3>3. Gated'
        BY <2>1, <3>2, NoGate
      <3>4. Flags'
        BY <1>0, <2>1, <2>5, FlagsKept DEF history
      <3>5. Collected'
        BY <2>1, <2>4, <3>2 DEF Collected, Run, Chain, Whole
      <3> QED
        BY <2>2, <3>2, <3>3, <3>4, <3>5 DEF Inv
    <2>6. CASE pc' = "done" /\ UNCHANGED <<envVars, obs, base>>
      <3>1. UNCHANGED <<env, fh, obs, base>>
        BY <2>6 DEF envVars
      <3>2. FramesOf'
        BY <3>1 DEF Inv, FramesOf, LeadsTo, Back
      <3>3. Acting'
        BY <2>6, <3>1 DEF Inv, Acting, HistoryOf
      <3>4. Bounded'
        BY <2>1, <2>6, <3>1 DEF Inv, Bounded
      <3>5. Gated'
        BY <1>0, <2>1, <3>1, NoGate
      <3>6. Flags'
        BY <1>0, <2>1, <2>6, FlagsKept DEF history
      <3>7. Collected'
        BY <2>1, <2>4, <2>6 DEF Collected, Run, Chain, Whole
      <3> QED
        BY <2>2, <3>2, <3>3, <3>4, <3>5, <3>6, <3>7 DEF Inv
    <2> QED
      BY <1>2, <2>5, <2>6 DEF CollectNext
  <1> QED
    BY <1>1, <1>2

\* A step that changes nothing.
LEMMA StutterInv ==
  ASSUME Inv, UNCHANGED vars
  PROVE  Inv'
  <1>1. UNCHANGED <<script, pc, learning, waits, env, fh, obs, base, vhist, gate, chunk_step,
                    last_eval, ep, kept, last, streams, evaluated>>
    BY DEF vars, loopVars, history
  <1>2. Flags' /\ Acting' /\ Bounded'
    BY <1>1 DEF Inv, Flags, Acting, HistoryOf, Bounded, EvalDue
  <1>3. FramesOf' /\ Gated'
    BY <1>1 DEF Inv, FramesOf, Gated, LeadsTo, Back
  <1>4. Followed'
    BY <1>1 DEF Inv, Followed
  <1>5. Collected'
    BY <1>1 DEF Inv, Collected, Run, Chain, Whole
  <1> QED
    BY <1>2, <1>3, <1>4, <1>5 DEF Inv

\* The invariant is inductive.
LEMMA InvKept == Inv /\ [Next]_vars => Inv'
  BY TrainerSteps, EpisodeEnds, Endings, EvaluatorSteps, CollectorSteps, StutterInv
  DEF Next, ScriptStep

\* It holds throughout.
LEMMA InvHolds == Spec => []Inv
  BY InitInv, InvKept, PTL DEF Spec

-----------------------------------------------------------------------------
(***************************************************************************)
(* The types: an episode is bounded by the bound on episodes, a frame by   *)
(* the step limit, which an evaluation in mid-episode lets it pass by one. *)
(***************************************************************************)
THEOREM TypeCorrect == Spec => []TypeOK
  <1>1. Inv => TypeOK
    <2> SUFFICES ASSUME Inv PROVE TypeOK
      OBVIOUS
    <2>0. /\ MaxEpisodeSteps \in Nat \ {0} /\ EpisodeBound \in Nat /\ FrameHistory \in Nat \ {0}
          /\ PamK \in Nat \ {0}
      BY ChunkEnvAssumption, RolloutAssumption
    <2>1. ASSUME NEW f \in Moments, f.ep \in 1..(EpisodeBound + 4), f.t <= MaxEpisodeSteps + 1,
                 NEW k \in Nat
          PROVE  f \in Frames /\ Back(f, k) \in Frames
      <3>1. /\ f.ep \in 1..(2 * EpisodeBound + 4) /\ f.t \in 0..(2 * MaxEpisodeSteps)
            /\ IF f.t >= k THEN f.t - k \in 0..(2 * MaxEpisodeSteps)
               ELSE 0 \in 0..(2 * MaxEpisodeSteps)
        BY <2>0, <2>1 DEF Moments
      <3>2. Back(f, k) = [ep |-> f.ep, t |-> IF f.t >= k THEN f.t - k ELSE 0]
        BY DEF Moments, Back
      <3>3. f = [ep |-> f.ep, t |-> f.t]
        BY DEF Moments
      <3> QED
        BY <3>1, <3>2, <3>3 DEF Frames
    <2>2. /\ env \in Moments /\ env.ep \in 1..(EpisodeBound + 4) /\ env.t <= MaxEpisodeSteps + 1
          /\ obs \in Moments /\ obs.ep \in 1..(EpisodeBound + 4) /\ obs.t <= MaxEpisodeSteps + 1
      BY DEF Inv, FramesOf, Acting, Bounded
    <2>3. env \in Frames /\ obs \in Frames
      <3>1. 0 \in Nat
        OBVIOUS
      <3> QED
        BY <2>1, <2>2, <3>1
    <2>4. ASSUME NEW s, LeadsTo(s, env) PROVE s \in Seq(Frames) /\ Len(s) \in Nat
      <3>1. s \in Seq(Moments) /\ Len(s) \in Nat
        BY <2>4, LenProperties DEF LeadsTo
      <3>2. ASSUME NEW i \in 1..Len(s) PROVE s[i] \in Frames
        <4>1. s[i] = Back(env, Len(s) - i) /\ Len(s) - i \in Nat
          BY <2>4, <3>1 DEF LeadsTo
        <4> QED
          BY <2>1, <2>2, <4>1
      <3>3. s \in [1..Len(s) -> Frames]
        BY <3>1, <3>2, LenProperties
      <3> QED
        BY <3>1, <3>3, IsASeq
    <2>5. fh \in Seq(Frames) /\ Len(fh) \in 1..FrameHistory
      BY <2>4 DEF Inv, FramesOf
    <2>6. vhist \in Seq(Frames) /\ Len(vhist) <= PamK + 1
      BY <2>4 DEF Inv, Gated
    <2>7. base \in [1..FrameHistory -> Frames]
      <3>1. ASSUME NEW i \in 1..FrameHistory
            PROVE  [obs EXCEPT !.t = IF @ + i >= FrameHistory THEN @ + i - FrameHistory ELSE 0]
                     \in Frames
        <4>1. FrameHistory - i \in Nat
          BY <2>0
        <4>2. Back(obs, FrameHistory - i)
                = [obs EXCEPT !.t = IF @ + i >= FrameHistory THEN @ + i - FrameHistory ELSE 0]
          BY <2>0, <2>2 DEF Back, Moments
        <4> QED
          BY <2>1, <2>2, <4>1, <4>2
      <3>2. base = HistoryOf(obs)
        BY DEF Inv, Acting
      <3> QED
        BY <3>1, <3>2 DEF HistoryOf
    <2>8. /\ script \in Scripts /\ pc \in {"loop", "boundary", "done"}
          /\ learning \in BOOLEAN /\ waits \in BOOLEAN /\ gate \in BOOLEAN
          /\ chunk_step \in Nat /\ last_eval \in 0..chunk_step
      BY DEF Inv, Flags, Gated
    <2> QED
      BY <2>3, <2>5, <2>6, <2>7, <2>8 DEF TypeOK
  <1> QED
    BY <1>1, InvHolds, PTL

-----------------------------------------------------------------------------
(***************************************************************************)
(* What a transition is made of: the step that makes it, in any script.    *)
(***************************************************************************)
Made ==
  /\ pc = "loop"
  /\ \E h \in Nat \ {0} : /\ h = Horizon \/ script \in {"rlpd", "eval_flow"}
                          /\ \E o \in Outcomes(h) : StepChunk(o) /\ Passed(o)

\* Every other step leaves the last transition alone.
LEMMA MadeOrNot ==
  ASSUME [Next]_vars
  PROVE  script' = script /\ (last' = last \/ Made)
  <1>0. Horizon \in Nat \ {0} /\ 1 \in Nat \ {0}
    BY RolloutAssumption
  <1>1. CASE ResidualStep \/ DsrlStep \/ QoilStep
    BY <1>0, <1>1 DEF ResidualStep, DsrlStep, QoilStep, Running, Made, AddTransition
  <1>2. CASE RlpdStep
    BY <1>0, <1>2 DEF RlpdStep, Running, Made, AddTransition
  <1>3. CASE EvalBaseStep \/ EvalDsrlStep \/ CollectStep
    BY <1>0, <1>3 DEF EvalBaseStep, EvalDsrlStep, CollectStep, unchangedByEvaluator, Made
  <1>4. CASE EvalFlowStep
    <2>1. PICK h \in 1..Horizon : \E o \in Outcomes(h) : StepChunk(o) /\ Passed(o)
      BY <1>4 DEF EvalFlowStep
    <2>2. h \in Nat \ {0}
      BY <1>0
    <2> QED
      BY <1>4, <2>1, <2>2 DEF EvalFlowStep, unchangedByEvaluator, Made
  <1>5. CASE \/ Boundary \/ Evaluate \/ RlpdReset \/ RlpdEvaluate \/ Leave \/ EvalNext
             \/ CollectNext \/ LearnerEnds \/ UNCHANGED vars
    BY <1>5 DEF Boundary, Evaluate, RlpdReset, RlpdEvaluate, Leave, EvalNext, CollectNext,
       LearnerEnds, unchangedByEvaluator, vars, history
  <1> QED
    BY <1>1, <1>2, <1>3, <1>4, <1>5 DEF Next, ScriptStep

(***************************************************************************)
(* A pass starts at the frame the policy was shown and ends at the frame   *)
(* its steps later, but after an evaluation of train_rlpd.py.              *)
(***************************************************************************)
THEOREM TransitionRealCorrect == Spec => []TransitionReal
  <1>1. Init => TransitionReal
    BY DEF Init, TransitionReal
  <1>2. Inv /\ TransitionReal /\ [Next]_vars => TransitionReal'
    <2> SUFFICES ASSUME Inv, TransitionReal, [Next]_vars PROVE TransitionReal'
      OBVIOUS
    <2>1. script' = script
      BY MadeOrNot
    <2>2. CASE last' = last
      BY <2>1, <2>2 DEF TransitionReal
    <2>3. CASE Made
      <3>1. PICK h \in Nat \ {0} : /\ h = Horizon \/ script \in {"rlpd", "eval_flow"}
                                   /\ \E o \in Outcomes(h) : StepChunk(o) /\ Passed(o)
        BY <2>3 DEF Made
      <3>2. PICK o \in Outcomes(h) : StepChunk(o) /\ Passed(o)
        BY <3>1
      <3>3. /\ o.n \in 1..h /\ env' = [env EXCEPT !.t = @ + o.n] /\ env'.t = env.t + o.n
            /\ o.n < h => o.done \/ o.trunc
            /\ o.n = 1 \/ env'.t <= MaxEpisodeSteps
        BY <3>2, ChunkIs DEF Inv
      <3>4. /\ last'.obs = obs /\ last'.at = env /\ last'.next = env' /\ last'.n = o.n
            /\ last'.done = o.done /\ last'.trunc = o.trunc /\ last'.evaluated = evaluated
        BY <3>2 DEF Passed
      <3>5. obs.t < MaxEpisodeSteps /\ (obs = env \/ (script = "rlpd" /\ evaluated))
        BY <2>3 DEF Made, Inv, Acting
      <3>6. MaxEpisodeSteps \in Nat /\ env.t \in Nat
        BY ChunkEnvAssumption DEF Inv, FramesOf, Moments
      <3>7. env = obs => env'.t <= MaxEpisodeSteps
        BY <3>3, <3>5, <3>6
      <3>8. o.done \/ o.trunc \/ o.n = Horizon \/ script \in {"rlpd", "eval_flow"}
        BY <3>1, <3>3
      <3> QED
        BY <2>1, <3>3, <3>4, <3>5, <3>7, <3>8 DEF TransitionReal
    <2> QED
      BY <2>2, <2>3, MadeOrNot
  <1> QED
    BY <1>1, <1>2, InvHolds, PTL DEF Spec

(***************************************************************************)
(* Either end of a transition comes with the frames that lead up to it.    *)
(***************************************************************************)
THEOREM BaseFromOwnHistoryCorrect == Spec => []BaseFromOwnHistory
  <1>1. Init => BaseFromOwnHistory
    BY DEF Init, BaseFromOwnHistory
  <1>2. Inv /\ BaseFromOwnHistory /\ [Next]_vars => BaseFromOwnHistory'
    <2> SUFFICES ASSUME Inv, BaseFromOwnHistory, [Next]_vars PROVE BaseFromOwnHistory'
      OBVIOUS
    <2>1. CASE last' = last
      BY <2>1, MadeOrNot DEF BaseFromOwnHistory, HistoryOf
    <2>2. CASE Made
      <3>1. PICK h \in Nat \ {0} : \E o \in Outcomes(h) : StepChunk(o) /\ Passed(o)
        BY <2>2 DEF Made
      <3>2. PICK o \in Outcomes(h) : StepChunk(o) /\ Passed(o)
        BY <3>1
      <3>3. BaseObs' = HistoryOf(env') /\ base = HistoryOf(obs)
        BY <3>2, ChunkIs DEF Inv, Acting
      <3>4. /\ last'.obs = obs /\ last'.next = env' /\ last'.base = base
            /\ last'.nextBase = BaseObs'
        BY <3>2 DEF Passed
      <3> QED
        BY <3>3, <3>4 DEF BaseFromOwnHistory, HistoryOf
    <2> QED
      BY <2>1, <2>2, MadeOrNot
  <1> QED
    BY <1>1, <1>2, InvHolds, PTL DEF Spec

(***************************************************************************)
(* The gate acts on the last values of the running episode.                *)
(***************************************************************************)
THEOREM GateFreshCorrect == Spec => []GateFresh
  <1>1. Inv => GateFresh
    <2> SUFFICES ASSUME Inv, gate, pc = "loop"
                 PROVE  vhist = [i \in 1..(PamK + 1) |-> [obs EXCEPT !.t = @ + i - PamK - 1]]
      BY DEF GateFresh
    <2>1. /\ LeadsTo(vhist, env) /\ Len(vhist) = PamK + 1 /\ Len(vhist) <= env.t
          /\ script = "qoil"
      BY DEF Inv, Gated
    <2>2. obs = env /\ env \in Moments /\ env.t \in Nat /\ PamK \in Nat
      BY <2>1, RolloutAssumption DEF Inv, Acting, FramesOf, Moments
    <2>3. vhist \in [1..(PamK + 1) -> Moments]
      BY <2>1, LenProperties DEF LeadsTo
    <2>4. ASSUME NEW i \in 1..(PamK + 1) PROVE vhist[i] = [obs EXCEPT !.t = @ + i - PamK - 1]
      <3>1. vhist[i] = Back(env, (PamK + 1) - i)
        <4>1. i \in 1..Len(vhist)
          BY <2>1
        <4>2. vhist[i] = Back(env, Len(vhist) - i)
          BY <2>1, <4>1 DEF LeadsTo
        <4>3. Len(vhist) = PamK + 1
          BY <2>1
        <4> QED
          BY <4>2, <4>3, Zenon
      <3>2. env.t >= PamK + 1 - i /\ env.t - (PamK + 1 - i) = env.t + i - PamK - 1
        BY <2>1, <2>2
      <3> QED
        BY <2>2, <3>1, <3>2 DEF Back
    <2> QED
      BY <2>3, <2>4
  <1> QED
    BY <1>1, InvHolds, PTL

(***************************************************************************)
(* Whatever is added to a buffer goes on where the last one there ended,   *)
(* but for the cases named.                                                *)
(***************************************************************************)
THEOREM StreamInStepCorrect == Spec => StreamInStep
  <1> DEFINE Good == \A r \in Rings : streams'[r] # streams[r] =>
                       \/ InStep(streams[r], streams'[r])
                       \/ streams[r].trunc
                       \/ script = "qoil" /\ streams[r].seq + 1 < streams'[r].seq
  <1>1. Inv /\ [Next]_vars => [Good]_vars
    <2> SUFFICES ASSUME Inv, Next PROVE Good
      OBVIOUS
    <2>1. ASSUME NEW h \in Nat \ {0}, NEW o \in Outcomes(h), NEW ring \in Rings,
                 StepChunk(o), AddTransition(o, ring), GoOn(o), Running,
                 script \in Trainers, script # "qoil" => ring = "online",
                 chunk_step' = chunk_step + 1,
                 UNCHANGED <<script, learning, waits, last_eval, ep, kept>>
          PROVE  Good
      <3>1. pc = "loop" /\ env.ep <= EpisodeBound + 1
        BY <2>1, RolloutAssumption DEF Running, Inv, FramesOf, Moments
      <3>2. evaluated' \in BOOLEAN
        BY <2>1 DEF AddTransition
      <3>3. /\ o.done \in BOOLEAN /\ o.trunc \in BOOLEAN
            /\ IF o.done \/ o.trunc THEN pc' = "boundary" ELSE pc' = "loop" /\ obs' = env'
        BY <2>1, <3>1, <3>2, PassIs
      <3> QED
        BY <2>1, <3>1, <3>3, AddIs
    <2>2. Horizon \in Nat \ {0} /\ 1 \in Nat \ {0} /\ "online" \in Rings /\ "demo" \in Rings
      BY RolloutAssumption DEF Rings
    <2>3. CASE ResidualStep \/ DsrlStep
      <3>1. PICK o \in Outcomes(Horizon) : StepChunk(o) /\ AddTransition(o, "online") /\ GoOn(o)
        BY <2>3 DEF ResidualStep, DsrlStep
      <3>2. /\ script \in Trainers /\ Running /\ chunk_step' = chunk_step + 1
            /\ UNCHANGED <<script, learning, waits, last_eval, ep, kept>>
        BY <2>3 DEF ResidualStep, DsrlStep, Trainers
      <3> QED
        BY <2>1, <2>2, <3>1, <3>2
    <2>4. CASE RlpdStep
      <3>1. PICK o \in Outcomes(1) : StepChunk(o) /\ AddTransition(o, "online") /\ GoOn(o)
        BY <2>4 DEF RlpdStep
      <3>2. /\ script \in Trainers /\ Running /\ chunk_step' = chunk_step + 1
            /\ UNCHANGED <<script, learning, waits, last_eval, ep, kept>>
        BY <2>4 DEF RlpdStep, Trainers
      <3> QED
        BY <2>1, <2>2, <3>1, <3>2
    <2>5. CASE QoilStep
      <3>1. PICK o \in Outcomes(Horizon) : \E ring \in Rings :
              StepChunk(o) /\ AddTransition(o, ring) /\ GoOn(o)
        BY <2>2, <2>5 DEF QoilStep
      <3>2. PICK ring \in Rings : StepChunk(o) /\ AddTransition(o, ring) /\ GoOn(o)
        BY <3>1
      <3>3. /\ script \in Trainers /\ script = "qoil" /\ Running /\ chunk_step' = chunk_step + 1
            /\ UNCHANGED <<script, learning, waits, last_eval, ep, kept>>
        BY <2>5 DEF QoilStep, Trainers
      <3> QED
        BY <2>1, <2>2, <3>2, <3>3
    <2>6. CASE \/ EvalBaseStep \/ EvalDsrlStep \/ EvalFlowStep \/ CollectStep
               \/ Boundary \/ Evaluate \/ RlpdReset \/ RlpdEvaluate \/ Leave \/ EvalNext
               \/ CollectNext \/ LearnerEnds
      <3>1. streams' = streams
        BY <2>6 DEF EvalBaseStep, EvalDsrlStep, EvalFlowStep, CollectStep, Boundary, Evaluate,
           RlpdReset, RlpdEvaluate, Leave, EvalNext, CollectNext, LearnerEnds,
           unchangedByEvaluator, history
      <3> QED
        BY <3>1
    <2> QED
      BY <2>3, <2>4, <2>5, <2>6 DEF Next, ScriptStep
  <1> QED
    BY <1>1, InvHolds, PTL DEF Spec, StreamInStep

(***************************************************************************)
(* The arrays kept are whole successful episodes.                          *)
(***************************************************************************)
THEOREM KeptWholeCorrect == Spec => []KeptWhole
  <1>1. Inv => KeptWhole
    <2> SUFFICES ASSUME Inv, NEW i \in 1..Len(kept)
                 PROVE  /\ i = 1 \/ kept[i - 1].done => kept[i].obs.t = 0
                        /\ i < Len(kept) /\ ~kept[i].done => kept[i + 1].obs = kept[i].next
                        /\ i = Len(kept) => kept[i].done
      BY DEF KeptWhole
    <2>1. Whole(kept) /\ kept \in Seq(Records) /\ Len(kept) \in Nat /\ kept # <<>>
      <3>1. Whole(kept) /\ kept \in Seq(Records)
        BY DEF Inv, Collected, Whole
      <3> QED
        BY <3>1, LenProperties, EmptySeq
    <2>2. kept[1].obs.t = 0 /\ kept[Len(kept)].done
      BY <2>1 DEF Whole
    <2>3. ASSUME i # 1, kept[i - 1].done PROVE kept[i].obs.t = 0
      <3>1. PICK j \in 1..(Len(kept) - 1) : j = i - 1 /\ j + 1 = i
        BY <2>1, <2>3
      <3> QED
        BY <2>1, <2>3, <3>1 DEF Whole
    <2>4. ASSUME i < Len(kept), ~kept[i].done PROVE kept[i + 1].obs = kept[i].next
      <3>1. i \in 1..(Len(kept) - 1)
        BY <2>1, <2>4
      <3> QED
        BY <2>1, <2>4, <3>1 DEF Whole
    <2> QED
      BY <2>2, <2>3, <2>4
  <1> QED
    BY <1>1, InvHolds, PTL
==============================================================================
