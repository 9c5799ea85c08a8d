--------------------------- MODULE RendererProofs ---------------------------
(***************************************************************************)
(* Proofs about Renderer and SubResources, for any numbers of images and   *)
(* any capacity:                                                           *)
(*   - a uniform's buffer is written only when no command reads it;        *)
(*   - the sampler follows the sheet, and the sheet the font.              *)
(***************************************************************************)
EXTENDS Renderer, SequenceTheorems, WellFoundedInduction, TLAPS

Commands == [frame : Nat, reads : Nat]
Contents == [bytes : [1..Capacity -> Nat], len : Nat]
BufferData == [content : Contents, stale : BOOLEAN]
SetData == (Nat \X Nat) \cup {NoData}
FramesOf(D) == Seq([buffer : Nat, value : D])

\* The kinds of values.
TypeInv ==
  /\ surface \in Nat /\ stale \in BOOLEAN
  /\ chain \in [extent : Nat, count : Counts, inputs : Nat]
  /\ current \in Nat /\ todo \in Nat
  /\ pc \in {"idle", "swapchain", "framesets", "pre", "build", "again", "flush", "panicked"}
  /\ held \in BOOLEAN
  /\ inflight \in Seq(Commands)
  /\ buffers \in FramesOf(BufferData) /\ sets \in FramesOf(SetData)
  /\ value \in Seq(Nat) /\ writes \in Nat
  /\ image \in Nat /\ sheet \in Nat /\ font \in Nat /\ fonts \in Nat

\* What the application has made and registered, at each step of its thread;
\* only what is registered gets data.
MadeSoFar ==
  /\ app \in {"load sheet", "push sheet", "new sampler", "attach callback", "new uniform"} =>
       framesets = <<>> /\ buffers = <<>> /\ sets = <<>>
  /\ app = "register uniform" => framesets = <<>> /\ sets = <<>>
  /\ app = "new set" => framesets = <<"uniform">> /\ sets = <<>>
  /\ app = "register set" =>
       framesets = <<"uniform">> /\ \A i \in 1..Len(sets) : sets[i].value = NoData
  /\ app \in {"ready", "value", "guard"} => framesets = <<"uniform", "set">>
  /\ app \in {"load sheet", "push sheet", "new sampler", "attach callback", "new uniform",
              "register uniform", "new set", "register set", "ready", "value", "guard"}

\* A handler asks again for what there is.
AskedBefore == pc = "again" => Scene /\ ~OutOfBounds

\* The recreation goes through the sets from the first on.
TodoFrom == pc = "framesets" => todo > 0

\* The lock of the buffers' frames is held while the recreation is at them.
HeldAtBuffers ==
  held => pc = "framesets" /\ todo \in 1..Len(framesets) /\ framesets[todo] = "uniform"

\* A frame's commands read no buffer but the frame's own.
OwnBuffer == \A k \in 1..Len(inflight) : inflight[k].reads \in {0, inflight[k].frame}

\* All sets are going to be made anew before the next frame.
Doomed ==
  \/ pc = "idle" /\ stale
  \/ pc = "swapchain"
  \/ pc = "framesets" /\ \E k \in 1..Len(framesets) : k >= todo /\ framesets[k] = "set"

\* Where there is a set for a frame, and commands have used it, to wait for
\* the frame is to wait for the old swapchain's commands that read its buffer.
InFlight(i) == \E k \in 1..Len(inflight) : inflight[k].frame = i

SetsCovered ==
  \A i \in 1..Len(sets) :
    sets[i].value # NoData /\ i \in orphans => Doomed \/ i \in unused \/ InFlight(i)

\* The frame that is built has been waited for.
FrameAwaited == pc \in {"build", "again"} => ~InFlight(current)

RenderInv ==
  TypeInv /\ MadeSoFar /\ AskedBefore /\ TodoFrom /\ HeldAtBuffers /\ OwnBuffer /\ SetsCovered /\ FrameAwaited

\* What is attached, at each step of the application's thread.
AttachedSoFar ==
  /\ app \in {"load sheet", "push sheet"} => attached = {}
  /\ app \in {"new sampler", "attach callback"} => attached = {"sheet"}
  /\ missed \subseteq attached

\* SubResourcesFollow, and which steps of an update keep each of its parts.
FollowInv ==
  /\ AttachedSoFar
  /\ worker \in {"idle", "font waits", "font replaced", "sheet waits", "sheet replaced"}
  /\ worker \in {"sheet waits", "sheet replaced"} => "sheet" \in attached
  /\ (worker \in {"idle", "font waits", "sheet replaced"} /\ "sheet" \in attached \ missed) =>
       sheet = font
  /\ (worker \in {"idle", "font waits", "font replaced", "sheet waits"}
        /\ "callback" \in attached /\ missed = {}) => image = sheet

-----------------------------------------------------------------------------
(* The operators on sequences. *)

\* A set of indexes that is not empty has a greatest one.
LEMMA GreatestIndex ==
  ASSUME NEW n \in Nat, NEW S \in SUBSET (1..n), S # {}
  PROVE  \E i \in S : \A j \in S : j <= i
<1> DEFINE R == OpToRel(<, Nat)
           T == {n - i : i \in S}
<1>1. T \in SUBSET Nat /\ T # {}
  <2>1. \A i \in S : i \in 1..n /\ n - i \in Nat
    OBVIOUS
  <2>2. \A e \in T : e \in Nat
    BY <2>1
  <2>3. PICK i \in S : TRUE
    OBVIOUS
  <2>4. n - i \in T
    OBVIOUS
  <2> HIDE DEF T
  <2>5. QED  BY <2>2, <2>4
<1>2. \E d \in T : \A e \in T : ~ (<<e, d>> \in R)
  <2>1. IsWellFoundedOn(R, Nat)
    BY NatLessThanWellFounded
  <2> HIDE DEF R, T
  <2>2. QED  BY <1>1, <2>1, WFMin
<1>3. PICK i \in S : \A e \in T : ~ (<<e, n - i>> \in R)
  BY <1>2
<1>4. \A m, q \in Nat : m < q => <<m, q>> \in R
  BY DEF OpToRel
<1>5. ASSUME NEW j \in S
      PROVE  j <= i
  <2>1. n - j \in T /\ n - j \in Nat /\ n - i \in Nat
    OBVIOUS
  <2> HIDE DEF R, T
  <2>2. ~ (n - j < n - i)
    BY <1>3, <1>4, <2>1
  <2>3. QED  BY <2>2
<1>6. QED  BY <1>5

\* What is left after a wait for a frame: the last commands as they were
\* submitted, none of them of that frame.
LEMMA AfterWait ==
  ASSUME inflight \in Seq(Commands), NEW f \in Nat
  PROVE  /\ WaitReady(f) \in Seq(Commands)
         /\ \E d \in 0..Len(inflight) :
              /\ Len(WaitReady(f)) = Len(inflight) - d
              /\ \A k \in 1..Len(WaitReady(f)) : WaitReady(f)[k] = inflight[k + d]
         /\ \A k \in 1..Len(WaitReady(f)) : WaitReady(f)[k].frame # f
<1> DEFINE last == {i \in DOMAIN inflight : inflight[i].frame = f}
<1>0. Len(inflight) \in Nat /\ DOMAIN inflight = 1..Len(inflight)
  BY LenProperties
<1>1. CASE last = {}
  <2>1. WaitReady(f) = inflight
    BY <1>1 DEF WaitReady
  <2>2. \A k \in 1..Len(inflight) : inflight[k].frame # f
    BY <1>0, <1>1
  <2>3. /\ Len(WaitReady(f)) = Len(inflight) - 0
        /\ \A k \in 1..Len(WaitReady(f)) : WaitReady(f)[k] = inflight[k + 0]
    BY <1>0, <2>1
  <2>4. \E d \in 0..Len(inflight) :
          /\ Len(WaitReady(f)) = Len(inflight) - d
          /\ \A k \in 1..Len(WaitReady(f)) : WaitReady(f)[k] = inflight[k + d]
    <3>1. 0 \in 0..Len(inflight)
      BY <1>0
    <3>2. QED  BY <2>3, <3>1
  <2>5. QED  BY <2>1, <2>2, <2>4
<1>2. CASE last # {}
  <2> DEFINE m == CHOOSE i \in last : \A j \in last : j <= i
  <2>1. m \in last /\ \A j \in last : j <= m
    <3>1. last \in SUBSET (1..Len(inflight))
      BY <1>0
    <3>2. \E i \in last : \A j \in last : j <= i
      <4> HIDE DEF last
      <4>1. QED  BY <1>0, <1>2, <3>1, GreatestIndex
    <3> HIDE DEF last
    <3>3. QED  BY <3>2
  <2>2. m \in 1..Len(inflight)
    BY <1>0, <2>1
  <2>3. WaitReady(f) = SubSeq(inflight, 1 + m, Len(inflight))
    BY <1>2 DEF WaitReady
  <2>4. \A k \in m+1..Len(inflight) : inflight[k].frame # f
    <3> SUFFICES ASSUME NEW k \in m+1..Len(inflight), inflight[k].frame = f PROVE FALSE
      OBVIOUS
    <3>1. k \in last /\ ~ (k <= m)
      BY <1>0, <2>2
    <3>2. QED  BY <2>1, <3>1
  <2> HIDE DEF m, last
  <2>5. \A k \in 1 + m..Len(inflight) : inflight[k] \in Commands
    BY <1>0, <2>2
  <2>6. /\ WaitReady(f) \in Seq(Commands)
        /\ Len(WaitReady(f)) = Len(inflight) - m
        /\ \A k \in 1..Len(WaitReady(f)) : WaitReady(f)[k] = inflight[k + m]
    <3> DEFINE w == SubSeq(inflight, 1 + m, Len(inflight))
    <3>1. /\ w \in Seq(Commands)
          /\ Len(w) = IF 1 + m <= Len(inflight) THEN Len(inflight) - (1 + m) + 1 ELSE 0
          /\ \A k \in 1..Len(inflight) - (1 + m) + 1 : w[k] = inflight[1 + m + k - 1]
      BY <1>0, <2>2, <2>5, SubSeqProperties
    <3> HIDE DEF w
    <3>2. Len(w) = Len(inflight) - m
      BY <1>0, <2>2, <3>1
    <3>3. \A k \in 1..Len(w) : w[k] = inflight[k + m]
      <4> TAKE k \in 1..Len(w)
      <4>1. k \in 1..Len(inflight) - (1 + m) + 1 /\ 1 + m + k - 1 = k + m
        BY <1>0, <2>2, <3>2
      <4>2. QED  BY <3>1, <4>1
    <3>4. QED  BY <2>3, <3>1, <3>2, <3>3 DEF w
  <2>7. \A k \in 1..Len(WaitReady(f)) : WaitReady(f)[k].frame # f
    BY <1>0, <2>2, <2>4, <2>6
  <2>8. m \in 0..Len(inflight)
    BY <1>0, <2>2
  <2>9. QED  BY <2>6, <2>7, <2>8
<1>3. QED  BY <1>1, <1>2

\* create_frames gives a sequence of frames, the existing ones as they are.
LEMMA FramesCreated ==
  ASSUME NEW D, NEW n \in Nat, NEW s \in FramesOf(D), NEW d \in D
  PROVE  /\ CreateFrames(n, s, d) \in FramesOf(D)
         /\ DOMAIN CreateFrames(n, s, d) = 1..n
         /\ Len(CreateFrames(n, s, d)) = n
         /\ \A i \in 1..n : CreateFrames(n, s, d)[i] =
              IF i <= Len(s) THEN s[i] ELSE [buffer |-> i, value |-> d]
<1> DEFINE F == [buffer : Nat, value : D]
           c == CreateFrames(n, s, d)
<1>1. \A i \in 1..n : c[i] = IF i <= Len(s) THEN s[i] ELSE [buffer |-> i, value |-> d]
  BY DEF CreateFrames
<1>2. Len(s) \in Nat /\ \A i \in 1..Len(s) : s[i] \in F
  BY LenProperties, ElementOfSeq DEF FramesOf
<1>3. \A i \in 1..n : [buffer |-> i, value |-> d] \in F
  OBVIOUS
<1>4. c = [i \in 1..n |-> c[i]]
  BY DEF CreateFrames
<1> HIDE DEF c, F
<1>5. \A i \in 1..n : c[i] \in F
  <2> TAKE i \in 1..n
  <2>1. CASE i <= Len(s)
    <3>1. i \in 1..Len(s)
      BY <1>2, <2>1
    <3>2. QED  BY <1>1, <1>2, <2>1, <3>1
  <2>2. CASE ~ (i <= Len(s))
    BY <1>1, <1>3, <2>2
  <2>3. QED  BY <2>1, <2>2
<1>6. c \in [1..n -> F]
  BY <1>4, <1>5
<1>7. c \in Seq(F) /\ DOMAIN c = 1..n /\ Len(c) = n
  BY <1>6, LenProperties, SeqDef
<1>8. QED  BY <1>1, <1>7 DEF c, F, FramesOf

\* A frame's value is replaced.
LEMMA ValueReplaced ==
  ASSUME NEW D, NEW s \in FramesOf(D), NEW i \in Nat, NEW v \in D
  PROVE  /\ [s EXCEPT ![i].value = v] \in FramesOf(D)
         /\ Len([s EXCEPT ![i].value = v]) = Len(s)
         /\ \A k \in 1..Len(s) :
              [s EXCEPT ![i].value = v][k].value = IF k = i THEN v ELSE s[k].value
<1> DEFINE F == [buffer : Nat, value : D]
           t == [s EXCEPT ![i].value = v]
<1>1. Len(s) \in Nat /\ DOMAIN s = 1..Len(s) /\ \A k \in 1..Len(s) : s[k] \in F
  BY LenProperties, ElementOfSeq DEF FramesOf
<1>2. t = [k \in 1..Len(s) |-> t[k]]
  BY <1>1
<1>3. \A k \in 1..Len(s) : t[k] \in F /\ t[k].value = IF k = i THEN v ELSE s[k].value
  BY <1>1
<1> HIDE DEF t, F
<1>4. t \in [1..Len(s) -> F]
  BY <1>2, <1>3
<1>5. t \in Seq(F) /\ Len(t) = Len(s)
  BY <1>1, <1>4, LenProperties, SeqDef
<1>6. QED  BY <1>3, <1>5 DEF t, F, FramesOf


-----------------------------------------------------------------------------
(* The kinds of values. *)

LEMMA DataTyped ==
  ASSUME TypeInv
  PROVE  Data \in BufferData /\ Sources \in SetData
<1>1. Capacity \in Nat /\ Len(value) \in Nat /\ \A i \in 1..Len(value) : value[i] \in Nat
  BY CountsAssumption, LenProperties, ElementOfSeq DEF TypeInv
<1>2. \A i \in 1..Capacity : (IF i <= Len(value) THEN value[i] ELSE 0) \in Nat
  <2> TAKE i \in 1..Capacity
  <2>1. i <= Len(value) => i \in 1..Len(value)
    BY <1>1
  <2>2. QED  BY <1>1, <2>1
<1>3. Filled \in Contents
  BY <1>1, <1>2 DEF Filled, Contents
<1>4. Data \in BufferData
  BY <1>3 DEF Data, BufferData
<1>5. image \in Nat /\ chain.inputs \in Nat
  BY DEF TypeInv
<1>6. QED  BY <1>4, <1>5 DEF Sources, InputAttachment, SetData

\* Marking the buffers changes no content.
LEMMA Marked ==
  ASSUME TypeInv, MarkBuffers
  PROVE  /\ buffers' \in FramesOf(BufferData)
         /\ Len(buffers') = Len(buffers)
         /\ \A i \in 1..Len(buffers) : buffers'[i].value.content = buffers[i].value.content
<1> DEFINE F == [buffer : Nat, value : BufferData]
<1>1. /\ Len(buffers) \in Nat /\ DOMAIN buffers = 1..Len(buffers)
      /\ \A i \in 1..Len(buffers) : buffers[i] \in F
  BY LenProperties, ElementOfSeq DEF TypeInv, FramesOf
<1>2. buffers' = [i \in 1..Len(buffers) |->
                    [buffers[i] EXCEPT !.value = [buffers[i].value EXCEPT !.stale = TRUE]]]
  BY <1>1 DEF MarkBuffers, ForEach
<1>3. \A i \in 1..Len(buffers) : /\ buffers'[i] \in F
                                 /\ buffers'[i].value.content = buffers[i].value.content
  BY <1>1, <1>2 DEF BufferData
<1>4. buffers' = [i \in 1..Len(buffers) |-> buffers'[i]]
  BY <1>2
<1> HIDE DEF F
<1>5. buffers' \in [1..Len(buffers) -> F]
  BY <1>3, <1>4
<1>6. buffers' \in Seq(F) /\ Len(buffers') = Len(buffers)
  BY <1>1, <1>5, LenProperties, SeqDef
<1>7. QED  BY <1>3, <1>6 DEF F, FramesOf

LEMMA InitTyped == Init => TypeInv
<1> SUFFICES ASSUME Init PROVE TypeInv
  OBVIOUS
<1>1. /\ inflight \in Seq(Commands) /\ buffers \in FramesOf(BufferData)
      /\ sets \in FramesOf(SetData)
  BY EmptySeq DEF Init, FramesOf
<1>2. value \in Seq(Nat)
  <2>1. <<0>> \in Seq(Nat)
    OBVIOUS
  <2>2. QED  BY <2>1 DEF Init
<1>3. chain \in [extent : Nat, count : Counts, inputs : Nat]
  <2>1. PICK n \in Counts : chain = [extent |-> 0, count |-> n, inputs |-> 0]
    BY DEF Init
  <2>2. QED  BY <2>1
<1>4. QED  BY <1>1, <1>2, <1>3 DEF Init, SubInit, TypeInv

LEMMA TypeKept ==
  ASSUME TypeInv, Next
  PROVE  TypeInv'
<1>1. CASE Attach
  BY <1>1 DEF Attach, LoadSub, PushSub, NewSampler, AttachCallback, TypeInv, gpuVars, frameVars, valueVars
<1>2. CASE NewUniform
  <2>1. buffers' \in FramesOf(BufferData)
    <3>1. chain.count \in Nat /\ <<>> \in FramesOf(BufferData)
      BY CountsAssumption, EmptySeq DEF TypeInv, gpuVars, FramesOf
    <3>2. QED  BY <1>2, <3>1, DataTyped, FramesCreated DEF NewUniform
  <2>2. QED  BY <1>2, <2>1 DEF NewUniform, TypeInv, gpuVars, valueVars, subVars
<1>3. CASE NewSet
  <2>1. sets' \in FramesOf(SetData)
    <3>1. chain.count \in Nat /\ <<>> \in FramesOf(SetData) /\ NoData \in SetData
      BY CountsAssumption, EmptySeq DEF TypeInv, gpuVars, FramesOf, SetData
    <3>2. QED  BY <1>3, <3>1, FramesCreated DEF NewSet
  <2>2. QED  BY <1>3, <2>1 DEF NewSet, TypeInv, gpuVars, valueVars, subVars
<1>4. CASE RegisterFrameset
  BY <1>4 DEF RegisterFrameset, TypeInv, gpuVars, valueVars, subVars
<1>5. CASE Write
  BY <1>5 DEF Write, TypeInv, gpuVars, frameVars, valueVars, subVars
<1>6. CASE MarkBuffers
  BY <1>6, Marked DEF MarkBuffers, TypeInv, gpuVars, valueVars, subVars
<1>7. CASE Change
  <2>1. value' \in Seq(Nat) /\ writes' \in Nat
    <3>1. writes + 1 \in Nat /\ value \in Seq(Nat)
      BY DEF TypeInv
    <3>2. Len(value) \in Nat /\ Capacity \in Nat \ {0}
      BY <3>1, CountsAssumption, LenProperties
    <3>3. CASE Len(value) < Capacity
      BY <1>7, <3>1, <3>3, AppendProperties DEF Change
    <3>4. CASE ~ (Len(value) < Capacity)
      <4>1. Capacity \in 1..Len(value)
        BY <3>2, <3>4
      <4>2. [value EXCEPT ![Capacity] = writes + 1] \in Seq(Nat)
        BY <3>1, <4>1, ExceptSeq
      <4>3. QED  BY <1>7, <3>1, <3>4, <4>2 DEF Change
    <3>5. QED  BY <3>3, <3>4
  <2>2. QED  BY <1>7, <2>1 DEF Change, TypeInv, gpuVars, frameVars, subVars
<1>8. CASE SetRenderPass
  BY <1>8 DEF SetRenderPass, TypeInv, gpuVars, frameVars, valueVars, subVars
<1>9. CASE Resize
  BY <1>9 DEF Resize, TypeInv, gpuVars, frameVars, appVars, valueVars, subVars
<1>10. CASE MarkStale
  BY <1>10 DEF MarkStale, TypeInv, gpuVars, frameVars, appVars, valueVars, subVars
<1>11. CASE Recreate
  BY <1>11 DEF Recreate, TypeInv, gpuVars, appVars, valueVars, subVars
<1>12. CASE ReplaceFramebuffers
  <2>1. inflight' \in Seq(Commands)
    BY <1>12, EmptySeq DEF ReplaceFramebuffers
  <2>2. QED
    BY <1>12, <2>1 DEF ReplaceFramebuffers, NewFramebuffers, TypeInv, gpuVars, appVars, valueVars, subVars
<1>13. CASE LockBuffers
  BY <1>13 DEF LockBuffers, TypeInv, gpuVars, frameVars, appVars, valueVars, subVars
<1>14. CASE RecreateBuffers
  <2>1. buffers' \in FramesOf(BufferData)
    <3>1. chain.count \in Nat /\ buffers \in FramesOf(BufferData)
      BY CountsAssumption DEF TypeInv
    <3>2. QED  BY <1>14, <3>1, DataTyped, FramesCreated DEF RecreateBuffers, KeepExisting
  <2>2. /\ todo' \in Nat /\ held' = FALSE
        /\ UNCHANGED <<surface, stale, chain, current, pc, inflight, sets, value, writes, subVars>>
    BY <1>14 DEF RecreateBuffers, TypeInv, gpuVars, appVars, valueVars
  <2>3. QED  BY <2>1, <2>2 DEF TypeInv, gpuVars, subVars
<1>15. CASE RecreateSets
  <2>1. sets' \in FramesOf(SetData)
    <3>1. chain.count \in Nat /\ <<>> \in FramesOf(SetData) /\ NoData \in SetData
      BY CountsAssumption, EmptySeq DEF TypeInv, gpuVars, FramesOf, SetData
    <3>2. QED  BY <1>15, <3>1, FramesCreated DEF RecreateSets, RecreateAll
  <2>2. QED  BY <1>15, <2>1 DEF RecreateSets, TypeInv, gpuVars, appVars, valueVars, subVars
<1>16. CASE Recreated
  BY <1>16 DEF Recreated, TypeInv, gpuVars, frameVars, appVars, valueVars, subVars
<1>17. CASE Begin
  BY <1>17 DEF Begin, TypeInv, gpuVars, frameVars, appVars, valueVars, subVars
<1>18. CASE Cancelled
  BY <1>18 DEF Cancelled, TypeInv, gpuVars, frameVars, appVars, valueVars, subVars
<1>19. CASE AcquireFails
  BY <1>19 DEF AcquireFails, TypeInv, gpuVars, frameVars, appVars, valueVars, subVars
<1>20. CASE Acquire
  <2>1. PICK i \in 1..chain.count :
          current' = i /\ inflight' = WaitReady(i) /\ stale' \in BOOLEAN
    BY <1>20 DEF Acquire, TypeInv, gpuVars, OutOfDate
  <2>2. i \in Nat /\ inflight \in Seq(Commands)
    BY CountsAssumption DEF TypeInv
  <2>3. inflight' \in Seq(Commands)
    BY <2>1, <2>2, AfterWait
  <2>4. QED  BY <1>20, <2>1, <2>2, <2>3 DEF Acquire, TypeInv, gpuVars, appVars, valueVars, subVars
<1>21. CASE BuildCommands \/ AskAgain
  <2>1. buffers' \in FramesOf(BufferData) /\ sets' \in FramesOf(SetData)
    <3>1. current \in Nat /\ buffers \in FramesOf(BufferData) /\ sets \in FramesOf(SetData)
      BY DEF TypeInv
    <3>2. /\ [buffers EXCEPT ![current].value = Data] \in FramesOf(BufferData)
          /\ [sets EXCEPT ![current].value = Sources] \in FramesOf(SetData)
      BY <3>1, DataTyped, ValueReplaced
    <3>3. DescriptorSet \/ UNCHANGED <<buffers, sets>>
      BY <1>21 DEF BuildCommands, AskAgain
    <3>4. QED  BY <3>1, <3>2, <3>3 DEF DescriptorSet, UpdateSource
  <2>2. QED
    BY <1>21, <2>1 DEF BuildCommands, AskAgain, TypeInv, gpuVars, appVars, valueVars, subVars
<1>22. CASE Panic
  BY <1>22 DEF Panic, TypeInv, gpuVars, frameVars, appVars, valueVars, subVars
<1>23. CASE Flushed
  <2>1. inflight' \in Seq(Commands)
    <3>1. [frame |-> current, reads |-> IF Drawn THEN current ELSE 0] \in Commands
      BY DEF TypeInv, gpuVars, Commands
    <3>2. inflight \in Seq(Commands)
      BY DEF TypeInv
    <3>3. QED  BY <1>23, <3>1, <3>2, AppendProperties DEF Flushed
  <2>2. QED
    BY <1>23, <2>1 DEF Flushed, Replace, TypeInv, gpuVars, frameVars, appVars, valueVars
<1>24. CASE FlushFails
  BY <1>24 DEF FlushFails, Replace, OutOfDate, TypeInv, gpuVars, frameVars, appVars, valueVars
<1>25. CASE FontUpdated
  <2>1. fonts' \in Nat /\ UNCHANGED <<font, sheet, image>>
    <3>1. fonts' = fonts + 1 /\ UNCHANGED <<font, sheet, image>>
      BY <1>25 DEF FontUpdated, UpdateFont
    <3>2. QED  BY <3>1 DEF TypeInv
  <2>2. QED  BY <1>25, <2>1 DEF FontUpdated, TypeInv, gpuVars, rendererVars, frameVars, appVars, valueVars
<1>26. CASE SubUpdated
  BY <1>26 DEF SubUpdated, SubStep, UpdateSheet, UpdateCallbacks, TypeInv, gpuVars, rendererVars, frameVars,
               appVars, valueVars
<1>27. QED
  BY <1>1, <1>2, <1>3, <1>4, <1>5, <1>6, <1>7, <1>8, <1>9, <1>10, <1>11, <1>12, <1>13, <1>14, <1>15,
     <1>16, <1>17, <1>18, <1>19, <1>20, <1>21, <1>22, <1>23, <1>24, <1>25, <1>26
     DEF Next, RenderStep, AppStep

-----------------------------------------------------------------------------
(* What the application has made, and the lock of the buffers' frames. *)

\* Sets that are made anew have no data.
LEMMA FreshSets ==
  ASSUME TypeInv
  PROVE  \A i \in 1..Len(CreateFrames(chain.count, <<>>, NoData)) :
           CreateFrames(chain.count, <<>>, NoData)[i].value = NoData
<1>1. chain.count \in Nat /\ <<>> \in FramesOf(SetData) /\ NoData \in SetData
  BY CountsAssumption, EmptySeq DEF TypeInv, FramesOf, SetData
<1>2. Len(CreateFrames(chain.count, <<>>, NoData)) = chain.count
  BY <1>1, FramesCreated
<1>3. \A i \in 1..chain.count : ~ (i <= Len(<<>>))
  BY EmptySeq
<1>4. QED  BY <1>2, <1>3 DEF CreateFrames

LEMMA MadeKept ==
  ASSUME TypeInv, MadeSoFar, AskedBefore, TodoFrom, HeldAtBuffers, Next
  PROVE  MadeSoFar'
<1>1. CASE Attach
  BY <1>1 DEF Attach, MadeSoFar, frameVars
<1>2. CASE NewUniform
  BY <1>2 DEF NewUniform, MadeSoFar
<1>3. CASE NewSet
  <2>1. \A i \in 1..Len(sets') : sets'[i].value = NoData
    BY <1>3, FreshSets DEF NewSet
  <2>2. QED  BY <1>3, <2>1 DEF NewSet, MadeSoFar
<1>4. CASE RegisterFrameset
  <2>1. CASE app = "register uniform"
    <3>1. framesets' = <<"uniform">> /\ app' = "new set" /\ sets' = <<>>
      <4>1. framesets = <<>> /\ sets = <<>>
        BY <2>1 DEF MadeSoFar
      <4>2. Append(<<>>, "uniform") = <<"uniform">>
        OBVIOUS
      <4>3. QED  BY <1>4, <2>1, <4>1, <4>2 DEF RegisterFrameset
    <3>2. QED  BY <3>1 DEF MadeSoFar
  <2>2. CASE app = "register set"
    <3>1. framesets' = <<"uniform", "set">> /\ app' = "ready"
      <4>1. framesets = <<"uniform">>
        BY <2>2 DEF MadeSoFar
      <4>2. Append(<<"uniform">>, "set") = <<"uniform", "set">>
        <5> DEFINE u == <<"uniform">>
                   us == <<"uniform", "set">>
        <5>1. u \in Seq({"uniform", "set"}) /\ Len(u) = 1 /\ u[1] = "uniform"
          OBVIOUS
        <5>2. us \in Seq({"uniform", "set"}) /\ Len(us) = 2 /\ us[1] = "uniform" /\ us[2] = "set"
          OBVIOUS
        <5> HIDE DEF u, us
        <5>3. /\ Append(u, "set") \in Seq({"uniform", "set"}) /\ Len(Append(u, "set")) = 2
              /\ Append(u, "set")[1] = "uniform" /\ Append(u, "set")[2] = "set"
          <6>1. Len(u) + 1 = 2 /\ "set" \in {"uniform", "set"} /\ 1 \in 1..Len(u)
            BY <5>1
          <6>2. /\ Append(u, "set") \in Seq({"uniform", "set"})
                /\ Len(Append(u, "set")) = Len(u) + 1
                /\ \A i \in 1..Len(u) : Append(u, "set")[i] = u[i]
                /\ Append(u, "set")[Len(u) + 1] = "set"
            <7> DEFINE S == {"uniform", "set"}
            <7> HIDE DEF S
            <7>1. u \in Seq(S) /\ "set" \in S
              BY <5>1, <6>1 DEF S
            <7>2. QED  BY <7>1, AppendProperties DEF S
          <6>3. QED  BY <5>1, <6>1, <6>2
        <5>4. \A i \in 1..2 : Append(u, "set")[i] = us[i]
          BY <5>2, <5>3
        <5>5. Append(u, "set") = us
          BY <5>2, <5>3, <5>4, SeqEqual
        <5>6. QED  BY <5>5 DEF u, us
      <4>3. QED  BY <1>4, <2>2, <4>1, <4>2 DEF RegisterFrameset
    <3>2. QED  BY <3>1 DEF MadeSoFar
  <2>3. QED  BY <1>4, <2>1, <2>2 DEF RegisterFrameset
<1>5. CASE Write
  BY <1>5 DEF Write, MadeSoFar, frameVars
<1>6. CASE MarkBuffers
  BY <1>6 DEF MarkBuffers, MadeSoFar
<1>7. CASE Change
  BY <1>7 DEF Change, MadeSoFar, frameVars
<1>8. CASE RecreateBuffers
  <2>1. framesets # <<>>
    BY <1>8, EmptySeq DEF RecreateBuffers, HeldAtBuffers
  <2>2. UNCHANGED <<app, framesets, sets>>
    BY <1>8 DEF RecreateBuffers, appVars
  <2>3. QED  BY <2>1, <2>2 DEF MadeSoFar
<1>9. CASE RecreateSets
  <2>1. framesets # <<>> /\ framesets # <<"uniform">>
    <3>1. todo \in Nat /\ framesets[todo] = "set" /\ todo <= Len(framesets)
      BY <1>9 DEF RecreateSets, TypeInv
    <3>2. todo \in 1..Len(framesets)
      BY <1>9 DEF RecreateSets, TodoFrom, TypeInv
    <3>3. QED  BY <3>1, <3>2
  <2>2. app \in {"ready", "value", "guard"}
    BY <2>1 DEF MadeSoFar
  <2>3. UNCHANGED <<app, framesets>>
    BY <1>9 DEF RecreateSets, appVars
  <2>4. QED  BY <2>2, <2>3 DEF MadeSoFar
<1>10. CASE BuildCommands
  <2>1. UNCHANGED <<app, framesets>>
    BY <1>10 DEF BuildCommands, appVars
  <2>2. CASE app \in {"ready", "value", "guard"}
    BY <2>1, <2>2 DEF MadeSoFar
  <2>3. CASE app \notin {"ready", "value", "guard"}
    <3>1. UNCHANGED <<buffers, sets>>
      BY <1>10, <2>3 DEF BuildCommands, Scene
    <3>2. QED  BY <2>1, <3>1 DEF MadeSoFar
  <2>4. QED  BY <2>2, <2>3
<1>11. CASE AskAgain
  <2>1. app \in {"ready", "value", "guard"} /\ UNCHANGED <<app, framesets>>
    BY <1>11 DEF AskAgain, AskedBefore, Scene, appVars
  <2>2. QED  BY <2>1 DEF MadeSoFar
<1>12. CASE UNCHANGED <<app, framesets, buffers, sets>>
  BY <1>12 DEF MadeSoFar
<1>13. \/ Attach \/ NewUniform \/ NewSet \/ RegisterFrameset \/ Write \/ MarkBuffers \/ Change
       \/ RecreateBuffers \/ RecreateSets \/ BuildCommands \/ AskAgain
       \/ UNCHANGED <<app, framesets, buffers, sets>>
  BY DEF Next, RenderStep, AppStep, SetRenderPass, Resize, FontUpdated, SubUpdated, rendererVars,
         MarkStale, Recreate, ReplaceFramebuffers, LockBuffers, Recreated, Begin, Cancelled,
         AcquireFails, Acquire, Panic, Flushed, FlushFails, frameVars, appVars
<1>14. QED
  BY <1>1, <1>2, <1>3, <1>4, <1>5, <1>6, <1>7, <1>8, <1>9, <1>10, <1>11, <1>12, <1>13

LEMMA AskedKept ==
  ASSUME TypeInv, MadeSoFar, AskedBefore, HeldAtBuffers, Next
  PROVE  AskedBefore'
<1>0. /\ current \in Nat /\ sets \in FramesOf(SetData) /\ buffers \in FramesOf(BufferData)
      /\ Sources \in SetData /\ Data \in BufferData
  BY DataTyped DEF TypeInv
<1>1. CASE BuildCommands
  <2>1. UNCHANGED <<app, current>> /\ (Scene => ~OutOfBounds)
    BY <1>1 DEF BuildCommands, appVars
  <2>2. Len(sets') = Len(sets) /\ Len(buffers') = Len(buffers)
    BY <1>0, <1>1, ValueReplaced DEF BuildCommands, DescriptorSet, UpdateSource
  <2>3. pc' = "again" => Scene
    BY <1>1 DEF BuildCommands
  <2>4. QED  BY <2>1, <2>2, <2>3 DEF AskedBefore, Scene, OutOfBounds
<1>2. CASE MarkBuffers \/ Change \/ Write
  <2>1. UNCHANGED <<pc, current, sets>> /\ Scene'
    BY <1>2 DEF MarkBuffers, Change, Write, Scene, frameVars
  <2>2. Len(buffers') = Len(buffers)
    BY <1>2, Marked DEF MarkBuffers, Change, Write, frameVars
  <2>3. QED  BY <2>1, <2>2 DEF AskedBefore, OutOfBounds
<1>3. CASE pc' # "again"
  BY <1>3 DEF AskedBefore
<1>4. CASE UNCHANGED <<pc, app, current, sets, buffers>>
  BY <1>4 DEF AskedBefore, Scene, OutOfBounds
<1>5. BuildCommands \/ MarkBuffers \/ Change \/ Write \/ pc' # "again"
      \/ UNCHANGED <<pc, app, current, sets, buffers>>
  <2>1. CASE Attach \/ NewUniform \/ NewSet \/ RegisterFrameset
    <3>1. ~Scene /\ pc' = pc
      BY <2>1 DEF Attach, NewUniform, NewSet, RegisterFrameset, Scene
    <3>2. QED  BY <3>1 DEF AskedBefore
  <2>2. CASE SetRenderPass \/ Resize \/ FontUpdated \/ SubUpdated
    BY <2>2 DEF SetRenderPass, Resize, FontUpdated, SubUpdated, rendererVars, frameVars, appVars
  <2>3. CASE MarkStale \/ Recreate \/ ReplaceFramebuffers \/ LockBuffers \/ RecreateBuffers \/ RecreateSets
    BY <2>3 DEF MarkStale, Recreate, ReplaceFramebuffers, LockBuffers, RecreateBuffers, RecreateSets, HeldAtBuffers
  <2>4. CASE \/ Recreated \/ Begin \/ Cancelled \/ AcquireFails \/ Acquire \/ AskAgain \/ Panic
             \/ Flushed \/ FlushFails
    BY <2>4 DEF Recreated, Begin, Cancelled, AcquireFails, Acquire, AskAgain, Panic, Flushed, FlushFails
  <2>5. QED  BY <2>1, <2>2, <2>3, <2>4 DEF Next, RenderStep, AppStep
<1>6. QED  BY <1>1, <1>2, <1>3, <1>4, <1>5

LEMMA HeldKept ==
  ASSUME TypeInv, TodoFrom, HeldAtBuffers, Next
  PROVE  TodoFrom' /\ HeldAtBuffers'
<1>1. CASE RegisterFrameset
  BY <1>1 DEF RegisterFrameset, HeldAtBuffers, TodoFrom
<1>2. CASE LockBuffers
  <2>1. pc' = pc /\ todo' = todo /\ framesets' = framesets
    BY <1>2 DEF LockBuffers, frameVars
  <2>2. todo \in 1..Len(framesets) /\ framesets[todo] = "uniform" /\ pc = "framesets"
    BY <1>2 DEF LockBuffers, TodoFrom, TypeInv
  <2>3. QED  BY <2>1, <2>2 DEF HeldAtBuffers, TodoFrom
<1>3. CASE RecreateBuffers
  BY <1>3 DEF RecreateBuffers, HeldAtBuffers, TodoFrom, TypeInv
<1>4. CASE RecreateSets
  <2>1. ~held
    BY <1>4 DEF RecreateSets, HeldAtBuffers
  <2>2. QED  BY <1>4, <2>1 DEF RecreateSets, HeldAtBuffers, TodoFrom, TypeInv
<1>5. CASE ReplaceFramebuffers \/ Recreated
  <2>1. ~held
    BY <1>5 DEF ReplaceFramebuffers, Recreated, HeldAtBuffers, TypeInv
  <2>2. held' = FALSE /\ TodoFrom'
    BY <1>5, <2>1 DEF ReplaceFramebuffers, Recreated, TodoFrom
  <2>3. QED  BY <2>2 DEF HeldAtBuffers
<1>6. CASE /\ UNCHANGED <<held, todo, framesets>>
           /\ pc' = pc \/ (pc # "framesets" /\ pc' # "framesets")
  BY <1>6 DEF HeldAtBuffers, TodoFrom
<1>7. \/ RegisterFrameset \/ LockBuffers \/ RecreateBuffers \/ RecreateSets
      \/ ReplaceFramebuffers \/ Recreated
      \/ /\ UNCHANGED <<held, todo, framesets>>
         /\ pc' = pc \/ (pc # "framesets" /\ pc' # "framesets")
  <2>1. CASE AppStep \/ Write \/ SetRenderPass \/ Resize \/ FontUpdated \/ SubUpdated
    <3>1. CASE Attach \/ NewUniform \/ NewSet \/ Write
      BY <3>1 DEF Attach, NewUniform, NewSet, Write, frameVars
    <3>2. CASE MarkBuffers \/ Change \/ SetRenderPass \/ Resize
      BY <3>2 DEF MarkBuffers, Change, SetRenderPass, Resize, frameVars
    <3>3. CASE FontUpdated \/ SubUpdated
      BY <3>3 DEF FontUpdated, SubUpdated, rendererVars, frameVars
    <3>4. QED  BY <2>1, <3>1, <3>2, <3>3 DEF AppStep
  <2>2. CASE RenderStep
    <3>1. CASE MarkStale \/ Recreate \/ Begin \/ AcquireFails \/ Acquire
      BY <3>1 DEF MarkStale, Recreate, Begin, AcquireFails, Acquire, frameVars
    <3>2. CASE Cancelled \/ BuildCommands \/ AskAgain \/ Panic \/ Flushed \/ FlushFails
      BY <3>2 DEF Cancelled, BuildCommands, AskAgain, Panic, Flushed, FlushFails, frameVars
    <3>3. QED  BY <2>2, <3>1, <3>2 DEF RenderStep
  <2>3. QED  BY <2>1, <2>2 DEF Next
<1>8. QED  BY <1>1, <1>2, <1>3, <1>4, <1>5, <1>6, <1>7

-----------------------------------------------------------------------------
(* The commands in flight. *)

\* A wait for a frame leaves none of its commands, and others as they were; if
\* it leaves all there were, there was nothing to wait for.
LEMMA AfterAcquire ==
  ASSUME TypeInv, OwnBuffer, Acquire
  PROVE  /\ OwnBuffer' /\ ~InFlight(current)'
         /\ (inflight' = inflight /\ orphans' = orphans) \/ orphans' = {}
<1>1. PICK i \in 1..chain.count :
        /\ current' = i /\ inflight' = WaitReady(i)
        /\ orphans' = IF WaitReady(i) = inflight THEN orphans ELSE {}
  BY DEF Acquire
<1>2. i \in Nat /\ inflight \in Seq(Commands) /\ Len(inflight) \in Nat
  BY CountsAssumption, LenProperties DEF TypeInv
<1>3. PICK d \in 0..Len(inflight) :
        /\ Len(inflight') = Len(inflight) - d
        /\ \A k \in 1..Len(inflight') : inflight'[k] = inflight[k + d]
  BY <1>1, <1>2, AfterWait
<1>4. \A k \in 1..Len(inflight') : inflight'[k].frame # current'
  BY <1>1, <1>2, AfterWait
<1>5. ASSUME NEW k \in 1..Len(inflight')
      PROVE  inflight'[k].reads \in {0, inflight'[k].frame}
  <2>1. k + d \in 1..Len(inflight) /\ inflight'[k] = inflight[k + d]
    BY <1>2, <1>3
  <2>2. QED  BY <2>1 DEF OwnBuffer
<1>6. OwnBuffer'
  BY <1>5 DEF OwnBuffer
<1>7. ~InFlight(current)'
  BY <1>4 DEF InFlight
<1>8. QED  BY <1>1, <1>6, <1>7

\* A command has been submitted after those there were.
LEMMA AfterFlush ==
  ASSUME TypeInv, Flushed
  PROVE  /\ Len(inflight) \in Nat /\ Len(inflight') = Len(inflight) + 1
         /\ \A k \in 1..Len(inflight) : inflight'[k] = inflight[k]
         /\ inflight'[Len(inflight) + 1].frame = current
         /\ inflight'[Len(inflight) + 1].reads \in {0, current}
<1> DEFINE c == [frame |-> current, reads |-> IF Drawn THEN current ELSE 0]
<1>1. inflight \in Seq(Commands) /\ c \in Commands /\ inflight' = Append(inflight, c)
  BY DEF Flushed, TypeInv, Commands
<1>2. c.frame = current /\ c.reads \in {0, current}
  OBVIOUS
<1> HIDE DEF c
<1>3. QED  BY <1>1, <1>2, AppendProperties, LenProperties

LEMMA OwnKept ==
  ASSUME TypeInv, OwnBuffer, Next
  PROVE  OwnBuffer'
<1>1. CASE Acquire
  BY <1>1, AfterAcquire
<1>2. CASE Flushed
  <2>1. SUFFICES ASSUME NEW k \in 1..Len(inflight')
                 PROVE  inflight'[k].reads \in {0, inflight'[k].frame}
    BY DEF OwnBuffer
  <2>2. k \in 1..Len(inflight) \/ k = Len(inflight) + 1
    BY <1>2, <2>1, AfterFlush
  <2>3. QED  BY <1>2, <2>2, AfterFlush DEF OwnBuffer
<1>3. CASE ReplaceFramebuffers
  <2>1. inflight' = <<>> /\ Len(<<>>) = 0
    BY <1>3, EmptySeq DEF ReplaceFramebuffers
  <2>2. QED  BY <2>1 DEF OwnBuffer
<1>4. CASE UNCHANGED inflight
  BY <1>4 DEF OwnBuffer
<1>5. Acquire \/ Flushed \/ ReplaceFramebuffers \/ UNCHANGED inflight
  <2>1. CASE AppStep \/ Write \/ SetRenderPass \/ Resize \/ FontUpdated \/ SubUpdated
    BY <2>1 DEF AppStep, Attach, NewUniform, NewSet, RegisterFrameset, MarkBuffers, Change, Write, SetRenderPass,
                Resize, FontUpdated, SubUpdated, rendererVars, gpuVars
  <2>2. CASE RenderStep
    BY <2>2 DEF RenderStep, MarkStale, Recreate, LockBuffers, RecreateBuffers, RecreateSets, Recreated, Begin,
                Cancelled, AcquireFails, BuildCommands, AskAgain, Panic, FlushFails, gpuVars
  <2>3. QED  BY <2>1, <2>2 DEF Next
<1>6. QED  BY <1>1, <1>2, <1>3, <1>4, <1>5

LEMMA AwaitedKept ==
  ASSUME TypeInv, OwnBuffer, HeldAtBuffers, FrameAwaited, Next
  PROVE  FrameAwaited'
<1>1. CASE Acquire
  BY <1>1, AfterAcquire DEF FrameAwaited
<1>2. CASE pc' \notin {"build", "again"}
  BY <1>2 DEF FrameAwaited
<1>3. CASE pc \in {"build", "again"} /\ UNCHANGED <<inflight, current>>
  BY <1>3 DEF FrameAwaited, InFlight
<1>4. Acquire \/ pc' \notin {"build", "again"} \/ (pc \in {"build", "again"} /\ UNCHANGED <<inflight, current>>)
  <2>1. CASE AppStep
    BY <2>1 DEF AppStep, Attach, NewUniform, NewSet, RegisterFrameset, MarkBuffers, Change, frameVars, gpuVars
  <2>2. CASE Write \/ SetRenderPass \/ Resize \/ FontUpdated \/ SubUpdated
    BY <2>2 DEF Write, SetRenderPass, Resize, FontUpdated, SubUpdated, rendererVars, frameVars, gpuVars
  <2>3. CASE RenderStep
    <3>1. CASE MarkStale \/ Recreate \/ ReplaceFramebuffers \/ Recreated \/ Begin \/ AcquireFails
      BY <3>1 DEF MarkStale, Recreate, ReplaceFramebuffers, Recreated, Begin, AcquireFails
    <3>2. CASE LockBuffers \/ RecreateBuffers \/ RecreateSets
      <4>1. pc = "framesets" /\ pc' = pc
        BY <3>2 DEF LockBuffers, RecreateBuffers, RecreateSets, HeldAtBuffers
      <4>2. QED  BY <4>1
    <3>3. CASE Cancelled \/ BuildCommands \/ AskAgain \/ Panic \/ Flushed \/ FlushFails
      BY <3>3 DEF Cancelled, BuildCommands, AskAgain, Panic, Flushed, FlushFails, gpuVars
    <3>4. QED  BY <2>3, <3>1, <3>2, <3>3 DEF RenderStep
  <2>4. QED  BY <2>1, <2>2, <2>3 DEF Next
<1>5. QED  BY <1>1, <1>2, <1>3, <1>4

\* The set of the frame is made, or made anew, and no other.
LEMMA AskedSets ==
  ASSUME TypeInv, BuildCommands \/ AskAgain
  PROVE  /\ UNCHANGED <<inflight, orphans, current>>
         /\ Len(sets') = Len(sets)
         /\ \A i \in 1..Len(sets) :
              \/ sets'[i].value # NoData => sets[i].value # NoData /\ unused' = unused
              \/ i \in unused'
              \/ sets'[i].value = sets[i].value /\ unused \subseteq unused'
<1>1. current \in Nat /\ sets \in FramesOf(SetData) /\ Sources \in SetData
  BY DataTyped DEF TypeInv
<1>2. UNCHANGED <<inflight, orphans, current>>
  BY DEF BuildCommands, AskAgain, gpuVars
<1>3. CASE UNCHANGED <<sets, unused>>
  BY <1>2, <1>3
<1>4. CASE DescriptorSet
  <2>1. sets' = [sets EXCEPT ![current].value = Sources]
    BY <1>4 DEF DescriptorSet
  <2>2. /\ Len(sets') = Len(sets)
        /\ \A i \in 1..Len(sets) : i # current => sets'[i].value = sets[i].value
    BY <1>1, <2>1, ValueReplaced
  <2>3. CASE sets[current].value = NoData
    BY <1>2, <1>4, <2>2, <2>3 DEF DescriptorSet
  <2>4. CASE sets[current].value # NoData
    <3>1. unused' = unused
      BY <1>4, <2>4 DEF DescriptorSet
    <3>2. QED  BY <1>2, <2>2, <2>4, <3>1
  <2>5. QED  BY <2>3, <2>4
<1>5. QED  BY <1>3, <1>4 DEF BuildCommands, AskAgain

LEMMA CoveredKept ==
  ASSUME RenderInv, Next
  PROVE  SetsCovered'
<1>0. TypeInv /\ MadeSoFar /\ TodoFrom /\ HeldAtBuffers /\ OwnBuffer /\ SetsCovered
  BY DEF RenderInv
<1>1. CASE NewSet \/ RecreateSets
  <2>1. sets' = CreateFrames(chain.count, <<>>, NoData)
    BY <1>1 DEF NewSet, RecreateSets, RecreateAll
  <2>2. \A i \in 1..Len(sets') : sets'[i].value = NoData
    BY <1>0, <2>1, FreshSets
  <2>3. QED  BY <2>2 DEF SetsCovered
<1>2. CASE RegisterFrameset
  <2>1. pc # "framesets" /\ UNCHANGED <<sets, inflight, orphans, unused, current, pc, stale>>
    BY <1>2 DEF RegisterFrameset, gpuVars, auxVars
  <2>2. QED  BY <1>0, <2>1 DEF SetsCovered, InFlight, Doomed
<1>3. CASE UNCHANGED <<sets, inflight, orphans, unused, pc, stale, todo, framesets>>
  BY <1>0, <1>3 DEF SetsCovered, InFlight, Doomed
<1>4. CASE SetRenderPass \/ MarkStale \/ Recreate \/ AcquireFails
  <2>1. Doomed'
    BY <1>4 DEF SetRenderPass, MarkStale, Recreate, AcquireFails, Doomed
  <2>2. QED  BY <2>1 DEF SetsCovered
<1>5. CASE ReplaceFramebuffers
  <2>1. pc' = "framesets" /\ todo' = 1 /\ UNCHANGED <<framesets, sets>>
    BY <1>5 DEF ReplaceFramebuffers
  <2>2. SUFFICES ASSUME NEW i \in 1..Len(sets), sets[i].value # NoData
                 PROVE  Doomed'
    BY <2>1 DEF SetsCovered
  <2>3. framesets = <<"uniform", "set">>
    <3>1. sets # <<>>
      BY EmptySeq
    <3>2. QED  BY <1>0, <2>2, <3>1 DEF MadeSoFar
  <2>4. Len(framesets) = 2 /\ framesets[2] = "set"
    BY <2>3
  <2>5. 2 \in 1..Len(framesets') /\ 2 >= todo' /\ framesets'[2] = "set"
    BY <2>1, <2>4
  <2>6. QED  BY <2>1, <2>5 DEF Doomed
<1>6. CASE RecreateBuffers
  <2>1. /\ pc = "framesets" /\ pc' = pc /\ todo \in 1..Len(framesets) /\ framesets[todo] = "uniform"
        /\ UNCHANGED <<sets, framesets, inflight, unused>> /\ todo' = todo + 1 /\ orphans' \subseteq orphans
    BY <1>0, <1>6 DEF RecreateBuffers, HeldAtBuffers, auxVars
  <2>2. Doomed => Doomed'
    <3>1. SUFFICES ASSUME NEW k \in 1..Len(framesets), k >= todo, framesets[k] = "set"
                   PROVE  Doomed'
      BY <2>1 DEF Doomed
    <3>2. k # todo
      BY <2>1, <3>1
    <3>3. k >= todo'
      BY <2>1, <3>1, <3>2
    <3>4. QED  BY <2>1, <3>1, <3>3 DEF Doomed
  <2>3. QED  BY <1>0, <2>1, <2>2 DEF SetsCovered, InFlight
<1>7. CASE Recreated \/ Begin \/ Panic \/ Cancelled \/ FlushFails
  <2>1. UNCHANGED <<inflight, orphans, unused, sets>>
    BY <1>7 DEF Recreated, Begin, Panic, Cancelled, FlushFails, frameVars, gpuVars, auxVars
  <2>2. ~Doomed
    BY <1>0, <1>7 DEF Recreated, Begin, Panic, Cancelled, FlushFails, Doomed, TypeInv
  <2>3. QED  BY <1>0, <2>1, <2>2 DEF SetsCovered, InFlight
<1>8. CASE Acquire
  <2>1. pc = "pre" /\ UNCHANGED <<sets, unused>>
    BY <1>8 DEF Acquire, auxVars
  <2>2. ~Doomed
    BY <2>1 DEF Doomed
  <2>3. QED  BY <1>0, <1>8, <2>1, <2>2, AfterAcquire DEF SetsCovered, InFlight
<1>9. CASE BuildCommands \/ AskAgain
  <2>1. ~Doomed
    BY <1>9 DEF BuildCommands, AskAgain, Doomed
  <2>2. QED  BY <1>0, <1>9, <2>1, AskedSets DEF SetsCovered, InFlight
<1>10. CASE Flushed
  <2>1. pc = "flush" /\ UNCHANGED <<sets, orphans>> /\ unused' = unused \ {current}
    BY <1>10 DEF Flushed, frameVars
  <2>2. ~Doomed
    BY <2>1 DEF Doomed
  <2>3. \A i \in 1..Len(sets) : InFlight(i) \/ i = current => \E k \in 1..Len(inflight') : inflight'[k].frame = i
    BY <1>0, <1>10, AfterFlush DEF InFlight
  <2>4. QED  BY <1>0, <2>1, <2>2, <2>3 DEF SetsCovered, InFlight
<1>11. \/ NewSet \/ RecreateSets \/ RegisterFrameset \/ SetRenderPass \/ MarkStale \/ Recreate
       \/ AcquireFails \/ ReplaceFramebuffers \/ RecreateBuffers \/ Recreated \/ Begin \/ Panic
       \/ Cancelled \/ Acquire \/ BuildCommands \/ AskAgain \/ Flushed \/ FlushFails
       \/ UNCHANGED <<sets, inflight, orphans, unused, pc, stale, todo, framesets>>
  <2>1. CASE Attach \/ NewUniform \/ MarkBuffers \/ Change \/ Write
    BY <2>1 DEF Attach, NewUniform, MarkBuffers, Change, Write, frameVars, gpuVars, auxVars
  <2>2. CASE Resize \/ FontUpdated \/ SubUpdated \/ LockBuffers
    BY <2>2 DEF Resize, FontUpdated, SubUpdated, LockBuffers, rendererVars, frameVars, gpuVars, auxVars
  <2>3. QED  BY <2>1, <2>2 DEF Next, RenderStep, AppStep
<1>12. QED
  BY <1>1, <1>2, <1>3, <1>4, <1>5, <1>6, <1>7, <1>8, <1>9, <1>10, <1>11

-----------------------------------------------------------------------------
(* A buffer is written at rest. *)

Writes(i) ==
  i \in DOMAIN buffers \cap DOMAIN buffers' /\ buffers[i].value.content # buffers'[i].value.content

LEMMA WrittenAtRest ==
  ASSUME RenderInv, Next, NEW i, Writes(i)
  PROVE  ~ReadNow(i) /\ (i \in orphans => i \in unused)
<1>0. TypeInv /\ MadeSoFar /\ AskedBefore /\ OwnBuffer /\ SetsCovered /\ FrameAwaited
  BY DEF RenderInv
<1>1. Len(buffers) \in Nat /\ DOMAIN buffers = 1..Len(buffers) /\ i \in 1..Len(buffers)
  BY <1>0, LenProperties DEF TypeInv, FramesOf, Writes
<1>2. ~ UNCHANGED buffers
  BY DEF Writes
<1>3. CASE NewUniform
  <2>1. buffers = <<>>
    BY <1>0, <1>3 DEF NewUniform, MadeSoFar
  <2>2. QED  BY <1>1, <2>1, EmptySeq
<1>4. CASE MarkBuffers
  BY <1>0, <1>1, <1>4, Marked DEF Writes
<1>5. CASE RecreateBuffers
  <2>1. buffers' = CreateFrames(chain.count, buffers, Data)
    BY <1>5 DEF RecreateBuffers, KeepExisting
  <2>2. /\ DOMAIN buffers' = 1..chain.count
        /\ \A k \in 1..chain.count : k <= Len(buffers) => buffers'[k] = buffers[k]
    BY <2>1 DEF CreateFrames
  <2>3. buffers'[i] = buffers[i]
    BY <1>1, <2>2 DEF Writes
  <2>4. QED  BY <2>3 DEF Writes
<1>6. CASE BuildCommands \/ AskAgain
  <2>1. /\ pc \in {"build", "again"} /\ DescriptorSet
        /\ current <= Len(sets) /\ Len(sets) \in Nat /\ current \in Nat
    BY <1>0, <1>2, <1>6, LenProperties
       DEF BuildCommands, AskAgain, AskedBefore, OutOfBounds, TypeInv, FramesOf
  <2>2. sets[current].value # NoData /\ buffers' = [buffers EXCEPT ![current].value = Data]
    BY <1>2, <2>1 DEF DescriptorSet, UpdateSource
  <2>3. i = current
    BY <1>1, <2>2 DEF Writes
  <2>4. i \in 1..Len(sets) /\ i # 0
    BY <1>1, <2>1, <2>3
  <2>5. ~InFlight(i) /\ ~Doomed
    BY <1>0, <2>1, <2>3 DEF FrameAwaited, Doomed
  <2>6. i \in orphans => i \in unused
    BY <1>0, <2>2, <2>3, <2>4, <2>5 DEF SetsCovered
  <2>7. \A k \in DOMAIN inflight : k \in 1..Len(inflight)
    BY <1>0, LenProperties DEF TypeInv
  <2>8. ~ReadNow(i)
    BY <1>0, <2>4, <2>5, <2>7 DEF ReadNow, OwnBuffer, InFlight
  <2>9. QED  BY <2>6, <2>8
<1>7. NewUniform \/ MarkBuffers \/ RecreateBuffers \/ BuildCommands \/ AskAgain
  <2>1. CASE Attach \/ NewSet \/ RegisterFrameset \/ Change \/ Write \/ SetRenderPass \/ Resize
    BY <1>2, <2>1 DEF Attach, NewSet, RegisterFrameset, Change, Write, SetRenderPass, Resize, frameVars
  <2>2. CASE FontUpdated \/ SubUpdated \/ LockBuffers \/ MarkStale \/ Recreate \/ ReplaceFramebuffers
    BY <1>2, <2>2 DEF FontUpdated, SubUpdated, LockBuffers, MarkStale, Recreate, ReplaceFramebuffers,
                      rendererVars, frameVars
  <2>3. CASE RecreateSets \/ Recreated \/ Begin \/ AcquireFails \/ Acquire
    BY <1>2, <2>3 DEF RecreateSets, Recreated, Begin, AcquireFails, Acquire, frameVars
  <2>4. CASE Panic \/ Flushed \/ FlushFails \/ Cancelled
    BY <1>2, <2>4 DEF Panic, Flushed, FlushFails, Cancelled, frameVars
  <2>5. QED  BY <2>1, <2>2, <2>3, <2>4 DEF Next, RenderStep, AppStep
<1>8. QED  BY <1>3, <1>4, <1>5, <1>6, <1>7

LEMMA InitRender == Init => RenderInv
<1> SUFFICES ASSUME Init PROVE RenderInv
  OBVIOUS
<1>1. TypeInv
  BY InitTyped
<1>2. MadeSoFar /\ AskedBefore /\ TodoFrom /\ HeldAtBuffers /\ FrameAwaited
  BY DEF Init, MadeSoFar, AskedBefore, TodoFrom, HeldAtBuffers, FrameAwaited
<1>3. SetsCovered /\ OwnBuffer
  <2>1. sets = <<>> /\ inflight = <<>> /\ Len(<<>>) = 0
    BY EmptySeq DEF Init
  <2>2. QED  BY <2>1 DEF SetsCovered, OwnBuffer
<1>4. QED  BY <1>1, <1>2, <1>3 DEF RenderInv

LEMMA RenderKept == RenderInv /\ [Next]_vars => RenderInv'
<1>1. ASSUME RenderInv, Next
      PROVE  RenderInv'
  BY <1>1, TypeKept, MadeKept, AskedKept, HeldKept, OwnKept, CoveredKept, AwaitedKept DEF RenderInv
<1>2. ASSUME RenderInv, UNCHANGED vars
      PROVE  RenderInv'
  <2>1. TypeInv'
    BY <1>2 DEF vars, gpuVars, frameVars, appVars, valueVars, subVars, RenderInv, TypeInv
  <2>2. MadeSoFar' /\ AskedBefore'
    BY <1>2 DEF vars, frameVars, appVars, RenderInv, MadeSoFar, AskedBefore, Scene, OutOfBounds
  <2>3. TodoFrom' /\ HeldAtBuffers' /\ FrameAwaited' /\ OwnBuffer'
    BY <1>2 DEF vars, gpuVars, frameVars, RenderInv, TodoFrom, HeldAtBuffers, FrameAwaited, OwnBuffer, InFlight
  <2>4. SetsCovered'
    BY <1>2 DEF vars, gpuVars, auxVars, frameVars, RenderInv, SetsCovered, InFlight, Doomed
  <2>5. QED  BY <2>1, <2>2, <2>3, <2>4 DEF RenderInv
<1>3. QED  BY <1>1, <1>2

\* A uniform's buffer is written only when no command that reads it may still
\* be under way, but for those of an old swapchain until a command with the
\* frame's new set is submitted (BuffersAtRest, Uniform::update_descriptor_source).
THEOREM BuffersWrittenAtRest == Spec => BuffersAtRest
<1>1. RenderInv /\ [Next]_vars =>
        [\A i \in DOMAIN buffers \cap DOMAIN buffers' :
           buffers[i].value.content # buffers'[i].value.content =>
             ~ReadNow(i) /\ (i \in orphans => i \in unused)]_buffers
  <2> SUFFICES ASSUME RenderInv, [Next]_vars, ~ UNCHANGED buffers,
                      NEW i \in DOMAIN buffers \cap DOMAIN buffers',
                      buffers[i].value.content # buffers'[i].value.content
               PROVE  ~ReadNow(i) /\ (i \in orphans => i \in unused)
    OBVIOUS
  <2>1. Next
    BY DEF vars, frameVars
  <2>2. QED  BY <2>1, WrittenAtRest DEF Writes
<1>2. QED  BY <1>1, InitRender, RenderKept, PTL DEF Spec, BuffersAtRest

-----------------------------------------------------------------------------
(* The font, the sheet and the sampler. *)

LEMMA FollowKept == FollowInv /\ [Next]_vars => FollowInv'
<1> SUFFICES ASSUME FollowInv, [Next]_vars PROVE FollowInv'
  OBVIOUS
<1>1. CASE Attach
  <2>1. CASE app = "load sheet"
    BY <1>1, <2>1 DEF Attach, LoadSub, FollowInv, AttachedSoFar
  <2>2. CASE app = "push sheet"
    BY <1>1, <2>2 DEF Attach, PushSub, FollowInv, AttachedSoFar
  <2>3. CASE app = "new sampler"
    BY <1>1, <2>3 DEF Attach, NewSampler, FollowInv, AttachedSoFar
  <2>4. CASE app = "attach callback"
    BY <1>1, <2>4 DEF Attach, AttachCallback, FollowInv, AttachedSoFar
  <2>5. QED  BY <1>1, <2>1, <2>2, <2>3, <2>4 DEF Attach
<1>2. CASE Flushed \/ FlushFails
  <2>1. app' = app
    BY <1>2 DEF Flushed, FlushFails, appVars
  <2>2. QED  BY <1>2, <2>1 DEF Flushed, FlushFails, Replace, FollowInv, AttachedSoFar
<1>3. CASE FontUpdated
  BY <1>3 DEF FontUpdated, UpdateFont, FollowInv, AttachedSoFar, rendererVars, appVars
<1>4. CASE SubUpdated
  <2>1. app' = app
    BY <1>4 DEF SubUpdated, rendererVars, appVars
  <2>2. CASE UpdateSheet
    BY <2>1, <2>2 DEF UpdateSheet, FollowInv, AttachedSoFar
  <2>3. CASE UpdateCallbacks
    BY <2>1, <2>3 DEF UpdateCallbacks, FollowInv, AttachedSoFar
  <2>4. QED  BY <1>4, <2>2, <2>3 DEF SubUpdated, SubStep
<1>5. CASE /\ UNCHANGED subVars
           /\ app' = app \/ app' \notin {"load sheet", "push sheet", "new sampler", "attach callback"}
  BY <1>5 DEF FollowInv, AttachedSoFar, subVars
<1>6. \/ Attach \/ Flushed \/ FlushFails \/ FontUpdated \/ SubUpdated
      \/ /\ UNCHANGED subVars
         /\ app' = app \/ app' \notin {"load sheet", "push sheet", "new sampler", "attach callback"}
  <2>1. CASE NewUniform \/ NewSet \/ RegisterFrameset \/ MarkBuffers \/ Change \/ Write
    BY <2>1 DEF NewUniform, NewSet, RegisterFrameset, MarkBuffers, Change, Write
  <2>2. CASE SetRenderPass \/ Resize \/ MarkStale \/ Recreate \/ ReplaceFramebuffers \/ LockBuffers
    BY <2>2 DEF SetRenderPass, Resize, MarkStale, Recreate, ReplaceFramebuffers, LockBuffers, appVars
  <2>3. CASE RecreateBuffers \/ RecreateSets \/ Recreated \/ Begin \/ AcquireFails \/ Acquire
    BY <2>3 DEF RecreateBuffers, RecreateSets, Recreated, Begin, AcquireFails, Acquire, appVars
  <2>4. CASE BuildCommands \/ AskAgain \/ Panic \/ Cancelled \/ UNCHANGED vars
    BY <2>4 DEF BuildCommands, AskAgain, Panic, Cancelled, appVars, vars
  <2>5. QED  BY <2>1, <2>2, <2>3, <2>4 DEF Next, RenderStep, AppStep
<1>7. QED  BY <1>1, <1>2, <1>3, <1>4, <1>5, <1>6

\* Between two updates the sampler shows the sheet and the sheet is made of
\* the font, but for what was attached to a value that had been replaced
\* (SubResourcesFollow, Resource::update_sub_resources).
THEOREM SamplerFollowsFont == Spec => []SubResourcesFollow
<1>1. Init => FollowInv
  BY DEF Init, SubInit, FollowInv, AttachedSoFar
<1>2. FollowInv => SubResourcesFollow
  BY DEF FollowInv, SubResourcesFollow
<1>3. QED  BY <1>1, <1>2, FollowKept, PTL DEF Spec
=============================================================================
