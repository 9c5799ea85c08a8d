------------------------------- MODULE Renderer -------------------------------
(* A window's renderer (render/mod.rs) with its swapchain (swapchain.rs), a   *)
(* uniform or a uniform set (uniform.rs), a descriptor set that refers to it, *)
(* to a font sheet (image.rs, see SubResources) and to an attachment that     *)
(* another subpass writes (attachment.rs), and a graphics pipeline            *)
(* (pipeline.rs).  The window's thread renders; the application's thread      *)
(* makes the uniform and the descriptor set and then writes to the uniform; a *)
(* worker updates the font sheet; the surface changes its size at any time.   *)
(*                                                                            *)
(* A command is in flight from its submission until the renderer has waited   *)
(* for its fence or a later one: when the device really ends it is not seen   *)
(* by the host.  Of what an old swapchain has in flight only what it reads    *)
(* matters.  The state's lock is held for a whole call of render(), so that   *)
(* nothing else that takes it runs between pc = "idle" and "idle".            *)
EXTENDS Naturals, Sequences, SubResources, FiniteSets, TLC

CONSTANTS Counts,        \* the numbers of images a swapchain may come with
          Capacity,      \* of the uniform set; a Uniform is like one of capacity 1
          MaxChanges, MaxWrites,   \* bounds
          NoData, NoPipeline
ASSUME CountsAssumption ==
  /\ Counts \subseteq Nat \ {0} /\ Counts # {}
  /\ Capacity \in Nat \ {0}

VARIABLES
  surface,    \* the extent of the render target, counted by its changes
  resized,    \* a Resized event waits in the window's queue
  stale, chain, current,           \* RendererState, EngineSwapchain, current_idx
  framesets, todo,                 \* the registered sets; the one that recreate() has come to
  pc,                              \* where the window's thread is
  inflight,                        \* submitted commands not waited for
  orphans,                         \* the buffers that such commands of an old swapchain read
  buffers, held,                   \* the uniform's frames; the window's thread holds their lock
  sets,                            \* the descriptor set's frames
  value, writes,                   \* the uniform's values, how often they were written
  app, passes,                     \* the application's thread
  pipeline,                        \* the extent of the pipeline's viewport
  shown,                           \* auxiliary: what the last submitted command reads
  unused                           \* auxiliary: the frames with a set that no submitted command has used

auxVars == <<shown, unused>>
frameVars == <<chain, current, framesets, buffers, sets>>
valueVars == <<value, writes>>
appVars == <<valueVars, app, passes>>
gpuVars == <<inflight, orphans>>
vars == <<surface, resized, stale, todo, pc, gpuVars, held, pipeline, auxVars, frameVars, subVars, appVars>>

Init ==
  /\ surface = 0 /\ resized = FALSE /\ stale = FALSE
  /\ \E n \in Counts : chain = [extent |-> 0, count |-> n, inputs |-> 0]
  /\ current = 1 /\ framesets = <<>> /\ todo = 0 /\ pc = "idle" /\ inflight = <<>> /\ orphans = {}
  /\ buffers = <<>> /\ held = FALSE /\ sets = <<>>
  /\ value = <<0>> /\ writes = 0 /\ app = "load sheet" /\ passes = 0 /\ SubInit
  /\ pipeline = NoPipeline /\ shown = NoData /\ unused = {}

----------------------------------------------------------------------------
(* Per-frame data kept in step with the framebuffers (frame.rs).  A frame is  *)
(* a record of the index of the framebuffer it was made for and its value.    *)

(* FrameSet::create_frames: the existing frames first, as many as there are   *)
(* framebuffers, and new ones for the framebuffers that have none.            *)
CreateFrames(count, existing, data) ==
  [i \in 1..count |-> IF i <= Len(existing) THEN existing[i] ELSE [buffer |-> i, value |-> data]]

(* FrameSet::recreate in its two update styles. *)
KeepExisting(count, frames, data) == CreateFrames(count, frames, data)
RecreateAll(count, frames, data) == CreateFrames(count, <<>>, data)

(* FrameSet::for_each: every frame's value changed by the same function. *)
ForEach(frames, F(_)) == [i \in DOMAIN frames |-> [frames[i] EXCEPT !.value = F(@)]]

----------------------------------------------------------------------------
(* The application's thread.  FrameSet::with_update_style makes the frames    *)
(* for the framebuffers of this moment and registers the set afterwards; the  *)
(* list of sets is locked while a recreation goes through it.                 *)

(* FontSheet::from_font and FontSheetRenderer::new, up to the descriptor set. *)
Attach ==
  /\ \/ app = "load sheet" /\ LoadSub /\ app' = "push sheet"
     \/ app = "push sheet" /\ PushSub /\ app' = "new sampler"
     \/ app = "new sampler" /\ NewSampler /\ app' = "attach callback"
     \/ app = "attach callback" /\ AttachCallback /\ app' = "new uniform"
  /\ UNCHANGED <<surface, resized, stale, todo, pc, gpuVars, held, pipeline, auxVars, frameVars, valueVars, passes>>

(* fill_buffer: the values in their places, then nothing but zeros. *)
Filled ==
  [bytes |-> [i \in 1..Capacity |-> IF i <= Len(value) THEN value[i] ELSE 0], len |-> Len(value)]

Data == [content |-> Filled, stale |-> FALSE]

NewUniform ==
  /\ app = "new uniform" /\ app' = "register uniform"
  /\ buffers' = CreateFrames(chain.count, <<>>, Data)
  /\ UNCHANGED <<surface, resized, stale, todo, pc, gpuVars, held, pipeline, auxVars, chain, current, framesets,
                 sets, valueVars, passes, subVars>>

NewSet ==
  /\ app = "new set" /\ app' = "register set"
  /\ sets' = CreateFrames(chain.count, <<>>, NoData)
  /\ UNCHANGED <<surface, resized, stale, todo, pc, gpuVars, held, pipeline, auxVars, chain, current, framesets,
                 buffers, valueVars, passes, subVars>>

RegisterFrameset ==
  /\ app \in {"register uniform", "register set"} /\ pc # "framesets"
  /\ framesets' = Append(framesets, IF app = "register uniform" THEN "uniform" ELSE "set")
  /\ app' = IF app = "register uniform" THEN "new set" ELSE "ready"
  /\ UNCHANGED <<surface, resized, stale, todo, pc, gpuVars, held, pipeline, auxVars, chain, current,
                 buffers, sets, valueVars, passes, subVars>>

(* Uniform::write: the value's lock, then every buffer is marked as stale     *)
(* under the frames' lock, and the value is changed while the guard is held.  *)
(* (A bound: values are added until the set is full, then the last replaced.) *)
Write ==
  /\ app = "ready" /\ writes < MaxWrites /\ app' = "value"
  /\ UNCHANGED <<surface, resized, stale, todo, pc, gpuVars, held, pipeline, auxVars, frameVars, valueVars, passes,
                 subVars>>

MarkBuffers ==
  /\ app = "value" /\ ~held /\ app' = "guard"
  /\ buffers' = ForEach(buffers, LAMBDA b : [b EXCEPT !.stale = TRUE])
  /\ UNCHANGED <<surface, resized, stale, todo, pc, gpuVars, held, pipeline, auxVars, chain, current, framesets,
                 sets, valueVars, passes, subVars>>

Change ==
  /\ app = "guard" /\ app' = "ready" /\ writes' = writes + 1
  /\ value' = IF Len(value) < Capacity THEN Append(value, writes + 1)
              ELSE [value EXCEPT ![Capacity] = writes + 1]
  /\ UNCHANGED <<surface, resized, stale, todo, pc, gpuVars, held, pipeline, auxVars, frameVars, passes, subVars>>

ValueLocked == app \in {"value", "guard"}

(* Renderer::set_render_pass: another pass with the same handlers. *)
SetRenderPass ==
  /\ app = "ready" /\ pc = "idle" /\ surface + passes < MaxChanges
  /\ passes' = passes + 1 /\ stale' = TRUE
  /\ UNCHANGED <<surface, resized, todo, pc, gpuVars, held, pipeline, auxVars, frameVars, valueVars, app, subVars>>

----------------------------------------------------------------------------
(* The surface, and the window's thread between two calls of render(). *)
Resize ==
  /\ surface + passes < MaxChanges /\ surface' = surface + 1 /\ resized' = TRUE
  /\ UNCHANGED <<stale, todo, pc, gpuVars, held, pipeline, auxVars, frameVars, appVars, subVars>>

(* Renderer::mark_stale *)
MarkStale ==
  /\ pc = "idle" /\ resized /\ resized' = FALSE /\ stale' = TRUE
  /\ UNCHANGED <<surface, todo, pc, gpuVars, held, pipeline, auxVars, frameVars, appVars, subVars>>

(* Renderer::render: EngineSwapchain::recreate takes the target's extent ...  *)
Recreate ==
  /\ pc = "idle" /\ stale /\ pc' = "swapchain"
  /\ chain' = [chain EXCEPT !.extent = surface]
  /\ UNCHANGED <<surface, resized, stale, todo, held, gpuVars, pipeline, auxVars, current, framesets, buffers, sets,
                 appVars, subVars>>

(* EngineFramebuffer::for_images: the attachments that one subpass writes and *)
(* another reads are images of the extent that the target has by now.         *)
NewFramebuffers(n) == [chain EXCEPT !.count = n, !.inputs = surface]

(* ... and SwapchainFrameManager::recreate replaces the framebuffers first;   *)
(* nobody waits for what the old ones have in flight.                         *)
ReplaceFramebuffers ==
  /\ pc = "swapchain" /\ pc' = "framesets" /\ todo' = 1
  /\ \E n \in Counts : chain' = NewFramebuffers(n)
  /\ current' = 1
  /\ inflight' = <<>> /\ orphans' = orphans \cup ({inflight[k].reads : k \in DOMAIN inflight} \ {0})
  /\ UNCHANGED <<surface, resized, stale, held, pipeline, auxVars, framesets, buffers, sets, appVars, subVars>>

(* FrameSet::recreate of the uniform's buffers, which keeps those there are:  *)
(* the frames are locked, and a new one reads the value under its lock.       *)
LockBuffers ==
  /\ pc = "framesets" /\ todo <= Len(framesets) /\ framesets[todo] = "uniform" /\ ~held /\ held' = TRUE
  /\ UNCHANGED <<surface, resized, stale, todo, pc, gpuVars, pipeline, auxVars, frameVars, appVars, subVars>>

RecreateBuffers ==
  /\ held /\ held' = FALSE /\ todo' = todo + 1
  /\ chain.count > Len(buffers) => ~ValueLocked
  /\ buffers' = KeepExisting(chain.count, buffers, Data)
  /\ orphans' = {b \in orphans : b <= chain.count}
  /\ UNCHANGED <<surface, resized, stale, pc, inflight, pipeline, auxVars, chain, current, framesets, sets, appVars,
                 subVars>>

RecreateSets ==
  /\ pc = "framesets" /\ todo <= Len(framesets) /\ framesets[todo] = "set" /\ todo' = todo + 1
  /\ sets' = RecreateAll(chain.count, sets, NoData) /\ unused' = {}
  /\ UNCHANGED <<surface, resized, stale, pc, gpuVars, held, pipeline, shown, chain, current, framesets, buffers,
                 appVars, subVars>>

(* The flag is cleared under the upgraded lock, then RendererStaleEvent makes *)
(* EngineGraphicsPipeline forget its pipeline.                                *)
Recreated ==
  /\ pc = "framesets" /\ todo > Len(framesets) /\ pc' = "pre" /\ todo' = 0
  /\ stale' = FALSE /\ pipeline' = NoPipeline
  /\ UNCHANGED <<surface, resized, gpuVars, held, auxVars, frameVars, appVars, subVars>>

Begin ==
  /\ pc = "idle" /\ ~stale /\ pc' = "pre"
  /\ UNCHANGED <<surface, resized, stale, todo, gpuVars, held, pipeline, auxVars, frameVars, appVars, subVars>>

(* RendererPreEvent: a handler may cancel the frame. *)
Cancelled ==
  /\ pc = "pre" /\ pc' = "idle"
  /\ UNCHANGED <<surface, resized, stale, todo, gpuVars, held, pipeline, auxVars, frameVars, appVars, subVars>>

(* Mutant: the frame's fence is not waited for. *)
NoWait(frame) == inflight

(* EngineFramebuffer::wait_ready: with a command, all that were submitted     *)
(* before it have ended, those of old swapchains too.                         *)
WaitReady(frame) ==
  LET last == {i \in DOMAIN inflight : inflight[i].frame = frame} IN
    IF last = {} THEN inflight
    ELSE SubSeq(inflight, 1 + (CHOOSE i \in last : \A j \in last : j <= i), Len(inflight))

OutOfDate == surface # chain.extent

(* EngineSwapchain::acquire_next_frame *)
AcquireFails ==
  /\ pc = "pre" /\ OutOfDate /\ stale' = TRUE /\ pc' = "idle"
  /\ UNCHANGED <<surface, resized, todo, gpuVars, held, pipeline, auxVars, frameVars, appVars, subVars>>

Acquire ==
  /\ pc = "pre" /\ pc' = "build"
  /\ \E i \in 1..chain.count, suboptimal \in {FALSE, OutOfDate} :
       /\ current' = i /\ stale' = (stale \/ suboptimal)
       /\ inflight' = WaitReady(i) /\ orphans' = IF WaitReady(i) = inflight THEN orphans ELSE {}
  /\ UNCHANGED <<surface, resized, todo, held, pipeline, auxVars, chain, framesets, buffers, sets, appVars,
                 subVars>>

----------------------------------------------------------------------------
(* build_commands: the handlers ask the pipeline for its object and the       *)
(* descriptor set for the frame's descriptors, once or twice: the lighting of *)
(* the example asks with and without offsets (render_util.rs:326, 331).       *)

(* Uniform::update_descriptor_source *)
UpdateSource(i) ==
  IF buffers[i].value.stale THEN [buffers EXCEPT ![i].value = Data] ELSE buffers

(* AttachmentDescriptor: the image of the frame's attachment. *)
InputAttachment == chain.inputs

(* What the descriptors of a set are written from, apart from the buffer. *)
Sources == <<image, InputAttachment>>

(* Mutant: a set that there is is used as it is. *)
SetReused ==
  /\ sets' = IF sets[current].value = NoData THEN [sets EXCEPT ![current].value = Sources] ELSE sets
  /\ UNCHANGED <<buffers, unused>>

(* EngineDescriptorSet::descriptor_set: without a set for the frame one is    *)
(* made from the sources as they are; else the sources are brought up to date *)
(* and the set is made anew if the hash of one of them changed.               *)
DescriptorSet ==
  \/ /\ sets[current].value = NoData
     /\ sets' = [sets EXCEPT ![current].value = Sources] /\ unused' = unused \cup {current}
     /\ UNCHANGED buffers
  \/ /\ sets[current].value # NoData /\ ~ValueLocked
     /\ buffers' = UpdateSource(current)
     /\ sets' = [sets EXCEPT ![current].value = Sources]
     /\ UNCHANGED unused

(* No handler draws with the set before the application has it. *)
Scene == app \in {"ready", "value", "guard"}
OutOfBounds == current > Len(sets) \/ current > Len(buffers)

(* EngineGraphicsPipeline::vk_graphics: made anew with the target's extent if  *)
(* there is none.                                                             *)
VkGraphics == IF pipeline = NoPipeline THEN surface ELSE pipeline

BuildCommands ==
  /\ pc = "build"
  /\ pipeline' = VkGraphics
  /\ \/ /\ ~Scene /\ pc' = "flush"
        /\ UNCHANGED <<buffers, sets, unused>>
     \/ /\ Scene /\ ~OutOfBounds /\ DescriptorSet
        /\ pc' \in {"flush", "again"}
  /\ UNCHANGED <<surface, resized, stale, todo, gpuVars, held, shown, chain, current, framesets, appVars,
                 subVars>>

AskAgain ==
  /\ pc = "again" /\ pc' = "flush"
  /\ DescriptorSet
  /\ UNCHANGED <<surface, resized, stale, todo, gpuVars, held, pipeline, shown, chain, current, framesets, appVars,
                 subVars>>

(* FrameSet::current and the unwrap of FrameSet::get: the thread ends. *)
Panic ==
  /\ pc = "build" /\ Scene /\ OutOfBounds /\ pc' = "panicked"
  /\ UNCHANGED <<surface, resized, stale, todo, gpuVars, held, pipeline, auxVars, frameVars, appVars, subVars>>

(* descriptor_offsets: one for each value that the buffer has. *)
Offsets(content) == 1..content.len

(* What is drawn at each of them. *)
Read(content) == [i \in Offsets(content) |-> content.bytes[i]]

Drawn == current <= Len(sets) /\ sets[current].value # NoData

(* EngineFramebuffer::flush_command, and the end of render(): on              *)
(* RendererPostEvent resources that waited for it are replaced.               *)
Flushed ==
  /\ pc = "flush" /\ pc' = "idle"
  /\ inflight' = Append(inflight, [frame |-> current, reads |-> IF Drawn THEN current ELSE 0])
  /\ unused' = unused \ {current}
  /\ shown' = IF Drawn THEN <<Read(buffers[current].value.content)>> \o sets[current].value ELSE NoData
  /\ Replace
  /\ UNCHANGED <<surface, resized, stale, todo, orphans, held, pipeline, frameVars, appVars>>

(* Without a fence: the swapchain is out of date, or else a warning is all.   *)
(* (What is not flushed is not in flight: the library is taken at that.)      *)
FlushFails ==
  /\ pc = "flush" /\ pc' = "idle"
  /\ stale' \in {stale, stale \/ OutOfDate}
  /\ Replace
  /\ UNCHANGED <<surface, resized, todo, gpuVars, held, pipeline, auxVars, frameVars, appVars>>

----------------------------------------------------------------------------
(* The updates of resources, on a worker. *)
rendererVars == <<surface, resized, stale, todo, pc, gpuVars, held, pipeline, auxVars, frameVars, appVars>>

FontUpdated == UpdateFont /\ UNCHANGED rendererVars
SubUpdated == SubStep /\ UNCHANGED rendererVars

----------------------------------------------------------------------------
RenderStep ==
  \/ MarkStale \/ Recreate \/ ReplaceFramebuffers \/ LockBuffers \/ RecreateBuffers \/ RecreateSets \/ Recreated
  \/ Begin \/ Cancelled \/ AcquireFails \/ Acquire \/ BuildCommands \/ AskAgain \/ Panic
  \/ Flushed \/ FlushFails
AppStep == Attach \/ NewUniform \/ NewSet \/ RegisterFrameset \/ MarkBuffers \/ Change
Next ==
  \/ RenderStep \/ AppStep \/ Write \/ SetRenderPass \/ Resize \/ FontUpdated \/ SubUpdated

(* The threads go on; the thread of a window handles what is in its queue     *)
(* between two frames; and frames are not cancelled, and do not fail to be    *)
(* flushed, for ever.                                                         *)
Fairness ==
  /\ WF_vars(RenderStep) /\ WF_vars(AppStep) /\ WF_vars(SubUpdated)
  /\ SF_vars(MarkStale) /\ SF_vars(Acquire) /\ SF_vars(Flushed)

Spec == Init /\ [][Next]_vars /\ Fairness
----------------------------------------------------------------------------
(* The uniform's value is locked by a writer that waits for the buffers'      *)
(* frames, and these by a recreation that waits for the value.                *)
LockCycle == held /\ app = "value" /\ chain.count > Len(buffers)
Stuck == pc = "panicked" \/ LockCycle

ReadNow(i) == \E k \in DOMAIN inflight : inflight[k].reads = i

(* A buffer is written only when no command that reads it may still be under  *)
(* way (else the unwrap of the write in Uniform::update_descriptor_source     *)
(* ends the thread).  After a recreation nobody waits for what the old        *)
(* swapchain has in flight, and the buffers are kept: the set for a frame is  *)
(* made from them as they are.  Until a command with that set is submitted, a *)
(* handler that asks again, in that frame or after its flush has failed, may  *)
(* write them while commands of the old swapchain read them.                  *)
BuffersAtRest ==
  [][\A i \in DOMAIN buffers \cap DOMAIN buffers' :
       buffers[i].value.content # buffers'[i].value.content =>
         ~ReadNow(i) /\ (i \in orphans => i \in unused)]_buffers

(* When the surface, the uniform and the font sheet have settled, the         *)
(* swapchain, its attachments and the pipeline have the extent of the surface *)
(* and what is drawn is the value and the sheet that came last, read from     *)
(* those attachments, unless the thread is stuck in one of the two ways it    *)
(* can be.                                                                    *)
CatchesUp ==
  <>[](\/ Stuck
       \/ /\ chain.extent = surface /\ chain.inputs = surface /\ pipeline \in {surface, NoPipeline}
          /\ app = "ready" => shown = <<value, image, surface>>)
=============================================================================
