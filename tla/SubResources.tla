----------------------------- MODULE SubResources -----------------------------
(* A resource, a sub-resource made of it, and a callback on the sub-resource  *)
(* (resource/mod.rs): the font, a sheet of its glyphs, and the sampler that a *)
(* renderer draws with (render/font).  The application's thread attaches them *)
(* while a worker brings an update of the font down to the sampler.  Values   *)
(* are counted; a value is replaced at the end of a frame.                    *)
EXTENDS Naturals

CONSTANT MaxFonts   \* bound: updates of the font

VARIABLES
  font, sheet, image,   \* the versions that the resources and the sampler are made of
  fonts,                \* the newest version of the font that was read
  attached,             \* the entries of sub_resources: "sheet" of the font, "callback" of the sheet
  worker,               \* where the update is
  missed                \* auxiliary: what was made of a value that was replaced before it was attached

subVars == <<font, sheet, image, fonts, attached, worker, missed>>

SubInit ==
  /\ font = 0 /\ sheet = 0 /\ image = 0 /\ fonts = 0
  /\ attached = {} /\ worker = "idle" /\ missed = {}

(* Resource::attach_sub_resource: the value is made of the parent's first ... *)
LoadSub == sheet' = font /\ UNCHANGED <<font, image, fonts, attached, worker, missed>>

(* ... and attached afterwards.  The list is locked while an update goes      *)
(* through it; with one sub-resource nothing is attached while it does.       *)
PushSub ==
  /\ attached' = attached \cup {"sheet"}
  /\ missed' = IF sheet # font THEN missed \cup {"sheet"} ELSE missed
  /\ UNCHANGED <<font, sheet, image, fonts, worker>>

(* FontSheetRenderer::new: the sampler is given the sheet's image, and then   *)
(* Resource::attach_update_callback.                                          *)
NewSampler == image' = sheet /\ UNCHANGED <<font, sheet, fonts, attached, worker, missed>>

AttachCallback ==
  /\ attached' = attached \cup {"callback"}
  /\ missed' = IF image # sheet THEN missed \cup {"callback"} ELSE missed
  /\ UNCHANGED <<font, sheet, image, fonts, worker>>

----------------------------------------------------------------------------
(* The update of the font.  GlyphFontLoader::update and FontSheetLoader::     *)
(* update register for the end of a frame and wait for it; whoever started    *)
(* them waits until the ResourceMut is dropped.                               *)
UpdateFont ==
  /\ worker = "idle" /\ fonts < MaxFonts /\ fonts' = fonts + 1 /\ worker' = "font waits"
  /\ UNCHANGED <<font, sheet, image, attached, missed>>

(* Mutant: a sub-resource that was replaced does not update its own. *)
ReplaceAlone ==
  /\ font' = IF worker = "font waits" THEN fonts ELSE font
  /\ sheet' = IF worker = "sheet waits" THEN font ELSE sheet
  /\ worker' = CASE worker = "font waits" -> "font replaced" [] worker = "sheet waits" -> "idle" [] OTHER -> worker
  /\ UNCHANGED <<image, fonts, attached, missed>>

(* What the handlers registered for the end of a frame do. *)
Replace ==
  /\ font' = IF worker = "font waits" THEN fonts ELSE font
  /\ sheet' = IF worker = "sheet waits" THEN font ELSE sheet
  /\ worker' = CASE worker = "font waits" -> "font replaced" [] worker = "sheet waits" -> "sheet replaced" [] OTHER -> worker
  /\ missed' = IF worker = "sheet waits" THEN missed \ {"sheet"} ELSE missed
  /\ UNCHANGED <<image, fonts, attached>>

(* Resource::update_sub_resources of the font: the sheet, if it is attached,  *)
(* is made anew of the parent's value.                                        *)
UpdateSheet ==
  /\ worker = "font replaced"
  /\ worker' = IF "sheet" \in attached THEN "sheet waits" ELSE "idle"
  /\ UNCHANGED <<font, sheet, image, fonts, attached, missed>>

(* ... and of the sheet: the callback sets the image view of the sampler.     *)
UpdateCallbacks ==
  /\ worker = "sheet replaced" /\ worker' = "idle"
  /\ IF "callback" \in attached THEN image' = sheet /\ missed' = missed \ {"callback"}
     ELSE UNCHANGED <<image, missed>>
  /\ UNCHANGED <<font, sheet, fonts, attached>>

SubStep == UpdateSheet \/ UpdateCallbacks

----------------------------------------------------------------------------
(* When no update is under way, the sampler shows the sheet and the sheet is  *)
(* made of the font, except for what was attached after the value it was made *)
(* of had been replaced.                                                      *)
SubResourcesFollow ==
  worker = "idle" =>
    /\ "sheet" \in attached /\ "sheet" \notin missed => sheet = font
    /\ "callback" \in attached /\ missed = {} => image = sheet
=============================================================================
