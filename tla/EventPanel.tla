------------------------------ MODULE EventPanel ------------------------------
(***************************************************************************)
(* The panel of an event and the pictures (event.service.ts,               *)
(* collaborator.service.ts, profile.service.ts, supabase-storage.adapter): *)
(* a request reads the row it is about, checks it, and writes afterwards,  *)
(* to the database or to the storage and then to the database, with no     *)
(* transaction.  A picture has one path for ever, so whoever uploads and   *)
(* whoever removes handle the same object.                                 *)
(***************************************************************************)
EXTENDS Naturals, FiniteSets, Nulls

CONSTANTS
  Cards,          \* ids of events, never used twice
  Faces,          \* users, and their profiles' ids
  Chosen, Drawn,  \* slugs that users choose, and those with a random suffix
  Clicks,         \* requests in flight
  MaxClicks, MaxBlips     \* bounds: requests received; failures

ASSUME PanelAssumption ==
  /\ Chosen \cap Drawn = {} /\ Cards \cap Faces = {} /\ None \notin Cards \cup Faces \cup Chosen
  /\ {MaxClicks, MaxBlips} \subseteq Nat

VARIABLES
  card,       \* rows of events
  face,       \* rows of profiles
  role,       \* role[e][u]: event_collaborators
  pictures,   \* what has an object in the storage
  click,      \* click[q]: the locals of request q
  clicks, blips,
  tangled     \* history: pictures uploaded and removed at once, and removals cut short

panelVars == <<card, face, role, pictures, click, clicks, blips, tangled>>

Roles == {"admin", "invited", "read"}
NoCard == [is |-> "free", owner |-> None, slug |-> None, status |-> "draft", shown |-> FALSE]
NoFace == [is |-> "free", shown |-> FALSE]
NoClick == [at |-> "idle", what |-> None, user |-> None, slug |-> None, status |-> "draft",
            tries |-> 0, shown |-> FALSE]
MAX_RETRIES == 3

InitPanel ==
  /\ card = [e \in Cards |-> NoCard] /\ face = [u \in Faces |-> NoFace]
  /\ role = [e \in Cards |-> [u \in Faces |-> None]]
  /\ pictures = {} /\ tangled = {}
  /\ click = [q \in Clicks |-> NoClick] /\ clicks = 0 /\ blips = 0

Carded == {e \in Cards : card[e].is = "row"}
Faced == {u \in Faces : face[u].is = "row"}
Pictured == Carded \cup Faced
Shown(x) == IF x \in Cards THEN card[x].shown ELSE face[x].shown
SlugsTaken == {card[e].slug : e \in Carded}

Arrives(q, c) ==
  /\ click[q].at = "idle" /\ clicks < MaxClicks /\ clicks' = clicks + 1
  /\ click' = [click EXCEPT ![q] = c]
  /\ UNCHANGED <<card, face, role, pictures, blips, tangled>>
OneStatement(r) ==
  /\ clicks < MaxClicks /\ clicks' = clicks + 1 /\ role' = r
  /\ UNCHANGED <<card, face, pictures, click, blips, tangled>>
Over(q) == click' = [click EXCEPT ![q] = NoClick]
Stays == UNCHANGED <<clicks, blips>>

-----------------------------------------------------------------------------
(* Profiles: ensure. *)

Ensure(q) ==
  \E u \in Faces \ Faced : Arrives(q, [NoClick EXCEPT !.at = "sign up", !.user = u])

\* The id is the user's: of two that found none, the second fails.
CreateProfile(q) ==
  LET u == click[q].user IN
  /\ click[q].at = "sign up" /\ Over(q) /\ Stays
  /\ face' = IF u \in Faced THEN face ELSE [face EXCEPT ![u].is = "row"]
  /\ UNCHANGED <<card, role, pictures, tangled>>

-----------------------------------------------------------------------------
(* Events: create, update, updateStatus, delete. *)

assertSlugAvailable(s, e) == \A o \in Carded : card[o].slug = s => o = e

CreateEvent(q) ==
  \E u \in Faced, s \in Chosen \cup {None} :
    /\ s # None => assertSlugAvailable(s, None)
    /\ Arrives(q, [NoClick EXCEPT !.at = "insert", !.user = u, !.slug = s])

\* A slug drawn is drawn again if it is taken, up to three times; a chosen one is refused.
InsertEvent(q) ==
  \E s \in IF click[q].slug = None THEN Drawn ELSE {click[q].slug} :
    /\ click[q].at = "insert" /\ Stays
    /\ IF s \notin SlugsTaken
       THEN /\ \E e \in Cards : /\ card[e].is = "free" /\ e = CHOOSE o \in Cards : card[o].is = "free"
                                /\ card' = [card EXCEPT ![e] = [NoCard EXCEPT !.is = "row", !.owner = click[q].user, !.slug = s]]
            /\ Over(q)
       ELSE /\ IF click[q].slug = None /\ click[q].tries < MAX_RETRIES - 1
               THEN click' = [click EXCEPT ![q].tries = @ + 1] ELSE Over(q)
            /\ UNCHANGED card
    /\ UNCHANGED <<face, role, pictures, tangled>>

isEditable(c) == c.status \notin {"cancelled", "ended"}

UpdateEvent(q) ==
  \E e \in Carded, s \in Chosen :
    /\ isEditable(card[e])
    /\ Arrives(q, [NoClick EXCEPT !.at = "check slug", !.what = e, !.slug = s])
ChecksSlug(q) ==
  /\ click[q].at = "check slug" /\ Stays
  /\ IF assertSlugAvailable(click[q].slug, click[q].what)
     THEN click' = [click EXCEPT ![q].at = "update"] ELSE Over(q)
  /\ UNCHANGED <<card, face, role, pictures, tangled>>
\* The unique index refuses what the check let pass.
WriteUpdate(q) ==
  LET e == click[q].what IN
  /\ click[q].at = "update" /\ Over(q) /\ Stays
  /\ card' = IF e \in Carded /\ assertSlugAvailable(click[q].slug, e)
             THEN [card EXCEPT ![e].slug = click[q].slug] ELSE card
  /\ UNCHANGED <<face, role, pictures, tangled>>

STATUS_TRANSITIONS == [draft |-> {"published", "cancelled"}, published |-> {"cancelled", "ended"},
                       cancelled |-> {}, ended |-> {}]

UpdateStatus(q) ==
  \E e \in Carded : \E t \in STATUS_TRANSITIONS[card[e].status] :
    Arrives(q, [NoClick EXCEPT !.at = "status", !.what = e, !.status = t])
WriteStatus(q) ==
  LET e == click[q].what IN
  /\ click[q].at = "status" /\ Over(q) /\ Stays
  /\ card' = IF e \in Carded THEN [card EXCEPT ![e].status = click[q].status] ELSE card
  /\ UNCHANGED <<face, role, pictures, tangled>>

\* Whoever owns or administers the event deletes it; another leaves it.
DeleteEvent(q) ==
  \E e \in Carded, u \in Faced :
    /\ card[e].owner = u \/ role[e][u] # None
    /\ Arrives(q, [NoClick EXCEPT !.what = e, !.user = u,
         !.at = IF card[e].owner = u \/ role[e][u] = "admin" THEN "delete" ELSE "leave"])
\* The object of the cover is left where it is.
EventGoes(q) ==
  LET e == click[q].what IN
  /\ click[q].at = "delete" /\ Over(q) /\ Stays
  /\ card' = IF e \in Carded THEN [card EXCEPT ![e].is = "gone"] ELSE card
  /\ role' = [role EXCEPT ![e] = [u \in Faces |-> None]]
  /\ UNCHANGED <<face, pictures, tangled>>
LeavesEvent(q) ==
  /\ click[q].at = "leave" /\ Over(q) /\ Stays
  /\ role' = [role EXCEPT ![click[q].what][click[q].user] = None]
  /\ UNCHANGED <<card, face, pictures, tangled>>

-----------------------------------------------------------------------------
(* Collaborators. *)

AddCollaborator(q) ==
  \E e \in Carded, u \in Faced, r \in Roles :
    u # card[e].owner /\ Arrives(q, [NoClick EXCEPT !.at = "upsert", !.what = e, !.user = u, !.slug = r])
Upserts(q) ==
  LET e == click[q].what IN
  /\ click[q].at = "upsert" /\ Over(q) /\ Stays
  /\ role' = IF e \in Carded THEN [role EXCEPT ![e][click[q].user] = click[q].slug] ELSE role
  /\ UNCHANGED <<card, face, pictures, tangled>>
UpdateRole == \E e \in Carded, u \in Faced, r \in Roles :
  role[e][u] \notin {None, r} /\ OneStatement([role EXCEPT ![e][u] = r])
RemoveCollaborator == \E e \in Carded, u \in Faced :
  role[e][u] # None /\ OneStatement([role EXCEPT ![e][u] = None])

-----------------------------------------------------------------------------
(* uploadCover and uploadPhoto, deleteCover and deletePhoto. *)

Uploading == {"upload", "show"}
Removing == {"remove", "hide"}
Handling(x, steps) == \E q \in Clicks : click[q].what = x /\ click[q].at \in steps

UploadPicture(q) ==
  \E x \in Pictured : Arrives(q, [NoClick EXCEPT !.at = "upload", !.what = x])
RemovePicture(q) ==
  \E x \in Pictured : Arrives(q, [NoClick EXCEPT !.at = IF Shown(x) THEN "remove" ELSE "hide", !.what = x])

Tangles(x) ==
  tangled' = IF Handling(x, Uploading) /\ Handling(x, Removing) THEN tangled \cup {x} ELSE tangled
Blip == blips < MaxBlips /\ blips' = blips + 1 /\ UNCHANGED clicks

ShowsAnyway(q) ==
  /\ click[q].at = "upload"
  /\ click' = [click EXCEPT ![q].at = "show", ![q].shown = TRUE]
  /\ \/ Stays /\ pictures' = pictures \cup {click[q].what}
     \/ Blip /\ UNCHANGED pictures
  /\ Tangles(click[q].what) /\ UNCHANGED <<card, face, role>>

\* An upload that fails ends there ...
StoresObject(q) ==
  /\ click[q].at = "upload"
  /\ \/ /\ Stays /\ pictures' = pictures \cup {click[q].what}
        /\ click' = [click EXCEPT ![q].at = "show", ![q].shown = TRUE]
     \/ Blip /\ Over(q) /\ UNCHANGED pictures
  /\ Tangles(click[q].what) /\ UNCHANGED <<card, face, role>>

\* ... but a removal that fails goes on.
RemovesObject(q) ==
  /\ click[q].at = "remove" /\ click' = [click EXCEPT ![q].at = "hide"]
  /\ \/ Stays /\ pictures' = pictures \ {click[q].what}
     \/ Blip /\ UNCHANGED pictures
  /\ Tangles(click[q].what) /\ UNCHANGED <<card, face, role>>

WritesUrl(q) ==
  LET x == click[q].what IN
  /\ click[q].at \in {"show", "hide"} /\ Over(q) /\ Stays
  /\ card' = IF x \in Carded THEN [card EXCEPT ![x].shown = click[q].shown] ELSE card
  /\ face' = IF x \in Faced THEN [face EXCEPT ![x].shown = click[q].shown] ELSE face
  /\ Tangles(x) /\ UNCHANGED <<role, pictures>>

\* The database fails a request, or the process dies: a picture removed stays in its row.
WriteLost(q) ==
  /\ click[q].at # "idle" /\ Over(q) /\ Blip
  /\ tangled' = IF click[q].at = "hide" THEN tangled \cup {click[q].what} ELSE tangled
  /\ UNCHANGED <<card, face, role, pictures>>

NextPanel ==
  \/ \E q \in Clicks :
       \/ Ensure(q) \/ CreateProfile(q) \/ CreateEvent(q) \/ InsertEvent(q)
       \/ UpdateEvent(q) \/ ChecksSlug(q) \/ WriteUpdate(q) \/ UpdateStatus(q) \/ WriteStatus(q)
       \/ DeleteEvent(q) \/ EventGoes(q) \/ LeavesEvent(q) \/ AddCollaborator(q) \/ Upserts(q)
       \/ UploadPicture(q) \/ RemovePicture(q) \/ StoresObject(q) \/ RemovesObject(q) \/ WritesUrl(q) \/ WriteLost(q)
  \/ UpdateRole \/ RemoveCollaborator

SpecPanel == InitPanel /\ [][NextPanel]_panelVars

-----------------------------------------------------------------------------
(* What the panel of an event promises. *)

\* The type of every variable of the panel.
TypeOKPanel ==
  /\ card \in [Cards -> [is : {"free", "row", "gone"}, owner : Faces \cup {None},
                         slug : Chosen \cup Drawn \cup {None},
                         status : DOMAIN STATUS_TRANSITIONS, shown : BOOLEAN]]
  /\ face \in [Faces -> [is : {"free", "row"}, shown : BOOLEAN]]
  /\ role \in [Cards -> [Faces -> Roles \cup {None}]]
  /\ pictures \subseteq Cards \cup Faces /\ tangled \subseteq Cards \cup Faces
  /\ \A q \in Clicks : /\ click[q].what \in Cards \cup Faces \cup {None}
                       /\ click[q].user \in Faces \cup {None}
                       /\ click[q].tries \in 0..MAX_RETRIES - 1
  /\ clicks \in 0..MaxClicks /\ blips \in 0..MaxBlips

\* The cover of an event, or the photo of a profile, that is shown has its object in the
\* storage, but while a removal is under way: whichever of the calls to the storage fails
\* and however many upload it or remove it at once, unless somebody uploads it while
\* another removes it, or a removal is cut short between the storage and the database.
ShownPicturesExist ==
  \A x \in Pictured \ tangled : Shown(x) => x \in pictures \/ Handling(x, {"hide"})
=============================================================================
