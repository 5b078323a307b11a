------------------------------- MODULE Images -------------------------------
(***************************************************************************)
(* The images of one business: its gallery, a list in its row; its logo,   *)
(* which stands for the cover and the profile image as well; and the       *)
(* objects in S3 behind them.  An upload or a removal touches S3 and then  *)
(* the row, while others do the same.  The rows of business_images, which  *)
(* add up to the storage used, are left out: a photo is deleted by the row *)
(* it has there, and any image may have one.                               *)
(*                                                                         *)
(* Sources: controllers/businessImageController.ts, services/domain/       *)
(* business/businessService.ts, services/domain/storage/                   *)
(* imageStorageService.ts, repositories/businessRepository.ts.             *)
(***************************************************************************)
EXTENDS Integers, FiniteSets

CONSTANTS
  Urls,       \* of images; every upload gets a fresh one
  NoUrl,
  MaxGallery, \* 10 in the code
  Editors     \* requests in flight

ASSUME ImagesAssumption == NoUrl \notin Urls /\ MaxGallery \in Nat \ {0}

VARIABLES
  gallery, \* businesses.galleryImages, without its order
  logo,    \* businesses.logoUrl
  objects, \* what S3 holds
  editor,  \* the next statement of each request and what it works on
  doomed,  \* history: the images that some request set out to delete
  kept,    \* history: what was put into the gallery and not taken out of it
  stale    \* history: a gallery was written over one that was not read

imageVars == <<gallery, logo, objects, editor, doomed, kept, stale>>

NoEdit == [at |-> "away"]

ImagesTypeOK ==
  /\ gallery \subseteq Urls /\ logo \in Urls \cup {NoUrl} /\ objects \subseteq Urls
  /\ editor \in [Editors -> {NoEdit} \cup
       [at : {"gallery", "logo", "erase", "read", "drop", "erase logo", "clear",
              "erase photo", "replace"},
        url : Urls \cup {NoUrl}, seen : SUBSET Urls]]
  /\ doomed \subseteq Urls /\ kept \subseteq Urls /\ stale \in BOOLEAN

ImagesInit ==
  /\ gallery = {} /\ logo = NoUrl /\ objects = {}
  /\ editor = [q \in Editors |-> NoEdit]
  /\ doomed = {} /\ kept = {} /\ stale = FALSE

Shown == gallery \cup ({logo} \ {NoUrl})
InUse == Shown \cup objects \cup doomed
Wanted(q) == editor[q].url

EditorGoes(q, from, to) ==
  editor[q].at = from /\ editor' = [editor EXCEPT ![q].at = to]
EditorStarts(q, at, u, seen) ==
  /\ editor[q] = NoEdit
  /\ editor' = [editor EXCEPT ![q] = [at |-> at, url |-> u, seen |-> seen]]
EditorLeaves(q, from) ==
  editor[q].at = from /\ editor' = [editor EXCEPT ![q] = NoEdit]

-----------------------------------------------------------------------------
(* Uploads *)

\* uploadImage has read the row of the business, to see whose it is; the object
\* comes first.
PutObject(q, u, for) ==
  /\ u \notin InUse
  /\ EditorStarts(q, for, u, IF for = "gallery" THEN gallery ELSE {})
  /\ objects' = objects \cup {u}
  /\ UNCHANGED <<gallery, logo, doomed, kept, stale>>

\* Fault: the image is appended to the list as it was before the upload.
FaultAddGalleryImage(q) ==
  /\ EditorLeaves(q, "gallery")
  /\ IF Cardinality(gallery) < MaxGallery
     THEN /\ gallery' = editor[q].seen \cup {Wanted(q)}
          /\ kept' = kept \cup {Wanted(q)}
     ELSE UNCHANGED <<gallery, kept>>
  /\ UNCHANGED <<logo, objects, doomed, stale>>

\* One statement tests the limit and appends.
AddGalleryImage(q) ==
  /\ EditorLeaves(q, "gallery")
  /\ IF Cardinality(gallery) < MaxGallery
     THEN /\ gallery' = gallery \cup {Wanted(q)}
          /\ kept' = kept \cup {Wanted(q)}
     ELSE UNCHANGED <<gallery, kept>>
  /\ UNCHANGED <<logo, objects, doomed, stale>>

\* The object of the logo before stays where it is.
UpdateBusinessImage(q) ==
  /\ EditorLeaves(q, "logo")
  /\ logo' = Wanted(q)
  /\ UNCHANGED <<gallery, objects, doomed, kept, stale>>

\* uploadPhoto shows the image in business_images only.
UploadPhoto(u) ==
  /\ u \notin InUse
  /\ objects' = objects \cup {u}
  /\ UNCHANGED <<gallery, logo, editor, doomed, kept, stale>>

-----------------------------------------------------------------------------
(* Removals and replacements *)

\* deleteGalleryImage, deleteBusinessImage and deletePhoto, which has deleted
\* its row by now.
SetOut(q, at, u) ==
  /\ EditorStarts(q, at, u, {})
  /\ doomed' = doomed \cup {u}
  /\ UNCHANGED <<gallery, logo, objects, kept, stale>>

\* The object goes first; that of a photo last, and if that fails it stays.
EraseObject(q) ==
  /\ \/ EditorGoes(q, "erase", "read")
     \/ EditorGoes(q, "erase logo", "clear")
     \/ EditorLeaves(q, "erase photo")
  /\ objects' = objects \ {Wanted(q)}
  /\ UNCHANGED <<gallery, logo, doomed, kept, stale>>

\* removeGalleryImage reads the list ...
ReadGallery(q) ==
  /\ editor[q].at = "read"
  /\ editor' = [editor EXCEPT ![q].at = "drop", ![q].seen = gallery]
  /\ UNCHANGED <<gallery, logo, objects, doomed, kept, stale>>

WriteGallery(q, list) ==
  /\ gallery' = list
  /\ stale' = (stale \/ gallery # editor[q].seen)
  /\ UNCHANGED <<logo, objects, doomed>>

\* ... and writes it again without the image.
RemoveGalleryImage(q) ==
  /\ EditorLeaves(q, "drop")
  /\ WriteGallery(q, editor[q].seen \ {Wanted(q)})
  /\ kept' = kept \ {Wanted(q)}

\* deleteBusinessImage has read the url before it erased the object, and
\* empties the field whatever it holds by now.
ClearLogo(q) ==
  /\ EditorLeaves(q, "clear")
  /\ logo' = NoUrl
  /\ UNCHANGED <<gallery, objects, doomed, kept, stale>>

\* The page shows the gallery ...
GetBusinessImages(q) ==
  /\ EditorStarts(q, "replace", NoUrl, gallery)
  /\ UNCHANGED <<gallery, logo, objects, doomed, kept, stale>>

\* ... and sends it back in another order or without some.
UpdateGalleryImages(q, list) ==
  /\ EditorLeaves(q, "replace")
  /\ list \subseteq editor[q].seen
  /\ WriteGallery(q, list)
  /\ kept' = list

\* S3 or a statement fails, or the instance stops.
EditorFails(q) ==
  /\ editor[q] # NoEdit
  /\ editor' = [editor EXCEPT ![q] = NoEdit]
  /\ UNCHANGED <<gallery, logo, objects, doomed, kept, stale>>

ImagesNext ==
  \/ \E q \in Editors :
       \/ AddGalleryImage(q) \/ UpdateBusinessImage(q)
       \/ EraseObject(q) \/ ReadGallery(q) \/ RemoveGalleryImage(q) \/ ClearLogo(q)
       \/ GetBusinessImages(q) \/ EditorFails(q)
       \/ \E list \in SUBSET Urls : UpdateGalleryImages(q, list)
       \/ \E u \in Urls, for \in {"gallery", "logo"} : PutObject(q, u, for)
       \/ \E u \in gallery : SetOut(q, "erase", u)
       \/ logo # NoUrl /\ SetOut(q, "erase logo", logo)
       \/ \E u \in objects \cup Shown : SetOut(q, "erase photo", u)
  \/ \E u \in Urls : UploadPhoto(u)

ImagesSpec == ImagesInit /\ [][ImagesNext]_imageVars

-----------------------------------------------------------------------------
(* Properties *)

\* "Avoids the read-modify-write race when multiple uploads run in parallel":
\* the gallery holds all that was put into it and not taken out, and never more
\* than the limit, unless a removal or an edit wrote a list that was read before
\* another's change; and what is shown is in S3, unless somebody set out to
\* delete it.
GalleryTellsUploads ==
  /\ Cardinality(gallery) <= MaxGallery
  /\ ~stale => gallery = kept
  /\ Shown \subseteq objects \cup doomed
=============================================================================
