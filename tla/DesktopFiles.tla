---------------------------- MODULE DesktopFiles ----------------------------
(***************************************************************************)
(* The backend of the desktop UI: the bridge's requests, each on a thread   *)
(* of its own and without a lock, and what they keep outside the daemon --  *)
(* the wallpaper, the launch preferences, the autostart entry and the last  *)
(* CPU sample.  Wallpaper and preferences are written in place; the         *)
(* autostart entry is written beside and renamed.  The logo is kept as the  *)
(* wallpaper is.  Commands for the daemon are in Clients.                   *)
(***************************************************************************)
EXTENDS Integers, Sequences, SequencesExt

CONSTANTS
    Requests,       \* requests served at once
    Images,         \* what a wallpaper may show
    ExtOrder,       \* the extensions tried, in order
    OtherExts,      \* extensions a browser may pass besides
    Backends,       \* display backends in the preferences
    None,           \* no file, no value
    Torn,           \* a file that was not written to its end
    MaxTicks,       \* a bound on the time that passes
    MaxInvoked      \* a bound on the requests

KnownExts == Range(ExtOrder)
Exts      == KnownExts \cup OtherExts

ASSUME FilesTold ==
    /\ ExtOrder \in Seq(KnownExts)
    /\ None \notin Images \cup [idle : Nat, total : Nat] \cup [image : Images, ext : Exts]
    /\ Torn \notin {None, "enabled", "hidden"}
    /\ MaxTicks \in Nat /\ MaxInvoked \in Nat

VARIABLES
    served,     \* the backend process runs
    images,     \* wallpaper.<ext>
    prefs,      \* ui-launch.json
    launchedAs, \* the display backend this process was started with
    entry,      \* the autostart entry
    stage,      \* per request: where it is
    left,       \* per request: the extensions still to be tried
    payload,    \* per request: what it is to write
    temp,       \* per request: its temporary file
    sample,     \* per request: the CPU sample it has read
    previous,   \* PREVIOUS_CPU
    jiffies,    \* /proc/stat: the time idle, and in all
    shares,     \* the busy shares there have been between any two moments
    percent,    \* the last percentage shown
    calm,       \* the last save or clear began alone, and none has met another since,
                \* failed or been cut off
    kept,       \* the wallpaper that was saved last, with its extension
    invoked     \* requests so far

uiVars == <<served, images, prefs, launchedAs, entry, stage, left, payload, temp, sample,
            previous, jiffies, shares, percent, calm, kept, invoked>>
usage  == <<sample, previous, jiffies, shares, percent>>
stored == <<images, prefs, entry>>

Changing == {"remove", "fill", "clear"}     \* of a request for the wallpaper

-----------------------------------------------------------------------------
(* Requests.  A refused one has no effect: it is cut short, is not a POST of  *)
(* /invoke, lacks the token, names no command or lacks an argument.           *)

Moves(r, from, to) ==
    /\ stage[r] = from
    /\ stage' = [stage EXCEPT ![r] = to]

\* Fault: only the file that is written next is removed before.
SameExtension(r, ext) == SelectSeq(ExtOrder, LAMBDA e : e = ext)

\* save_image removes what it knows of, whatever the new extension is.
RemovedBefore(r, ext) == ExtOrder

ChangesAlone(r) == \A o \in Requests \ {r} : stage[o] \notin Changing

\* A save or a clear that begins alone makes good what went wrong before.
Accepted(r, first) ==
    /\ served /\ invoked < MaxInvoked /\ invoked' = invoked + 1
    /\ Moves(r, "idle", first)
    /\ calm' = IF first \in Changing THEN ChangesAlone(r) ELSE calm

InvokeRefused(r) ==
    /\ Accepted(r, "idle")
    /\ UNCHANGED <<served, stored, launchedAs, left, payload, temp, usage, kept>>

InvokeImage(r) ==
    /\ \/ \E i \in Images, e \in Exts :
            /\ Accepted(r, "remove")
            /\ left' = [left EXCEPT ![r] = RemovedBefore(r, e)]
            /\ payload' = [payload EXCEPT ![r] = [image |-> i, ext |-> e]]
       \/ \E s \in {"clear", "scan"} :
            /\ Accepted(r, s)
            /\ left' = [left EXCEPT ![r] = ExtOrder]
            /\ UNCHANGED payload
    /\ UNCHANGED <<served, stored, launchedAs, temp, usage, kept>>

InvokeSetting(r) ==
    /\ \/ \E b \in Backends :
            Accepted(r, "prefs") /\ payload' = [payload EXCEPT ![r] = b]
       \/ \E e \in {"enabled", "hidden"} :
            Accepted(r, "entry") /\ payload' = [payload EXCEPT ![r] = e]
    /\ UNCHANGED <<served, stored, launchedAs, left, temp, usage, kept>>

InvokeUsage(r) ==
    /\ Accepted(r, "compare")
    /\ sample' = [sample EXCEPT ![r] = jiffies]
    /\ UNCHANGED <<served, stored, launchedAs, left, payload, temp, previous, jiffies, shares,
                   percent, kept>>

-----------------------------------------------------------------------------
(* The wallpaper.                                                            *)

\* load_image: the first file there is.
Loaded ==
    LET there == {i \in DOMAIN ExtOrder : images[ExtOrder[i]] # None}
    IN  IF there = {} THEN None ELSE images[ExtOrder[Min(there)]]

\* Removal is best effort: a file that stays is no error.
RemoveOne(r) ==
    /\ left[r] # <<>> /\ stage[r] \in {"remove", "clear"}
    /\ \/ images' = [images EXCEPT ![Head(left[r])] = None] /\ UNCHANGED calm
       \/ calm' = FALSE /\ UNCHANGED images
    /\ left' = [left EXCEPT ![r] = Tail(@)]
    /\ UNCHANGED <<served, prefs, launchedAs, entry, stage, payload, temp, usage, kept, invoked>>

CreateImage(r) ==
    /\ left[r] = <<>> /\ Moves(r, "remove", "fill")
    /\ images' = [images EXCEPT ![payload[r].ext] = Torn]
    /\ UNCHANGED <<served, prefs, launchedAs, entry, left, payload, temp, usage, calm, kept,
                   invoked>>

\* Written and read back, whatever the extension; not if another request has
\* removed it meanwhile.
FillImage(r) ==
    /\ Moves(r, "fill", "idle")
    /\ images' = [images EXCEPT ![payload[r].ext] = IF @ = None THEN None ELSE payload[r].image]
    /\ kept' = IF images[payload[r].ext] = None THEN kept ELSE payload[r]
    /\ payload' = [payload EXCEPT ![r] = None]
    /\ UNCHANGED <<served, prefs, launchedAs, entry, left, temp, usage, calm, invoked>>

Cleared(r) ==
    /\ left[r] = <<>> /\ Moves(r, "clear", "idle")
    /\ kept' = None
    /\ UNCHANGED <<served, stored, launchedAs, left, payload, temp, usage, calm, invoked>>

\* load_image goes on to the next name, or reads the one it has found.
ScanOne(r) ==
    /\ stage[r] = "scan"
    /\ IF left[r] = <<>> \/ images[Head(left[r])] # None
       THEN Moves(r, "scan", "idle") /\ left' = [left EXCEPT ![r] = <<>>]
       ELSE left' = [left EXCEPT ![r] = Tail(@)] /\ UNCHANGED stage
    /\ UNCHANGED <<served, stored, launchedAs, payload, temp, usage, calm, kept, invoked>>

\* Disk full, no permission, the home directory is gone.
ImageFails(r) ==
    /\ stage[r] \in {"remove", "fill"}
    /\ stage' = [stage EXCEPT ![r] = "idle"]
    /\ left' = [left EXCEPT ![r] = <<>>] /\ payload' = [payload EXCEPT ![r] = None]
    /\ calm' = FALSE
    /\ UNCHANGED <<served, stored, launchedAs, temp, usage, kept, invoked>>

-----------------------------------------------------------------------------
(* Preferences, written in place, and the autostart entry, renamed.          *)

TruncatePrefs(r) ==
    /\ Moves(r, "prefs", "prefs fill")
    /\ prefs' = Torn
    /\ UNCHANGED <<served, images, launchedAs, entry, left, payload, temp, usage, calm, kept,
                   invoked>>

FillPrefs(r) ==
    /\ Moves(r, "prefs fill", "idle")
    /\ prefs' \in {payload[r], Torn}
    /\ payload' = [payload EXCEPT ![r] = None]
    /\ UNCHANGED <<served, images, launchedAs, entry, left, temp, usage, calm, kept, invoked>>

CreateTemp(r) ==
    /\ Moves(r, "entry", "entry fill")
    /\ temp' = [temp EXCEPT ![r] = Torn]
    /\ UNCHANGED <<served, stored, launchedAs, left, payload, usage, calm, kept, invoked>>

\* write_all and sync_all.
FillTemp(r) ==
    /\ Moves(r, "entry fill", "rename")
    /\ temp' = [temp EXCEPT ![r] = payload[r]]
    /\ UNCHANGED <<served, stored, launchedAs, left, payload, usage, calm, kept, invoked>>

RenameTemp(r) ==
    /\ Moves(r, "rename", "idle")
    /\ entry' = temp[r]
    /\ temp' = [temp EXCEPT ![r] = None] /\ payload' = [payload EXCEPT ![r] = None]
    /\ UNCHANGED <<served, images, prefs, launchedAs, left, usage, calm, kept, invoked>>

\* No launcher, no directory; or the temporary file is removed again.
EntryFails(r) ==
    /\ stage[r] \in {"entry", "entry fill", "rename"}
    /\ stage' = [stage EXCEPT ![r] = "idle"]
    /\ temp' = [temp EXCEPT ![r] = None] /\ payload' = [payload EXCEPT ![r] = None]
    /\ UNCHANGED <<served, stored, launchedAs, left, usage, calm, kept, invoked>>

-----------------------------------------------------------------------------
(* CPU usage.  The sample is read before the lock on the previous one.       *)

AtLeast0(n) == IF n < 0 THEN 0 ELSE n

Share(old, new) ==
    LET total == AtLeast0(new.total - old.total)
        idle  == AtLeast0(new.idle - old.idle)
    IN  IF total = 0 THEN 0 ELSE (AtLeast0(total - idle) * 100) \div total

CompareSample(r) ==
    /\ Moves(r, "compare", "idle")
    /\ percent' = IF previous = None THEN 0 ELSE Share(previous, sample[r])
    /\ previous' = sample[r]
    /\ sample' = [sample EXCEPT ![r] = None]
    /\ UNCHANGED <<served, stored, launchedAs, left, payload, temp, jiffies, shares, calm, kept,
                   invoked>>

Tick ==
    /\ jiffies.total < MaxTicks
    /\ \E busy \in BOOLEAN :
         LET now == [idle |-> jiffies.idle + (IF busy THEN 0 ELSE 1), total |-> jiffies.total + 1]
         IN  /\ jiffies' = now
             /\ shares' = shares \cup {Share(s, now) :
                    s \in {jiffies} \cup {sample[r] : r \in {o \in Requests : sample[o] # None}}
                                \cup {p \in {previous} : p # None}}
    /\ UNCHANGED <<served, stored, launchedAs, stage, left, payload, temp, sample, previous,
                   percent, calm, kept, invoked>>

-----------------------------------------------------------------------------
NoRequests ==
    /\ stage = [r \in Requests |-> "idle"] /\ left = [r \in Requests |-> <<>>]
    /\ payload = [r \in Requests |-> None] /\ temp = [r \in Requests |-> None]
    /\ sample = [r \in Requests |-> None]
    /\ previous = None /\ percent = 0

UiInit ==
    /\ served = FALSE /\ launchedAs = None
    /\ images = [e \in Exts |-> None] /\ prefs = None /\ entry = None
    /\ NoRequests
    /\ jiffies = [idle |-> 0, total |-> 0] /\ shares = {0}
    /\ calm = TRUE /\ kept = None /\ invoked = 0

\* launch_env: the stored backend, unless the environment has one already.
Launch ==
    /\ ~served /\ served' = TRUE
    /\ launchedAs' \in {IF prefs \in {None, Torn} THEN "auto" ELSE prefs} \cup Backends
    /\ UNCHANGED <<stored, stage, left, payload, temp, usage, calm, kept, invoked>>

UiKilled ==
    /\ served /\ served' = FALSE /\ launchedAs' = None
    /\ stage' = [r \in Requests |-> "idle"] /\ left' = [r \in Requests |-> <<>>]
    /\ payload' = [r \in Requests |-> None] /\ temp' = [r \in Requests |-> None]
    /\ sample' = [r \in Requests |-> None]
    /\ previous' = None /\ percent' = 0
    /\ calm' = (calm /\ \A r \in Requests : stage[r] \notin Changing)
    /\ UNCHANGED <<stored, jiffies, shares, kept, invoked>>

UiNext ==
    \/ Launch \/ UiKilled \/ Tick
    \/ \E r \in Requests :
         \/ InvokeRefused(r) \/ InvokeImage(r) \/ InvokeSetting(r) \/ InvokeUsage(r)
         \/ RemoveOne(r) \/ CreateImage(r) \/ FillImage(r) \/ Cleared(r) \/ ScanOne(r)
         \/ ImageFails(r) \/ TruncatePrefs(r) \/ FillPrefs(r)
         \/ CreateTemp(r) \/ FillTemp(r) \/ RenameTemp(r) \/ EntryFails(r) \/ CompareSample(r)

UiSpec == UiInit /\ [][UiNext]_uiVars

-----------------------------------------------------------------------------
UiTypeOK ==
    /\ images \in [Exts -> Images \cup {None, Torn}]
    /\ prefs \in Backends \cup {None, Torn}
    /\ launchedAs \in Backends \cup {"auto", None}
    /\ entry \in {"enabled", "hidden", None, Torn}
    /\ percent \in 0..100 /\ invoked \in 0..MaxInvoked
    /\ {served, calm} \subseteq BOOLEAN
    /\ \A r \in Requests : stage[r] # "fill" => Len(left[r]) <= Len(ExtOrder)

WallpaperAtRest == calm /\ \A r \in Requests : stage[r] \notin Changing

\* The wallpaper saved last, unless its extension is not among those tried: then
\* none (see WallpaperSurvives).
Found == IF kept # None /\ kept.ext \in KnownExts THEN kept.image ELSE None

\* Whatever a kill or a failure has left behind, once a save or a clear has gone
\* through alone no other wallpaper comes back.
WallpaperKept == WallpaperAtRest => Loaded = Found

\* A kill at any moment leaves the entry as it was or as it is to be.
EntryWhole == entry # Torn

\* Threads may compare their samples out of order: then no share is made up.
ShareReal == percent \in shares

(* What the UI keeps outside the daemon: the wallpaper recovers from kills    *)
(* and failures with the next save, the entry is whole after a kill between   *)
(* any two of its writes, and requests may meet on the last CPU sample        *)
(* (save_image, assets.rs:65; write_entry, autostart.rs:141; cpu_percent,     *)
(* usage.rs:64).                                                             *)
FilesHold == WallpaperKept /\ EntryWhole /\ ShareReal

(* "Wallpapers are copied into the app's data directory so the choice        *)
(* survives a restart" (assets.rs:3): the one that was saved last is shown.   *)
(* It is violated by an extension the UI passes on and load_image does not    *)
(* try, with no kill and no failure (extOf, useWallpaper.ts:26).              *)
WallpaperSurvives == WallpaperAtRest /\ kept # None => Loaded = kept.image
=============================================================================
