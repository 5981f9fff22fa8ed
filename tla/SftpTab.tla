-------------------------------- MODULE SftpTab --------------------------------
(***************************************************************************)
(* A file transfer tab of the desktop application (vida-gui: app.rs and    *)
(* screens/s_sftp.rs) and the daemon's file transfers under it             *)
(* (vida-daemon: ws_server.rs and sftp.rs).                                *)
(*                                                                         *)
(* The tab shows one remote directory, remembers those it has shown, and   *)
(* keeps a queue of uploads and one of downloads.  Lists, transfers and    *)
(* file choosers go on while the owner moves to other directories, to      *)
(* other tabs, or closes the tab and opens it again; what they bring is    *)
(* applied to the tab of the host, whichever state it is in by then.       *)
(*                                                                         *)
(* Directories form a line from the root; a directory's contents are the   *)
(* number of changes it has had.                                           *)
(***************************************************************************)
EXTENDS Integers, Sequences, FiniteSets, Bags

CONSTANTS
  Depth,  \* the deepest directory
  Home,   \* the one `.' stands for
  Plans   \* bounds: how many moves, makes, ups, downs, tabs, faults and aged lists (old)

Dirs == 0..Depth
Dot == -1
Unknown == [dir |-> Dot, stamp |-> 0]

VARIABLES
  open,    \* whether the tab exists
  here,    \* whether it is the active one
  tab,     \* its state
  cache,   \* the directories it remembers: what they held and whether that is recent
  dialogs, \* the file choosers that are open
  work,    \* requests under way and what they ended in, not yet handled
  remote,  \* how often each remote directory has changed
  asked,   \* the directory the owner last went to
  astray,  \* a download was taken from a directory other than the one selected in
  left     \* bounds

sftpVars == <<open, here, tab, cache, dialogs, work, remote, asked, astray, left>>

NewTab == [path |-> Dot, list |-> Unknown, loading |-> TRUE,
           ups |-> <<>>, upBusy |-> FALSE, downs |-> <<>>, downBusy |-> FALSE]
NotCached == [stamp |-> -1, recent |-> FALSE]

Item(kind, dir, stamp, ok) == [kind |-> kind, dir |-> dir, stamp |-> stamp, ok |-> ok]
Load(dir) == Item("list", dir, 0, TRUE)
At(kinds) == {w \in BagToSet(work) : w.kind \in kinds}
Become(w, new) == work' = (work (-) SetToBag({w})) (+) SetToBag(new)
Post(new) == work' = work (+) SetToBag(new)
Use(what) == left[what] > 0 /\ left' = [left EXCEPT ![what] = @ - 1]

Parent(d) == IF d \in {Dot, 0} THEN d ELSE d - 1
Resolved(d) == IF d = Dot THEN Home ELSE d

Init ==
  /\ left \in Plans
  /\ open = TRUE /\ here = TRUE
  /\ tab = NewTab
  /\ cache = [d \in Dirs |-> NotCached]
  /\ dialogs = EmptyBag
  /\ work = SetToBag({Load(Dot)})
  /\ remote = [d \in Dirs |-> 0]
  /\ asked = Dot /\ astray = FALSE

-----------------------------------------------------------------------------
(* The tab.                                                                *)

\* OpenSftp, from a host or a terminal: the home directory is loaded even if the tab
\* shows another.
OpenSftp ==
  /\ Use("tabs")
  /\ open' = TRUE /\ here' = TRUE
  /\ IF open THEN UNCHANGED <<tab, cache>>
     ELSE tab' = NewTab /\ cache' = [d \in Dirs |-> NotCached]
  /\ Post({Load(Dot)})
  /\ asked' = Dot
  /\ UNCHANGED <<dialogs, remote, astray>>

CloseTab ==
  /\ open /\ Use("tabs")
  /\ open' = FALSE /\ here' = FALSE
  /\ tab' = NewTab /\ cache' = [d \in Dirs |-> NotCached]
  /\ UNCHANGED <<dialogs, work, remote, asked, astray>>

SwitchTab ==
  /\ open /\ Use("tabs")
  /\ here' = ~here
  /\ UNCHANGED <<open, tab, cache, dialogs, work, remote, asked, astray>>

Idle == open /\ here /\ ~tab.loading

SftpRefresh ==
  /\ Idle /\ Use("moves")
  /\ tab' = [tab EXCEPT !.loading = TRUE]
  /\ Post({Load(tab.path)})
  /\ asked' = tab.path
  /\ UNCHANGED <<open, here, cache, dialogs, remote, astray>>

\* Mutant: what is recent is shown as loading, what is old is not.
WaitsForRecent(c) == c.recent

WaitsFor(c) == ~c.recent

\* SftpEnter and SftpParent: a directory that is remembered is shown at once, and loaded
\* again unless it is recent.
GoTo(d) ==
  /\ Idle /\ Use("moves")
  /\ asked' = d
  /\ LET c     == IF d \in Dirs THEN cache[d] ELSE NotCached
         known == c # NotCached
     IN /\ tab' = [tab EXCEPT !.path = d,
                              !.list = IF known THEN [dir |-> d, stamp |-> c.stamp] ELSE Unknown,
                              !.loading = IF known THEN WaitsFor(c) ELSE TRUE]
        /\ IF known /\ c.recent THEN UNCHANGED work ELSE Post({Load(d)})
  /\ UNCHANGED <<open, here, cache, dialogs, remote, astray>>

SftpParent == tab.path # 0 /\ GoTo(Parent(tab.path))
SftpEnter == tab.path \in Dirs /\ tab.path < Depth /\ tab.list # Unknown /\ GoTo(tab.path + 1)

\* restore_cached: after 30 seconds a directory is read again.
CacheAges(d) ==
  /\ cache[d].recent /\ Use("old")
  /\ cache' = [cache EXCEPT ![d].recent = FALSE]
  /\ UNCHANGED <<open, here, tab, dialogs, work, remote, asked, astray>>

SftpCreateDirectory ==
  /\ Idle /\ Use("makes")
  /\ tab' = [tab EXCEPT !.loading = TRUE]
  /\ Post({Item("mkdir", tab.path, 0, TRUE)})
  /\ UNCHANGED <<open, here, cache, dialogs, remote, asked, astray>>

-----------------------------------------------------------------------------
(* Transfers.                                                              *)

\* sftp_start_next_upload and sftp_start_next_download, for the state t of the tab: the
\* tab after it and the request it makes.
NextUpload(t) ==
  IF t.upBusy \/ t.ups = <<>> THEN [tab |-> t, new |-> {}]
  ELSE [tab |-> [t EXCEPT !.upBusy = TRUE, !.ups = Tail(@)],
        new |-> {Item("up", Head(t.ups), 0, TRUE)}]

NextDownload(t) ==
  IF t.downBusy \/ t.downs = <<>> THEN [tab |-> t, new |-> {}]
  ELSE [tab |-> [t EXCEPT !.downBusy = TRUE, !.downs = Tail(@)],
        new |-> {Item("down", Head(t.downs), 0, TRUE)}]

Open(kind, dir) == Item(kind, dir, 0, TRUE)

SftpChooseUpload ==
  /\ open /\ here /\ Use("ups")
  /\ dialogs' = dialogs (+) SetToBag({Open("up", tab.path)})
  /\ UNCHANGED <<open, here, tab, cache, work, remote, asked, astray>>

\* Something of the directory shown is selected.
SftpChooseDownload ==
  /\ open /\ here /\ tab.list # Unknown /\ Use("downs")
  /\ dialogs' = dialogs (+) SetToBag({Open("down", tab.path)})
  /\ UNCHANGED <<open, here, tab, cache, work, remote, asked, astray>>

\* The chooser returns to whatever tab is active and whatever it shows by then; a file
\* that is dropped is taken the same way.
SftpUploadPicked(g) ==
  /\ g.kind = "up"
  /\ dialogs' = dialogs (-) SetToBag({g})
  /\ IF open /\ here
     THEN LET n == NextUpload([tab EXCEPT !.ups = Append(@, Resolved(tab.path))])
          IN tab' = n.tab /\ Post(n.new)
     ELSE UNCHANGED <<tab, work>>
  /\ UNCHANGED <<open, here, cache, remote, asked, astray, left>>

SftpDownloadPicked(g) ==
  /\ g.kind = "down"
  /\ dialogs' = dialogs (-) SetToBag({g})
  /\ IF open /\ here
     THEN LET n == NextDownload([tab EXCEPT !.downs = Append(@, Resolved(tab.path))])
          IN tab' = n.tab /\ Post(n.new) /\ astray' = (astray \/ Resolved(g.dir) # Resolved(tab.path))
     ELSE UNCHANGED <<tab, work, astray>>
  /\ UNCHANGED <<open, here, cache, remote, asked, left>>

-----------------------------------------------------------------------------
(* The daemon: each request runs the sftp program once.                    *)

Changed(d) == remote' = [remote EXCEPT ![Resolved(d)] = @ + 1]

Outcome(w, ok) ==
  CASE w.kind = "list"  -> Item(IF ok THEN "listed" ELSE "failed", Resolved(w.dir), remote[Resolved(w.dir)], ok)
    [] w.kind = "mkdir" -> Item("made", w.dir, 0, ok)
    [] OTHER            -> Item(w.kind \o "ed", w.dir, 0, ok)

Serve(w) ==
  /\ Become(w, {Outcome(w, TRUE)})
  /\ IF w.kind \in {"mkdir", "up"} THEN Changed(w.dir) ELSE UNCHANGED remote
  /\ UNCHANGED <<open, here, tab, cache, dialogs, asked, astray, left>>

\* A program that complains has failed, though part of it may have been done.
Fail(w) ==
  /\ Use("faults")
  /\ Become(w, {Outcome(w, FALSE)})
  /\ UNCHANGED remote \/ (w.kind \in {"mkdir", "up"} /\ Changed(w.dir))
  /\ UNCHANGED <<open, here, tab, cache, dialogs, asked, astray>>

-----------------------------------------------------------------------------
(* What requests end in.                                                   *)

\* SftpLoaded: path, entries and what is remembered change together.
SftpLoaded(w) ==
  /\ Become(w, {})
  /\ IF open
     THEN /\ tab' = [tab EXCEPT !.path = w.dir, !.list = [dir |-> w.dir, stamp |-> w.stamp],
                                !.loading = FALSE]
          /\ cache' = [cache EXCEPT ![w.dir] = [stamp |-> w.stamp, recent |-> TRUE]]
     ELSE UNCHANGED <<tab, cache>>
  /\ UNCHANGED <<open, here, dialogs, remote, asked, astray, left>>

SftpFailed(w) ==
  /\ Become(w, {})
  /\ tab' = IF open THEN [tab EXCEPT !.loading = FALSE] ELSE tab
  /\ UNCHANGED <<open, here, cache, dialogs, remote, asked, astray, left>>

SftpCreateDirectoryFinished(w) ==
  /\ IF open /\ w.ok
     THEN Become(w, {Load(w.dir)}) /\ UNCHANGED tab
     ELSE Become(w, {}) /\ tab' = IF open THEN [tab EXCEPT !.loading = FALSE] ELSE tab
  /\ UNCHANGED <<open, here, cache, dialogs, remote, asked, astray, left>>

\* Mutant: a transfer that ends well leaves the queue to the next choice of a file.
EndedAlone(t, n) == [tab |-> t, new |-> {}]

\* What follows a transfer that ended well: the next of its queue.
Ended(t, n) == n

\* SftpTransferFinished.  An error ends both queues and frees both kinds of transfer.
SftpTransferFinished(w) ==
  /\ LET up == w.kind = "uped"
         t  == IF up THEN [tab EXCEPT !.upBusy = FALSE] ELSE [tab EXCEPT !.downBusy = FALSE]
         n  == Ended(t, IF up THEN NextUpload(t) ELSE NextDownload(t))
     IN CASE ~open -> Become(w, {}) /\ UNCHANGED tab
          [] open /\ ~w.ok ->
               /\ Become(w, {})
               /\ tab' = [tab EXCEPT !.loading = FALSE, !.upBusy = FALSE, !.downBusy = FALSE,
                                     !.ups = <<>>, !.downs = <<>>]
          [] open /\ w.ok /\ (IF up THEN t.ups ELSE t.downs) # <<>> ->
               tab' = n.tab /\ Become(w, n.new)
          [] OTHER -> IF up THEN tab' = [t EXCEPT !.loading = TRUE] /\ Become(w, {Load(t.path)})
                      ELSE tab' = t /\ Become(w, {})
  /\ UNCHANGED <<open, here, cache, dialogs, remote, asked, astray, left>>

Owner ==
  \/ OpenSftp \/ CloseTab \/ SwitchTab
  \/ SftpRefresh \/ SftpParent \/ SftpEnter \/ SftpCreateDirectory
  \/ SftpChooseUpload \/ SftpChooseDownload
  \/ \E g \in BagToSet(dialogs) : SftpUploadPicked(g) \/ SftpDownloadPicked(g)

Daemon == \E w \in At({"list", "mkdir", "up", "down"}) : Serve(w) \/ Fail(w)

Messages ==
  \/ \E w \in At({"listed"}) : SftpLoaded(w)
  \/ \E w \in At({"failed"}) : SftpFailed(w)
  \/ \E w \in At({"made"}) : SftpCreateDirectoryFinished(w)
  \/ \E w \in At({"uped", "downed"}) : SftpTransferFinished(w)

Next == Owner \/ Daemon \/ Messages \/ \E d \in Dirs : CacheAges(d)

Spec == Init /\ [][Next]_sftpVars

-----------------------------------------------------------------------------
(* Properties.                                                             *)

TypeOK ==
  /\ {open, here, astray} \subseteq BOOLEAN /\ (here => open)
  /\ tab.path \in Dirs \cup {Dot}
  /\ tab.list = Unknown \/ (tab.list.dir = tab.path /\ tab.list.stamp <= remote[tab.path])
  /\ {tab.loading, tab.upBusy, tab.downBusy} \subseteq BOOLEAN
  /\ \A d \in Dirs : cache[d].stamp <= remote[d]

\* A tab that says it is loading, and keeps its buttons disabled, has a request under way
\* whose end frees it; and a queue that is not empty has a transfer under way whose end
\* moves it (app.rs, 615 to 683 and 3052 to 3553): whatever overlaps with it, fails, or
\* was begun before the tab was closed and opened again.
NothingHangs ==
  open =>
    /\ tab.loading => At({"list", "listed", "failed", "mkdir", "made"}) # {}
    /\ tab.ups # <<>> => At({"up", "uped"}) # {}
    /\ tab.downs # <<>> => At({"down", "downed"}) # {}

\* The entries shown are those of the path above them (part of TypeOK), and once all is
\* quiet that is where the owner last went.  (It fails: lists that were under way when he
\* went on take him back.)
StaysWhereAsked ==
  open /\ work = EmptyBag /\ tab.list # Unknown => tab.path = Resolved(asked)

\* There is one download at a time.  (It fails: the error of an upload frees downloads too.)
OneDownload == \A w \in At({"down"}) : work[w] = 1 /\ At({"down"}) = {w}

\* What is downloaded is what was selected.  (It fails: names are joined to the path shown
\* when the file chooser returns.)
DownloadsSelection == ~astray

\* A directory that is shown as recent holds what this tab has put there.  (It fails: after
\* an upload the directory shown by then is read again, and an older list may come last.)
ShowsUploads ==
  \A d \in Dirs : cache[d].recent /\ work = EmptyBag => cache[d].stamp = remote[d]
=============================================================================
