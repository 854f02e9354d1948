------------------------------- MODULE Player -------------------------------
(***************************************************************************)
(* The player: a game's page and the frame it makes for the emulator, two  *)
(* documents that talk by messages.  Where the player has an origin of its *)
(* own the page makes the whole frame fullscreen, and the emulator, which  *)
(* saves a game's files when its own fullscreen ends, has to be told when  *)
(* that one does.  The browser's fullscreen and the emulator are external. *)
(***************************************************************************)
EXTENDS Integers, Sequences

CONSTANT MaxKeys \* bound: shortcuts, buttons and escapes pressed

VARIABLES
  setting, \* sameOrigin: is the player served from the site?  game: is there
           \* an address to load?  loader: did js-dos arrive?  local, files:
           \* do localStorage and the storage of the saves answer?
  frame,   \* "poster", "loading", "listening" once its script runs, "ready"
  plays,   \* how often the play was recorded
  owner,   \* the page: does it hold the frame as fullscreenFrame?
  asking,  \* is its request for fullscreen out?
  outer,   \* the browser: is the frame fullscreen by the page's request?
  inner,   \* is the emulator fullscreen inside the frame?
  child,   \* the frame: what it was told, what it is to save
  toFrame, toPage, \* messages on their way
  unsaved, \* did the game change files, in fullscreen, since the last save?
  hasty,   \* history: was fullscreen left while the frame's question was out,
           \* or did the page forget the frame while it was asking for it?
  keys     \* how many keys were pressed

playerVars == <<setting, frame, plays, owner, asking, outer, inner, child,
                toFrame, toPage, unsaved, hasty, keys>>

FullscreenElement == outer \/ inner \* the page's: an inner one counts too
Listens == frame \in {"listening", "ready"}
Running == Listens /\ setting.game /\ setting.loader \* dosInstance
Press == keys < MaxKeys /\ keys' = keys + 1
State(active) == [action |-> "frameFullscreen", active |-> active]
Say(action) == [action |-> action, active |-> FALSE]

(***************************************************************************)
(* The page tells the frame it owns whether it is fullscreen, and forgets  *)
(* one that is not.  Until the frame listens, messages are lost.  to and   *)
(* from are the messages on their way to the frame and from it.            *)
(***************************************************************************)
Post(to, messages) == IF Listens THEN to \o messages ELSE to
SendFullscreenState(active, to) ==
  /\ toFrame' = IF owner THEN Post(to, <<State(active)>>) ELSE to
  /\ owner' = (owner /\ active)

(***************************************************************************)
(* A change of the browser's fullscreen is heard by the page when its      *)
(* element comes or goes, and by the frame when the emulator's own does:   *)
(* there js-dos saves by itself, and the frame asks whether an outer       *)
(* fullscreen remains.                                                     *)
(***************************************************************************)
Forgets == asking /\ owner /\ ~owner'

Asks_Never(c) == FALSE
Asks(c) == c.full

FullscreenChange(out, in, to, from) ==
  /\ outer' = out /\ inner' = in
  /\ IF (out \/ in) # FullscreenElement THEN SendFullscreenState(out \/ in, to)
     ELSE toFrame' = to /\ UNCHANGED owner
  /\ child' = IF in /\ ~inner THEN [child EXCEPT !.saveOnFrameExit = FALSE] ELSE child
  /\ toPage' = IF inner /\ ~in /\ Asks(child) THEN Append(from, Say("getFrameFullscreen")) ELSE from
  /\ unsaved' = (unsaved /\ ~(inner /\ ~in /\ child.autoSave /\ setting.files))
  /\ hasty' = (hasty \/ Forgets
               \/ (outer /\ ~out /\ ~inner /\ child.full /\ ~child.saveOnFrameExit
                   /\ <<toFrame, toPage>> # <<<<>>, <<>>>>))

(***************************************************************************)
(* Starting: the poster becomes the frame, once, and the play is recorded. *)
(* The frame's script starts the emulator with what storage says; when the *)
(* frame has loaded, the page says again what an early request for         *)
(* fullscreen came to.                                                     *)
(***************************************************************************)
StartPlayer ==
  /\ frame = "poster"
  /\ frame' = "loading" /\ plays' = plays + 1
  /\ UNCHANGED <<setting, owner, asking, outer, inner, child, toFrame, toPage, unsaved, hasty, keys>>

FrameStarts ==
  /\ frame = "loading"
  /\ frame' = "listening"
  /\ child' = [child EXCEPT !.autoSave = setting.local]
  /\ UNCHANGED <<setting, plays, owner, asking, outer, inner, toFrame, toPage, unsaved, hasty, keys>>

FrameLoads ==
  /\ frame = "listening"
  /\ frame' = "ready"
  /\ SendFullscreenState(FullscreenElement, toFrame)
  /\ hasty' = (hasty \/ Forgets)
  /\ UNCHANGED <<setting, plays, asking, outer, inner, child, toPage, unsaved, keys>>

(* The storage of the saves answers; a save may have waited for it.        *)
SaveStorage ==
  /\ Listens /\ ~child.asked
  /\ child' = [child EXCEPT !.asked = TRUE, !.due = FALSE,
                            !.autoSave = @ /\ (setting.files \/ ~setting.local)]
  /\ unsaved' = (unsaved /\ ~(child.due /\ setting.files))
  /\ UNCHANGED <<setting, frame, plays, owner, asking, outer, inner, toFrame, toPage, hasty, keys>>

(***************************************************************************)
(* Alt+Enter in the page: out of fullscreen; or into it, by the frame if   *)
(* it is of this origin, else by the page itself, one request at a time.   *)
(***************************************************************************)
ShortcutInPage ==
  /\ frame # "poster" /\ Press
  /\ \/ /\ FullscreenElement
        /\ FullscreenChange(FALSE, FALSE, toFrame, toPage)
        /\ UNCHANGED asking
     \/ /\ ~FullscreenElement /\ ~owner /\ setting.sameOrigin
        /\ toFrame' = Post(toFrame, <<Say("clickFullscreen")>>)
        /\ UNCHANGED <<owner, asking, outer, inner, child, toPage, unsaved, hasty>>
     \/ /\ ~FullscreenElement /\ ~owner /\ ~setting.sameOrigin
        /\ owner' = TRUE /\ asking' = TRUE
        /\ UNCHANGED <<outer, inner, child, toFrame, toPage, unsaved, hasty>>
  /\ UNCHANGED <<setting, frame, plays>>

(* The browser takes one request for fullscreen at a time.                 *)
OneRequest == inner \/ ~asking

(* The browser grants the request, which is said twice, or refuses it.     *)
Granted ==
  /\ asking
  /\ asking' = FALSE /\ outer' = TRUE
  /\ toFrame' = IF owner THEN Post(toFrame, <<State(TRUE), State(TRUE)>>) ELSE toFrame
  /\ UNCHANGED <<setting, frame, plays, owner, inner, child, toPage, unsaved, hasty, keys>>

Refused ==
  /\ asking
  /\ asking' = FALSE /\ owner' = FALSE
  /\ UNCHANGED <<setting, frame, plays, outer, inner, child, toFrame, toPage, unsaved, hasty, keys>>

(* Escape leaves every fullscreen at once.                                 *)
Escape ==
  /\ FullscreenElement /\ Press
  /\ FullscreenChange(FALSE, FALSE, toFrame, toPage)
  /\ UNCHANGED <<setting, frame, plays, asking>>

(***************************************************************************)
(* Messages.  Each document takes them from the other one only, which the  *)
(* channels stand for.                                                     *)
(***************************************************************************)
PageHears ==
  /\ toPage # <<>>
  /\ LET said == Head(toPage).action
         rest == Tail(toPage)
     IN IF owner /\ said = "exitFrameFullscreen" /\ FullscreenElement
        THEN FullscreenChange(FALSE, FALSE, toFrame, rest)
        ELSE /\ IF owner /\ said = "getFrameFullscreen"
                THEN SendFullscreenState(FullscreenElement, toFrame)
                ELSE UNCHANGED <<toFrame, owner>>
             /\ toPage' = rest
             /\ hasty' = (hasty \/ Forgets)
             /\ UNCHANGED <<outer, inner, child, unsaved>>
  /\ UNCHANGED <<setting, frame, plays, asking, keys>>

(* Alt+Enter in the frame, and the page's message of it.                   *)
ToggleFullscreen(to) ==
  IF Running /\ ~child.full
  THEN OneRequest /\ FullscreenChange(outer, ~inner, to, toPage)
  ELSE /\ toPage' = IF Running THEN Append(toPage, Say("exitFrameFullscreen")) ELSE toPage
       /\ toFrame' = to
       /\ UNCHANGED <<owner, outer, inner, child, unsaved, hasty>>

ShortcutInFrame ==
  /\ Listens /\ Press
  /\ ToggleFullscreen(toFrame)
  /\ UNCHANGED <<setting, frame, plays, asking>>

(* The button of js-dos knows of its own fullscreen only.                  *)
ToolbarButton ==
  /\ Running /\ Press /\ OneRequest
  /\ FullscreenChange(outer, ~inner, toFrame, toPage)
  /\ UNCHANGED <<setting, frame, plays, asking>>

(* Told that the outer fullscreen is over, the frame saves what js-dos has *)
(* had no reason to save.                                                  *)
SavesOnExit(active) == child.full /\ ~active /\ child.saveOnFrameExit

FrameHears ==
  /\ toFrame # <<>>
  /\ LET said == Head(toFrame)
         save == SavesOnExit(said.active) /\ setting.local
     IN IF said.action = "clickFullscreen" THEN ToggleFullscreen(Tail(toFrame))
        ELSE /\ child' = [child EXCEPT !.full = said.active,
                  !.saveOnFrameExit = IF said.active THEN ~inner
                                      ELSE @ /\ ~SavesOnExit(said.active),
                  !.due = @ \/ (save /\ ~child.asked)]
             /\ unsaved' = (unsaved /\ ~(save /\ child.asked /\ setting.files))
             /\ toFrame' = Tail(toFrame)
             /\ UNCHANGED <<owner, outer, inner, toPage, hasty>>
  /\ UNCHANGED <<setting, frame, plays, asking, keys>>

(* The visitor plays on, and the game changes its files; emulator and game *)
(* are fetched after the frame has loaded.                                 *)
GameWrites ==
  /\ frame = "ready" /\ Running /\ FullscreenElement /\ ~unsaved
  /\ unsaved' = TRUE
  /\ UNCHANGED <<setting, frame, plays, owner, asking, outer, inner, child,
                 toFrame, toPage, hasty, keys>>

PlayerInit ==
  /\ setting \in [{"sameOrigin", "game", "loader", "local", "files"} -> BOOLEAN]
  /\ frame = "poster" /\ plays = 0
  /\ owner = FALSE /\ asking = FALSE /\ outer = FALSE /\ inner = FALSE
  /\ child = [full |-> FALSE, saveOnFrameExit |-> FALSE, autoSave |-> FALSE,
              asked |-> FALSE, due |-> FALSE]
  /\ toFrame = <<>> /\ toPage = <<>>
  /\ unsaved = FALSE /\ hasty = FALSE /\ keys = 0

PlayerNext ==
  \/ StartPlayer \/ FrameStarts \/ FrameLoads \/ SaveStorage
  \/ ShortcutInPage \/ Granted \/ Refused \/ Escape \/ PageHears
  \/ ShortcutInFrame \/ ToolbarButton \/ FrameHears \/ GameWrites
-----------------------------------------------------------------------------
(***************************************************************************)
(* What was changed in fullscreen is saved when fullscreen is over, by     *)
(* js-dos or on the page's word, wherever storage keeps saves: whichever   *)
(* document made the frame fullscreen, whichever left it, with what the    *)
(* visitor pressed in either while messages were under way.  Two cases are *)
(* left out, as what was changed is lost in them: who leaves the outer     *)
(* fullscreen in the moment between js-dos's own and the page's answer     *)
(* about it (js-dos-player.js:134), and a page that forgets the frame      *)
(* because it loads while the request for fullscreen is out                *)
(* (game-player.js:169).                                                   *)
(***************************************************************************)
FullscreenIsSaved ==
  /\ frame = "ready" /\ ~FullscreenElement /\ toFrame = <<>> /\ toPage = <<>>
  /\ setting.local /\ setting.files /\ child.asked /\ ~hasty
  => ~unsaved /\ ~child.full
=============================================================================
