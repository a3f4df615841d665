----------------------------- MODULE PluginGui -----------------------------
(***************************************************************************)
(* The custom GUI of one plugin instance: what the plugin has, what its    *)
(* host (PluginHostMainThread) believes, and what the application's own    *)
(* window and buttons show.                                                *)
(*                                                                         *)
(* The plugin's GUI lives on a thread of its own and talks to the main     *)
(* thread only through the host request channel: a word of flags, taken    *)
(* whole by a swap, and a mailbox for the size it wants.  The main thread  *)
(* handles the flags in on_idle, which turns them into events, and the     *)
(* application handles the events when on_timer returns.  Between any two  *)
(* of these steps the plugin may go on.                                    *)
(*                                                                         *)
(* The flags that are not about the GUI, and the plugin's processor, are   *)
(* in the other modules; here a removed plugin leaves the pool sometime.   *)
(* GUI_HINTS_CHANGED changes no state of the host and is left out.         *)
(***************************************************************************)
EXTENDS Integers, Sequences

CONSTANTS
  Sizes,    \* GUI sizes a plugin asks for
  None,     \* u32::MAX by u32::MAX: no size was asked for
  MaxGuis   \* bound: GUIs created

ASSUME GuiAssumption == MaxGuis \in Nat /\ None \notin Sizes

VARIABLES
  flags,    \* request_flags of the channel, those about the GUI
  size,     \* last_gui_size_requested of the channel
  asking,   \* the plugin's GUI thread is between the two halves of a resize
  plugin,   \* the plugin's GUI: none, open, or lost, visible or not, embedded
            \* in a window of the application or not
  host,     \* the fields of PluginHostMainThread: gui_active, gui_visible, ...
  app,      \* the application's EffectRackPluginState
  stage,    \* what the main thread is doing
  batch,    \* request_flags of the current on_idle
  events,   \* events_out, as far as the application has not handled them
  guis,     \* GUIs created so far
  asked,    \* history: the size asked for last
  reported, \* history: the size of the last resize event
  misused   \* history: calls made to a plugin that has no GUI

channel == <<flags, size, asking>>
vars == <<flags, size, asking, plugin, host, app, stage, batch, events, guis,
          asked, reported, misused>>

GuiFlags == {"GUI_RESIZE", "GUI_SHOW", "GUI_HIDE", "GUI_CLOSED", "GUI_DESTROYED"}

NoGui == [gui |-> "none", visible |-> FALSE, embedded |-> FALSE]

-----------------------------------------------------------------------------
(* The plugin's GUI thread, through the callbacks of the CLAP host. *)

Request(f) == flags' = flags \cup {f}

PluginOnly ==
  UNCHANGED <<host, app, stage, batch, events, guis, reported, misused>>

(* request_show and request_hide *)
PluginAsks ==
  /\ plugin.gui = "open"
  /\ \E f \in {"GUI_SHOW", "GUI_HIDE"} : Request(f)
  /\ UNCHANGED <<size, asking, plugin, asked>>
  /\ PluginOnly

(* closed(false): the user closed a window the plugin can show again *)
PluginCloses ==
  /\ plugin.gui = "open"
  /\ plugin.visible
  /\ plugin' = [plugin EXCEPT !.visible = FALSE]
  /\ Request("GUI_CLOSED")
  /\ UNCHANGED <<size, asking, asked>>
  /\ PluginOnly

(* closed(true): the connection to the GUI is lost, and the plugin waits   *)
(* for destroy()                                                           *)
PluginLosesGui ==
  /\ plugin.gui = "open"
  /\ plugin' = [plugin EXCEPT !.gui = "lost", !.visible = FALSE]
  /\ Request("GUI_DESTROYED")
  /\ UNCHANGED <<size, asking, asked>>
  /\ PluginOnly

(* request_gui_resize: store the size, then raise the flag. *)
FirstHalf_Fault == Request("GUI_RESIZE") /\ UNCHANGED size

FirstHalf(s) == size' = s /\ UNCHANGED flags

SecondHalf == Request("GUI_RESIZE") /\ UNCHANGED size

BeginResize_Fault ==
  /\ plugin.gui = "open" /\ ~asking
  /\ \E s \in Sizes : asked' = s
  /\ FirstHalf_Fault
  /\ asking' = TRUE
  /\ UNCHANGED plugin
  /\ PluginOnly

BeginResize ==
  /\ plugin.gui = "open" /\ ~asking
  /\ \E s \in Sizes : FirstHalf(s) /\ asked' = s
  /\ asking' = TRUE
  /\ UNCHANGED plugin
  /\ PluginOnly

EndResize ==
  /\ asking
  /\ SecondHalf
  /\ asking' = FALSE
  /\ UNCHANGED <<plugin, asked>>
  /\ PluginOnly

-----------------------------------------------------------------------------
(* Calls of the host into the plugin, through the CLAP plugin's main       *)
(* thread half.  A plugin without a GUI must not get them.                 *)

Misuse(call) == misused' = misused \cup (IF plugin.gui = "none" THEN {call} ELSE {})

PluginDestroys == plugin' = NoGui /\ Misuse("destroy")

(* show() of the plugin; it may fail, and does nothing for a lost GUI *)
PluginShows(ok) ==
  /\ plugin' = [plugin EXCEPT !.visible = @ \/ (ok /\ plugin.gui = "open")]
  /\ Misuse("show")

(* hide_gui of the CLAP plugin calls show() as well *)
PluginHides(ok) == PluginShows(ok)

PluginCreates(embedded, shown) ==
  plugin' = [gui |-> "open", visible |-> shown, embedded |-> embedded]

-----------------------------------------------------------------------------
(* PluginHostMainThread *)

(* create_new_floating_gui or create_new_embedded_gui, followed by         *)
(* show_gui.  A GUI that cannot be created leaves everything as it was.    *)
HostCreates(embedded, shown) ==
  /\ ~host.active /\ ~host.removeRequested
  /\ PluginCreates(embedded, shown)
  /\ host' = [host EXCEPT !.active = TRUE, !.visible = shown]

HostShows(ok) ==
  /\ host.active
  /\ PluginShows(ok)
  /\ host' = [host EXCEPT !.visible = ok]

HostHides(ok) ==
  /\ host.active
  /\ PluginHides(ok)
  /\ host' = [host EXCEPT !.visible = ~ok]

HostDestroysGui ==
  IF host.active
  THEN /\ PluginDestroys
       /\ host' = [host EXCEPT !.active = FALSE, !.visible = FALSE]
  ELSE UNCHANGED <<plugin, host, misused>>

-----------------------------------------------------------------------------
(* The user interface of the application, between two calls of on_timer. *)

FromUI == stage = "ui" /\ app.present

UIOnly == UNCHANGED <<channel, stage, batch, events, asked, reported>>

(* Creating a GUI shows it at once. *)
CreateGui ==
  /\ FromUI
  /\ ~app.active
  /\ guis < MaxGuis
  /\ \E embedded, shown \in BOOLEAN :
       /\ HostCreates(embedded, shown)
       /\ app' = [app EXCEPT !.active = TRUE, !.visible = shown, !.window = embedded]
  /\ guis' = guis + 1
  /\ UNCHANGED misused
  /\ UIOnly

ShowGui ==
  /\ app.active /\ ~app.visible
  /\ \E ok \in BOOLEAN : HostShows(ok) /\ app' = [app EXCEPT !.visible = ok]

HideGui ==
  /\ app.active /\ app.visible
  /\ \E ok \in BOOLEAN : HostHides(ok) /\ app' = [app EXCEPT !.visible = ~ok]

DestroyGui ==
  /\ IF app.active THEN HostDestroysGui ELSE UNCHANGED <<plugin, host, misused>>
  /\ app' = [app EXCEPT !.active = FALSE, !.visible = FALSE, !.window = FALSE]

(* The application is told, by the plugin or by its own window. *)
OnPluginGuiClosed_Fault(destroyed) ==
  IF destroyed THEN DestroyGui ELSE UNCHANGED <<plugin, host, misused, app>>

OnPluginGuiClosed(destroyed) ==
  IF destroyed THEN DestroyGui
  ELSE /\ app' = [app EXCEPT !.visible = FALSE]
       /\ UNCHANGED <<plugin, host, misused>>

(* The user closes the window an embedded GUI is in. *)
WindowCloses == app.window /\ OnPluginGuiClosed(TRUE)

Buttons ==
  /\ FromUI
  /\ \/ ShowGui
     \/ HideGui
     \/ app.active /\ DestroyGui
     \/ WindowCloses
  /\ UNCHANGED guis
  /\ UIOnly

(* schedule_remove destroys the GUI but leaves gui_active set. *)
ScheduleRemove_Fault ==
  /\ UNCHANGED <<plugin, misused>>
  /\ host' = [host EXCEPT !.removeRequested = TRUE]

ScheduleRemove ==
  /\ IF host.active THEN PluginDestroys ELSE UNCHANGED <<plugin, misused>>
  /\ host' = [host EXCEPT !.removeRequested = TRUE]

(* The application forgets the plugin with its window. *)
RemovePlugin ==
  /\ FromUI
  /\ ScheduleRemove
  /\ app' = [present |-> FALSE, active |-> FALSE, visible |-> FALSE, window |-> FALSE]
  /\ UNCHANGED guis
  /\ UIOnly

-----------------------------------------------------------------------------
(* on_timer *)

FetchRequests ==
  /\ stage = "ui"
  /\ host.inPool
  /\ stage' = "idle"
  /\ batch' = flags
  /\ flags' = {}
  /\ UNCHANGED <<size, asking, plugin, host, app, events, guis, asked, reported, misused>>

WasDestroyed_Fault == "GUI_DESTROYED" \in batch /\ "GUI_CLOSED" \notin batch

WasDestroyed == "GUI_DESTROYED" \in batch

If(flag, event) == IF flag \in batch THEN <<event>> ELSE <<>>

ClosedEvents ==
  IF batch \cap {"GUI_CLOSED", "GUI_DESTROYED"} # {}
  THEN <<[type |-> "Closed", destroyed |-> WasDestroyed]>>
  ELSE <<>>

ShowEvents ==
  If("GUI_SHOW", [type |-> "Show"]) \o If("GUI_HIDE", [type |-> "Hide"])

(* Only a size in the mailbox becomes an event; one is taken by whoever    *)
(* comes first, and a later flag finds none.                               *)
ResizeEvents_Fault == If("GUI_RESIZE", [type |-> "Resize", size |-> size])

ResizeEvents ==
  IF size = None THEN <<>> ELSE If("GUI_RESIZE", [type |-> "Resize", size |-> size])

IdleEvents == ClosedEvents \o ShowEvents \o ResizeEvents

TakeSize ==
  IF "GUI_RESIZE" \in batch
  THEN /\ size' = None
       /\ reported' = IF size = None THEN reported ELSE size
  ELSE UNCHANGED <<size, reported>>

(* The GUI's part of PluginHostMainThread::on_idle.  It acknowledges the   *)
(* loss of a GUI by destroy(), and then lets the application do so again.  *)
OnIdle ==
  /\ stage = "idle"
  /\ stage' = "events"
  /\ IF WasDestroyed /\ host.active THEN PluginDestroys ELSE UNCHANGED <<plugin, misused>>
  /\ events' = IdleEvents
  /\ TakeSize
  /\ batch' = {}
  /\ UNCHANGED <<flags, asking, host, app, guis, asked>>

(* The application handles the events in order.  It resizes the window of  *)
(* an embedded GUI, which calls nothing back: no GUI counts as resizable.  *)
HandleEvent ==
  /\ stage = "events"
  /\ events # <<>>
  /\ LET e == Head(events)
     IN \/ app.present /\ e.type = "Closed" /\ OnPluginGuiClosed(e.destroyed)
        \/ app.present /\ e.type = "Show" /\ ShowGui
        \/ app.present /\ e.type = "Hide" /\ HideGui
        \/ /\ \/ ~app.present
              \/ e.type = "Resize"
              \/ e.type = "Show" /\ ~(app.active /\ ~app.visible)
              \/ e.type = "Hide" /\ ~(app.active /\ app.visible)
           /\ UNCHANGED <<plugin, host, app, misused>>
  /\ events' = Tail(events)
  /\ UNCHANGED <<channel, stage, batch, guis, asked, reported>>

EndTimer ==
  /\ stage = "events"
  /\ events = <<>>
  /\ stage' = "ui"
  /\ UNCHANGED <<channel, plugin, host, app, batch, events, guis, asked, reported, misused>>

(* The processor of a removed plugin was dropped. *)
LeavePool ==
  /\ stage = "ui"
  /\ host.removeRequested /\ host.inPool
  /\ host' = [host EXCEPT !.inPool = FALSE]
  /\ UNCHANGED <<channel, plugin, app, stage, batch, events, guis, asked, reported, misused>>

-----------------------------------------------------------------------------
Init ==
  /\ flags = {}
  /\ size = None
  /\ asking = FALSE
  /\ plugin = NoGui
  /\ host = [active |-> FALSE, visible |-> FALSE, removeRequested |-> FALSE, inPool |-> TRUE]
  /\ app = [present |-> TRUE, active |-> FALSE, visible |-> FALSE, window |-> FALSE]
  /\ stage = "ui"
  /\ batch = {}
  /\ events = <<>>
  /\ guis = 0
  /\ asked = None
  /\ reported = None
  /\ misused = {}

Timer == FetchRequests \/ OnIdle \/ HandleEvent \/ EndTimer

Next ==
  \/ PluginAsks
  \/ PluginCloses
  \/ PluginLosesGui
  \/ BeginResize
  \/ EndResize
  \/ CreateGui
  \/ Buttons
  \/ RemovePlugin
  \/ Timer
  \/ LeavePool

Spec == Init /\ [][Next]_vars

(* on_timer is called every few milliseconds, and a resize is completed. *)
FairSpec == Spec /\ WF_vars(Timer) /\ WF_vars(EndResize)

-----------------------------------------------------------------------------
Event ==
  [type : {"Closed"}, destroyed : BOOLEAN] \cup [type : {"Show", "Hide"}]
    \cup [type : {"Resize"}, size : Sizes]

(* Every variable keeps its type; a resize event has a size. *)
TypeOK ==
  /\ flags \subseteq GuiFlags /\ batch \subseteq GuiFlags
  /\ {size, asked, reported} \subseteq Sizes \cup {None}
  /\ asking \in BOOLEAN
  /\ plugin \in [gui : {"none", "open", "lost"}, visible : BOOLEAN, embedded : BOOLEAN]
  /\ host \in [active : BOOLEAN, visible : BOOLEAN, removeRequested : BOOLEAN,
               inPool : BOOLEAN]
  /\ app \in [present : BOOLEAN, active : BOOLEAN, visible : BOOLEAN, window : BOOLEAN]
  /\ stage \in {"ui", "idle", "events"}
  /\ events \in Seq(Event) /\ Len(events) <= 4
  /\ guis \in 0..MaxGuis
  /\ misused \subseteq {"destroy", "show"}

(* A GUI the plugin has can always be destroyed from the main thread, and  *)
(* an embedded one never outlives the window it is in: the host and the    *)
(* application both know of it, and a removed plugin has none.  However    *)
(* closing and showing interleave, the host never shows or hides a GUI the *)
(* plugin does not have.                                                   *)
GuiHasItsOwner ==
  /\ plugin.gui # "none" =>
       /\ host.active /\ ~host.removeRequested
       /\ app.active
       /\ plugin.embedded => app.window
  /\ "show" \notin misused

(* The application shows a GUI as visible that is not only while the news  *)
(* is on its way to it, so that the user can open the GUI again.           *)
ClosedGuiIsReported ==
  app.visible =>
    \/ plugin.visible
    \/ {"GUI_CLOSED", "GUI_DESTROYED"} \cap (flags \cup batch) # {}
    \/ \E i \in DOMAIN events : events[i].type = "Closed"

(* The size the plugin asked for last reaches the application, however the *)
(* two halves of a request interleave with the two swaps of the main       *)
(* thread: while it has not, it is in the mailbox, and its flag is raised  *)
(* or about to be.                                                         *)
LastSizeArrives ==
  asked # reported =>
    /\ size = asked
    /\ asking \/ "GUI_RESIZE" \in flags \cup batch

(* A plugin that lost its GUI gets the destroy() it waits for. *)
LostGuiIsAcknowledged == plugin.gui = "lost" ~> plugin.gui # "lost"

(* A plugin's GUI is destroyed once: the API says of destroy_gui "Destroy  *)
(* the currently active GUI".                                              *)
GuiDestroyedOnce == "destroy" \notin misused

=============================================================================
