-------------------------- MODULE PluginGui_proofs --------------------------
(***************************************************************************)
(* Proofs about the GUI of a plugin: for any sizes and any number of GUIs, *)
(* a GUI has its owner, a closed one is reported, and the last size asked  *)
(* for arrives.                                                            *)
(*                                                                         *)
(* None of the three is inductive.  That on_idle does not clear gui_active *)
(* when it destroys a lost GUI is made good only by the event that it sends*)
(* first: GoneInv says that the application has this event before it as   *)
(* long as it believes in a GUI that is gone.                              *)
(***************************************************************************)
EXTENDS PluginGui, TLAPS

(* The application and the host know of the plugin's GUI; where they know  *)
(* of one that is gone, the next event tells the application so (GoneInv). *)
OwnerInv ==
  /\ app.active => host.active
  /\ plugin.gui # "none" =>
       /\ app.active
       /\ plugin.embedded => app.window
  /\ app.window => app.active
  /\ app.visible => app.active
  /\ app.active => app.present
  /\ host.removeRequested => ~app.present
  /\ "show" \notin misused

GoneInv ==
  app.active /\ plugin.gui = "none" =>
    /\ stage = "events" /\ events # <<>>
    /\ Head(events).type = "Closed" /\ Head(events).destroyed

(* A lost GUI was announced, and flags and events are taken to the last. *)
LostInv ==
  /\ plugin.gui = "lost" => "GUI_DESTROYED" \in flags \cup batch
  /\ stage # "idle" => batch = {}
  /\ stage # "events" => events = <<>>

(* The mailbox has the last size, if any. *)
SizeInv ==
  /\ size \in {None, asked}
  /\ asked = None => reported = None

Inv ==
  /\ TypeOK /\ OwnerInv /\ GoneInv /\ LostInv /\ SizeInv
  /\ ClosedGuiIsReported /\ LastSizeArrives

-----------------------------------------------------------------------------
(* The events of on_idle are events, a loss is the first of them, and a    *)
(* closed or lost GUI is among them.                                       *)
LEMMA IdleEventsLemma ==
  ASSUME TypeOK
  PROVE  /\ IdleEvents \in Seq(Event)
         /\ Len(IdleEvents) <= 4
         /\ WasDestroyed =>
              /\ IdleEvents # <<>>
              /\ Head(IdleEvents).type = "Closed" /\ Head(IdleEvents).destroyed
         /\ batch \cap {"GUI_CLOSED", "GUI_DESTROYED"} # {} =>
              \E i \in DOMAIN IdleEvents : IdleEvents[i].type = "Closed"
<1> DEFINE c == [type |-> "Closed", destroyed |-> WasDestroyed]
           A == ClosedEvents
           B == If("GUI_SHOW", [type |-> "Show"])
           C == If("GUI_HIDE", [type |-> "Hide"])
           D == ResizeEvents
<1>1. c \in Event /\ [type |-> "Show"] \in Event /\ [type |-> "Hide"] \in Event
  BY DEF Event, WasDestroyed
<1>2. A \in Seq(Event) /\ Len(A) <= 1 /\ A \in {<<>>, <<c>>}
  BY <1>1 DEF ClosedEvents
<1>3. B \in Seq(Event) /\ Len(B) <= 1
  BY <1>1 DEF If
<1>4. C \in Seq(Event) /\ Len(C) <= 1
  BY <1>1 DEF If
<1>5. D \in Seq(Event) /\ Len(D) <= 1
  <2>1. CASE size = None
    BY <2>1 DEF ResizeEvents
  <2>2. CASE size # None
    <3>1. [type |-> "Resize", size |-> size] \in Event
      BY <2>2 DEF Event, TypeOK
    <3> QED BY <2>2, <3>1 DEF ResizeEvents, If
  <2> QED BY <2>1, <2>2
<1> DEFINE R == (B \o C) \o D
<1>6. R \in Seq(Event) /\ Len(R) <= 3
  BY <1>3, <1>4, <1>5
<1>7. IdleEvents = (A \o (B \o C)) \o D
  BY DEF IdleEvents, ShowEvents
<1>8. IdleEvents \in Seq(Event) /\ Len(IdleEvents) <= 4
  <2>1. B \o C \in Seq(Event) /\ Len(B \o C) <= 2
    BY <1>3, <1>4
  <2> QED BY <1>2, <1>5, <1>7, <2>1
<1>9. batch \cap {"GUI_CLOSED", "GUI_DESTROYED"} # {} =>
        Len(IdleEvents) >= 1 /\ IdleEvents[1] = c
  <2> SUFFICES ASSUME batch \cap {"GUI_CLOSED", "GUI_DESTROYED"} # {}
               PROVE  Len(IdleEvents) >= 1 /\ IdleEvents[1] = c
    OBVIOUS
  <2>1. A = <<c>>
    BY DEF ClosedEvents
  <2>2. B \o C \in Seq(Event)
    BY <1>3, <1>4
  <2>3. /\ A \o (B \o C) \in Seq(Event)
        /\ Len(A \o (B \o C)) >= 1 /\ (A \o (B \o C))[1] = c
    BY <1>1, <2>1, <2>2
  <2> QED BY <1>5, <1>7, <2>3
<1>10. WasDestroyed => batch \cap {"GUI_CLOSED", "GUI_DESTROYED"} # {}
  BY DEF WasDestroyed
<1> HIDE DEF A, B, C, D, R
<1>11. batch \cap {"GUI_CLOSED", "GUI_DESTROYED"} # {} =>
         \E i \in DOMAIN IdleEvents : IdleEvents[i].type = "Closed"
  BY <1>8, <1>9
<1>12. WasDestroyed =>
         /\ IdleEvents # <<>>
         /\ Head(IdleEvents).type = "Closed" /\ Head(IdleEvents).destroyed
  BY <1>8, <1>9, <1>10
<1> QED BY <1>8, <1>11, <1>12

-----------------------------------------------------------------------------
(* What the application does with a GUI: by its buttons, or when an event  *)
(* tells it to.                                                            *)
Call == ShowGui \/ HideGui \/ DestroyGui \/ OnPluginGuiClosed(FALSE)

Untouched == UNCHANGED <<plugin, host, app, misused>>

(* destroy() leaves no GUI, and is no misuse but of its own kind.          *)
LEMMA DestroyLemma ==
  ASSUME TypeOK, PluginDestroys
  PROVE  /\ plugin' = NoGui
         /\ plugin' \in [gui : {"none", "open", "lost"}, visible : BOOLEAN,
                         embedded : BOOLEAN]
         /\ plugin'.gui = "none" /\ plugin'.visible = FALSE
         /\ misused' \subseteq {"destroy", "show"}
         /\ "show" \in misused' => "show" \in misused
<1>1. plugin' = NoGui
  BY DEF PluginDestroys
<1>2. /\ NoGui \in [gui : {"none", "open", "lost"}, visible : BOOLEAN, embedded : BOOLEAN]
      /\ NoGui.gui = "none" /\ NoGui.visible = FALSE
  BY DEF NoGui
<1>3. misused' = misused \cup {"destroy"} \/ misused' = misused
  BY DEF PluginDestroys, Misuse
<1>4. misused \subseteq {"destroy", "show"}
  BY DEF TypeOK
<1> QED BY <1>1, <1>2, <1>3, <1>4

(* It keeps the records' types.                                            *)
LEMMA CallTypes ==
  ASSUME TypeOK, Call
  PROVE  /\ plugin' \in [gui : {"none", "open", "lost"}, visible : BOOLEAN,
                         embedded : BOOLEAN]
         /\ host' \in [active : BOOLEAN, visible : BOOLEAN, removeRequested : BOOLEAN,
                       inPool : BOOLEAN]
         /\ app' \in [present : BOOLEAN, active : BOOLEAN, visible : BOOLEAN,
                      window : BOOLEAN]
         /\ misused' \subseteq {"destroy", "show"}
<1> USE DEF Misuse, NoGui
<1>1. CASE ShowGui
  BY <1>1 DEF ShowGui, HostShows, PluginShows, TypeOK
<1>2. CASE HideGui
  BY <1>2 DEF HideGui, HostHides, PluginHides, PluginShows, TypeOK
<1>3. CASE DestroyGui
  <2>1. CASE app.active /\ host.active
    BY <1>3, <2>1, DestroyLemma DEF DestroyGui, HostDestroysGui, TypeOK
  <2>2. CASE ~(app.active /\ host.active)
    BY <1>3, <2>2 DEF DestroyGui, HostDestroysGui, TypeOK
  <2> QED BY <2>1, <2>2
<1>4. CASE OnPluginGuiClosed(FALSE)
  BY <1>4 DEF OnPluginGuiClosed, TypeOK
<1> QED BY <1>1, <1>2, <1>3, <1>4 DEF Call

(* It keeps the owner of a GUI, unless the application shows or hides one  *)
(* it has not been told the loss of; and a GUI it goes on to know is there.*)
LEMMA CallOwner ==
  ASSUME TypeOK, OwnerInv, Call,
         DestroyGui \/ ~(app.active /\ plugin.gui = "none")
  PROVE  /\ OwnerInv'
         /\ ~(app'.active /\ plugin'.gui = "none")
<1> USE DEF Misuse, NoGui, TypeOK, OwnerInv
<1>1. CASE DestroyGui
  <2>1. CASE app.active
    BY <1>1, <2>1, DestroyLemma DEF DestroyGui, HostDestroysGui
  <2>2. CASE ~app.active
    BY <1>1, <2>2 DEF DestroyGui, HostDestroysGui
  <2> QED BY <2>1, <2>2
<1>2. CASE ShowGui /\ ~(app.active /\ plugin.gui = "none")
  BY <1>2 DEF ShowGui, HostShows, PluginShows
<1>3. CASE HideGui /\ ~(app.active /\ plugin.gui = "none")
  BY <1>3 DEF HideGui, HostHides, PluginHides, PluginShows
<1>4. CASE OnPluginGuiClosed(FALSE) /\ ~(app.active /\ plugin.gui = "none")
  BY <1>4 DEF OnPluginGuiClosed
<1> QED BY <1>1, <1>2, <1>3, <1>4 DEF Call

(* A lost GUI stays lost or goes, and one that is shown is visible or lost.*)
LEMMA CallShown ==
  ASSUME TypeOK, OwnerInv, Call,
         DestroyGui \/ ~(app.active /\ plugin.gui = "none")
  PROVE  /\ plugin'.gui = "lost" => plugin.gui = "lost"
         /\ app'.visible =>
              \/ plugin'.visible
              \/ plugin'.gui = "lost"
              \/ app.visible /\ ~plugin.visible
<1> USE DEF Misuse, NoGui, TypeOK, OwnerInv
<1>1. CASE DestroyGui
  <2>1. CASE app.active
    BY <1>1, <2>1, DestroyLemma DEF DestroyGui, HostDestroysGui
  <2>2. CASE ~app.active
    BY <1>1, <2>2 DEF DestroyGui, HostDestroysGui
  <2> QED BY <2>1, <2>2
<1>2. CASE ShowGui /\ ~(app.active /\ plugin.gui = "none")
  BY <1>2 DEF ShowGui, HostShows, PluginShows
<1>3. CASE HideGui /\ ~(app.active /\ plugin.gui = "none")
  BY <1>3 DEF HideGui, HostHides, PluginHides, PluginShows
<1>4. CASE OnPluginGuiClosed(FALSE) /\ ~(app.active /\ plugin.gui = "none")
  BY <1>4 DEF OnPluginGuiClosed
<1> QED BY <1>1, <1>2, <1>3, <1>4 DEF Call

-----------------------------------------------------------------------------
(* Every action keeps the invariant.                                       *)

(* It raises a flag that nothing here depends on.                          *)
LEMMA PluginAsksStep ==
  ASSUME Inv, PluginAsks
  PROVE  Inv'
<1>1. TypeOK'
  BY DEF PluginAsks, PluginOnly, Request, GuiFlags, Inv, TypeOK, OwnerInv, GoneInv, LostInv, SizeInv,
    ClosedGuiIsReported, LastSizeArrives
<1>2. OwnerInv'
  BY DEF PluginAsks, PluginOnly, Request, GuiFlags, Inv, TypeOK, OwnerInv, GoneInv, LostInv, SizeInv,
    ClosedGuiIsReported, LastSizeArrives
<1>3. GoneInv'
  BY DEF PluginAsks, PluginOnly, Request, GuiFlags, Inv, TypeOK, OwnerInv, GoneInv, LostInv, SizeInv,
    ClosedGuiIsReported, LastSizeArrives
<1>4. LostInv'
  BY DEF PluginAsks, PluginOnly, Request, GuiFlags, Inv, TypeOK, OwnerInv, GoneInv, LostInv, SizeInv,
    ClosedGuiIsReported, LastSizeArrives
<1>5. SizeInv'
  BY DEF PluginAsks, PluginOnly, Request, GuiFlags, Inv, TypeOK, OwnerInv, GoneInv, LostInv, SizeInv,
    ClosedGuiIsReported, LastSizeArrives
<1>6. ClosedGuiIsReported'
  BY DEF PluginAsks, PluginOnly, Request, GuiFlags, Inv, TypeOK, OwnerInv, GoneInv, LostInv, SizeInv,
    ClosedGuiIsReported, LastSizeArrives
<1>7. LastSizeArrives'
  BY DEF PluginAsks, PluginOnly, Request, GuiFlags, Inv, TypeOK, OwnerInv, GoneInv, LostInv, SizeInv,
    ClosedGuiIsReported, LastSizeArrives
<1> QED BY <1>1, <1>2, <1>3, <1>4, <1>5, <1>6, <1>7 DEF Inv

(* A GUI that closes is announced.                                         *)
LEMMA PluginClosesStep ==
  ASSUME Inv, PluginCloses
  PROVE  Inv'
<1>1. TypeOK'
  BY DEF PluginCloses, PluginOnly, Request, GuiFlags, Inv, TypeOK, OwnerInv, GoneInv, LostInv, SizeInv,
    ClosedGuiIsReported, LastSizeArrives
<1>2. OwnerInv'
  BY DEF PluginCloses, PluginOnly, Request, GuiFlags, Inv, TypeOK, OwnerInv, GoneInv, LostInv, SizeInv,
    ClosedGuiIsReported, LastSizeArrives
<1>3. GoneInv'
  BY DEF PluginCloses, PluginOnly, Request, GuiFlags, Inv, TypeOK, OwnerInv, GoneInv, LostInv, SizeInv,
    ClosedGuiIsReported, LastSizeArrives
<1>4. LostInv'
  BY DEF PluginCloses, PluginOnly, Request, GuiFlags, Inv, TypeOK, OwnerInv, GoneInv, LostInv, SizeInv,
    ClosedGuiIsReported, LastSizeArrives
<1>5. SizeInv'
  BY DEF PluginCloses, PluginOnly, Request, GuiFlags, Inv, TypeOK, OwnerInv, GoneInv, LostInv, SizeInv,
    ClosedGuiIsReported, LastSizeArrives
<1>6. ClosedGuiIsReported'
  BY DEF PluginCloses, PluginOnly, Request, GuiFlags, Inv, TypeOK, OwnerInv, GoneInv, LostInv, SizeInv,
    ClosedGuiIsReported, LastSizeArrives
<1>7. LastSizeArrives'
  BY DEF PluginCloses, PluginOnly, Request, GuiFlags, Inv, TypeOK, OwnerInv, GoneInv, LostInv, SizeInv,
    ClosedGuiIsReported, LastSizeArrives
<1> QED BY <1>1, <1>2, <1>3, <1>4, <1>5, <1>6, <1>7 DEF Inv

(* A GUI that is lost is announced.                                        *)
LEMMA PluginLosesGuiStep ==
  ASSUME Inv, PluginLosesGui
  PROVE  Inv'
<1>1. TypeOK'
  BY DEF PluginLosesGui, PluginOnly, Request, GuiFlags, Inv, TypeOK, OwnerInv, GoneInv, LostInv, SizeInv,
    ClosedGuiIsReported, LastSizeArrives
<1>2. OwnerInv'
  BY DEF PluginLosesGui, PluginOnly, Request, GuiFlags, Inv, TypeOK, OwnerInv, GoneInv, LostInv, SizeInv,
    ClosedGuiIsReported, LastSizeArrives
<1>3. GoneInv'
  BY DEF PluginLosesGui, PluginOnly, Request, GuiFlags, Inv, TypeOK, OwnerInv, GoneInv, LostInv, SizeInv,
    ClosedGuiIsReported, LastSizeArrives
<1>4. LostInv'
  BY DEF PluginLosesGui, PluginOnly, Request, GuiFlags, Inv, TypeOK, OwnerInv, GoneInv, LostInv, SizeInv,
    ClosedGuiIsReported, LastSizeArrives
<1>5. SizeInv'
  BY DEF PluginLosesGui, PluginOnly, Request, GuiFlags, Inv, TypeOK, OwnerInv, GoneInv, LostInv, SizeInv,
    ClosedGuiIsReported, LastSizeArrives
<1>6. ClosedGuiIsReported'
  BY DEF PluginLosesGui, PluginOnly, Request, GuiFlags, Inv, TypeOK, OwnerInv, GoneInv, LostInv, SizeInv,
    ClosedGuiIsReported, LastSizeArrives
<1>7. LastSizeArrives'
  BY DEF PluginLosesGui, PluginOnly, Request, GuiFlags, Inv, TypeOK, OwnerInv, GoneInv, LostInv, SizeInv,
    ClosedGuiIsReported, LastSizeArrives
<1> QED BY <1>1, <1>2, <1>3, <1>4, <1>5, <1>6, <1>7 DEF Inv

(* The new size is in the mailbox, and its flag is about to be raised.     *)
LEMMA BeginResizeStep ==
  ASSUME Inv, BeginResize
  PROVE  Inv'
<1>1. TypeOK'
  BY DEF BeginResize, FirstHalf, PluginOnly, Inv, TypeOK, OwnerInv, GoneInv, LostInv, SizeInv,
    ClosedGuiIsReported, LastSizeArrives
<1>2. OwnerInv'
  BY DEF BeginResize, FirstHalf, PluginOnly, Inv, TypeOK, OwnerInv, GoneInv, LostInv, SizeInv,
    ClosedGuiIsReported, LastSizeArrives
<1>3. GoneInv'
  BY DEF BeginResize, FirstHalf, PluginOnly, Inv, TypeOK, OwnerInv, GoneInv, LostInv, SizeInv,
    ClosedGuiIsReported, LastSizeArrives
<1>4. LostInv'
  BY DEF BeginResize, FirstHalf, PluginOnly, Inv, TypeOK, OwnerInv, GoneInv, LostInv, SizeInv,
    ClosedGuiIsReported, LastSizeArrives
<1>5. SizeInv'
  BY GuiAssumption DEF BeginResize, FirstHalf, PluginOnly, Inv, TypeOK, OwnerInv, GoneInv, LostInv, SizeInv,
    ClosedGuiIsReported, LastSizeArrives
<1>6. ClosedGuiIsReported'
  BY DEF BeginResize, FirstHalf, PluginOnly, Inv, TypeOK, OwnerInv, GoneInv, LostInv, SizeInv,
    ClosedGuiIsReported, LastSizeArrives
<1>7. LastSizeArrives'
  BY DEF BeginResize, FirstHalf, PluginOnly, Inv, TypeOK, OwnerInv, GoneInv, LostInv, SizeInv,
    ClosedGuiIsReported, LastSizeArrives
<1> QED BY <1>1, <1>2, <1>3, <1>4, <1>5, <1>6, <1>7 DEF Inv

(* The flag is raised.                                                     *)
LEMMA EndResizeStep ==
  ASSUME Inv, EndResize
  PROVE  Inv'
<1>1. TypeOK'
  BY DEF EndResize, SecondHalf, PluginOnly, Request, GuiFlags, Inv, TypeOK, OwnerInv, GoneInv, LostInv, SizeInv,
    ClosedGuiIsReported, LastSizeArrives
<1>2. OwnerInv'
  BY DEF EndResize, SecondHalf, PluginOnly, Request, GuiFlags, Inv, TypeOK, OwnerInv, GoneInv, LostInv, SizeInv,
    ClosedGuiIsReported, LastSizeArrives
<1>3. GoneInv'
  BY DEF EndResize, SecondHalf, PluginOnly, Request, GuiFlags, Inv, TypeOK, OwnerInv, GoneInv, LostInv, SizeInv,
    ClosedGuiIsReported, LastSizeArrives
<1>4. LostInv'
  BY DEF EndResize, SecondHalf, PluginOnly, Request, GuiFlags, Inv, TypeOK, OwnerInv, GoneInv, LostInv, SizeInv,
    ClosedGuiIsReported, LastSizeArrives
<1>5. SizeInv'
  BY DEF EndResize, SecondHalf, PluginOnly, Request, GuiFlags, Inv, TypeOK, OwnerInv, GoneInv, LostInv, SizeInv,
    ClosedGuiIsReported, LastSizeArrives
<1>6. ClosedGuiIsReported'
  BY DEF EndResize, SecondHalf, PluginOnly, Request, GuiFlags, Inv, TypeOK, OwnerInv, GoneInv, LostInv, SizeInv,
    ClosedGuiIsReported, LastSizeArrives
<1>7. LastSizeArrives'
  BY DEF EndResize, SecondHalf, PluginOnly, Request, GuiFlags, Inv, TypeOK, OwnerInv, GoneInv, LostInv, SizeInv,
    ClosedGuiIsReported, LastSizeArrives
<1> QED BY <1>1, <1>2, <1>3, <1>4, <1>5, <1>6, <1>7 DEF Inv

(* A new GUI belongs to the host and to the application.                   *)
LEMMA CreateGuiStep ==
  ASSUME Inv, CreateGui
  PROVE  Inv'
<1>1. TypeOK'
  <2>1. guis' \in 0..MaxGuis
    BY GuiAssumption DEF CreateGui, Inv, TypeOK
  <2>2. PICK embedded, shown \in BOOLEAN :
          /\ HostCreates(embedded, shown)
          /\ app' = [app EXCEPT !.active = TRUE, !.visible = shown, !.window = embedded]
    BY DEF CreateGui
  <2> QED BY <2>1, <2>2 DEF CreateGui, FromUI, UIOnly, channel, HostCreates, PluginCreates,
        Inv, TypeOK
<1>2. OwnerInv'
  BY DEF CreateGui, FromUI, UIOnly, channel, HostCreates, PluginCreates, Inv, TypeOK, OwnerInv, GoneInv, LostInv, SizeInv,
    ClosedGuiIsReported, LastSizeArrives
<1>3. GoneInv'
  BY DEF CreateGui, FromUI, UIOnly, channel, HostCreates, PluginCreates, Inv, TypeOK, OwnerInv, GoneInv, LostInv, SizeInv,
    ClosedGuiIsReported, LastSizeArrives
<1>4. LostInv'
  BY DEF CreateGui, FromUI, UIOnly, channel, HostCreates, PluginCreates, Inv, TypeOK, OwnerInv, GoneInv, LostInv, SizeInv,
    ClosedGuiIsReported, LastSizeArrives
<1>5. SizeInv'
  BY DEF CreateGui, FromUI, UIOnly, channel, HostCreates, PluginCreates, Inv, TypeOK, OwnerInv, GoneInv, LostInv, SizeInv,
    ClosedGuiIsReported, LastSizeArrives
<1>6. ClosedGuiIsReported'
  BY DEF CreateGui, FromUI, UIOnly, channel, HostCreates, PluginCreates, Inv, TypeOK, OwnerInv, GoneInv, LostInv, SizeInv,
    ClosedGuiIsReported, LastSizeArrives
<1>7. LastSizeArrives'
  BY DEF CreateGui, FromUI, UIOnly, channel, HostCreates, PluginCreates, Inv, TypeOK, OwnerInv, GoneInv, LostInv, SizeInv,
    ClosedGuiIsReported, LastSizeArrives
<1> QED BY <1>1, <1>2, <1>3, <1>4, <1>5, <1>6, <1>7 DEF Inv

(* No event is pending while the user has the buttons, so that no GUI the  *)
(* application knows is gone.                                              *)
LEMMA ButtonsStep ==
  ASSUME Inv, Buttons
  PROVE  Inv'
<1>1. Call /\ FromUI /\ UIOnly /\ UNCHANGED guis
  BY DEF Buttons, Call, WindowCloses, OnPluginGuiClosed
<1>2. ~(app.active /\ plugin.gui = "none")
  BY <1>1 DEF FromUI, Inv, GoneInv
<1>3. TypeOK /\ OwnerInv /\ LostInv /\ SizeInv /\ ClosedGuiIsReported /\ LastSizeArrives
  BY DEF Inv
<1>4. OwnerInv' /\ ~(app'.active /\ plugin'.gui = "none")
  BY <1>1, <1>2, <1>3, CallOwner
<1>5. TypeOK'
  BY <1>1, <1>3, CallTypes DEF UIOnly, channel, TypeOK
<1>6. GoneInv'
  BY <1>4 DEF GoneInv
<1>7. LostInv'
  BY <1>1, <1>2, <1>3, CallShown DEF UIOnly, channel, LostInv
<1>8. SizeInv' /\ LastSizeArrives'
  BY <1>1, <1>3 DEF UIOnly, channel, SizeInv, LastSizeArrives
<1>9. ClosedGuiIsReported'
  BY <1>1, <1>2, <1>3, <1>7, CallShown DEF UIOnly, channel, ClosedGuiIsReported, LostInv
<1> QED BY <1>4, <1>5, <1>6, <1>7, <1>8, <1>9 DEF Inv

(* The application forgets the GUI, and the plugin loses it.               *)
LEMMA RemovePluginStep ==
  ASSUME Inv, RemovePlugin
  PROVE  Inv'
<1>1. TypeOK'
  <2>1. CASE host.active
    BY <2>1, DestroyLemma DEF RemovePlugin, FromUI, UIOnly, channel, ScheduleRemove,
      Inv, TypeOK
  <2>2. CASE ~host.active
    BY <2>2 DEF RemovePlugin, FromUI, UIOnly, channel, ScheduleRemove, PluginDestroys, NoGui, Misuse, Inv, TypeOK
  <2> QED BY <2>1, <2>2
<1>2. OwnerInv'
  BY DEF RemovePlugin, FromUI, UIOnly, channel, ScheduleRemove, PluginDestroys, NoGui, Misuse, Inv, TypeOK, OwnerInv, GoneInv, LostInv, SizeInv,
    ClosedGuiIsReported, LastSizeArrives
<1>3. GoneInv'
  BY DEF RemovePlugin, FromUI, UIOnly, channel, ScheduleRemove, PluginDestroys, NoGui, Misuse, Inv, TypeOK, OwnerInv, GoneInv, LostInv, SizeInv,
    ClosedGuiIsReported, LastSizeArrives
<1>4. LostInv'
  BY DEF RemovePlugin, FromUI, UIOnly, channel, ScheduleRemove, PluginDestroys, NoGui, Misuse, Inv, TypeOK, OwnerInv, GoneInv, LostInv, SizeInv,
    ClosedGuiIsReported, LastSizeArrives
<1>5. SizeInv'
  BY DEF RemovePlugin, FromUI, UIOnly, channel, ScheduleRemove, PluginDestroys, NoGui, Misuse, Inv, TypeOK, OwnerInv, GoneInv, LostInv, SizeInv,
    ClosedGuiIsReported, LastSizeArrives
<1>6. ClosedGuiIsReported'
  BY DEF RemovePlugin, FromUI, UIOnly, channel, ScheduleRemove, PluginDestroys, NoGui, Misuse, Inv, TypeOK, OwnerInv, GoneInv, LostInv, SizeInv,
    ClosedGuiIsReported, LastSizeArrives
<1>7. LastSizeArrives'
  BY DEF RemovePlugin, FromUI, UIOnly, channel, ScheduleRemove, PluginDestroys, NoGui, Misuse, Inv, TypeOK, OwnerInv, GoneInv, LostInv, SizeInv,
    ClosedGuiIsReported, LastSizeArrives
<1> QED BY <1>1, <1>2, <1>3, <1>4, <1>5, <1>6, <1>7 DEF Inv

(* The flags taken are in the batch instead.                               *)
LEMMA FetchRequestsStep ==
  ASSUME Inv, FetchRequests
  PROVE  Inv'
<1>1. TypeOK'
  BY DEF FetchRequests, Inv, TypeOK, OwnerInv, GoneInv, LostInv, SizeInv,
    ClosedGuiIsReported, LastSizeArrives
<1>2. OwnerInv'
  BY DEF FetchRequests, Inv, TypeOK, OwnerInv, GoneInv, LostInv, SizeInv,
    ClosedGuiIsReported, LastSizeArrives
<1>3. GoneInv'
  BY DEF FetchRequests, Inv, TypeOK, OwnerInv, GoneInv, LostInv, SizeInv,
    ClosedGuiIsReported, LastSizeArrives
<1>4. LostInv'
  BY DEF FetchRequests, Inv, TypeOK, OwnerInv, GoneInv, LostInv, SizeInv,
    ClosedGuiIsReported, LastSizeArrives
<1>5. SizeInv'
  BY DEF FetchRequests, Inv, TypeOK, OwnerInv, GoneInv, LostInv, SizeInv,
    ClosedGuiIsReported, LastSizeArrives
<1>6. ClosedGuiIsReported'
  BY DEF FetchRequests, Inv, TypeOK, OwnerInv, GoneInv, LostInv, SizeInv,
    ClosedGuiIsReported, LastSizeArrives
<1>7. LastSizeArrives'
  BY DEF FetchRequests, Inv, TypeOK, OwnerInv, GoneInv, LostInv, SizeInv,
    ClosedGuiIsReported, LastSizeArrives
<1> QED BY <1>1, <1>2, <1>3, <1>4, <1>5, <1>6, <1>7 DEF Inv

(* on_idle: a lost GUI is destroyed, and the first event says so.          *)
LEMMA OnIdleStep ==
  ASSUME Inv, OnIdle
  PROVE  Inv'
<1>1. /\ TypeOK /\ OwnerInv /\ GoneInv /\ LostInv /\ SizeInv
      /\ ClosedGuiIsReported /\ LastSizeArrives
  BY DEF Inv
<1>2. /\ stage = "idle" /\ stage' = "events" /\ events' = IdleEvents /\ batch' = {}
      /\ UNCHANGED <<flags, asking, host, app, guis, asked>>
      /\ TakeSize
      /\ \/ WasDestroyed /\ host.active /\ PluginDestroys
         \/ ~(WasDestroyed /\ host.active) /\ UNCHANGED <<plugin, misused>>
  BY DEF OnIdle
<1>3. app.active => plugin.gui # "none"
  BY <1>1, <1>2 DEF GoneInv
<1>4. /\ plugin' \in [gui : {"none", "open", "lost"}, visible : BOOLEAN, embedded : BOOLEAN]
      /\ misused' \subseteq {"destroy", "show"} /\ ("show" \in misused' => "show" \in misused)
  BY <1>1, <1>2, DestroyLemma DEF TypeOK
<1>5. TypeOK'
  <2>1. size' \in Sizes \cup {None} /\ reported' \in Sizes \cup {None}
    BY <1>1, <1>2 DEF TakeSize, TypeOK
  <2> QED BY <1>1, <1>2, <1>4, <2>1, IdleEventsLemma DEF TypeOK
<1>6. OwnerInv'
  <2>1. plugin'.gui # "none" => plugin' = plugin
    BY <1>2 DEF PluginDestroys, NoGui
  <2> QED BY <1>1, <1>2, <1>4, <2>1 DEF OwnerInv
<1>7. GoneInv'
  <2>1. plugin'.gui = "none" /\ app.active => WasDestroyed
    BY <1>2, <1>3
  <2> QED BY <1>1, <1>2, <2>1, IdleEventsLemma DEF GoneInv
<1>8. LostInv'
  <2>1. plugin'.gui = "lost" => plugin.gui = "lost" /\ ~WasDestroyed
    BY <1>1, <1>2 DEF PluginDestroys, NoGui, OwnerInv
  <2> QED BY <1>1, <1>2, <2>1 DEF LostInv, WasDestroyed
<1>9. SizeInv' /\ LastSizeArrives'
  BY <1>1, <1>2 DEF TakeSize, SizeInv, LastSizeArrives
<1>10. ClosedGuiIsReported'
  <2>1. CASE WasDestroyed
    BY <1>2, <2>1, IdleEventsLemma, <1>1 DEF WasDestroyed, ClosedGuiIsReported
  <2>2. CASE ~WasDestroyed
    <3>1. plugin' = plugin /\ events = <<>>
      BY <1>1, <1>2, <2>2 DEF LostInv
    <3>2. app.visible =>
            \/ plugin.visible
            \/ {"GUI_CLOSED", "GUI_DESTROYED"} \cap flags # {}
            \/ batch \cap {"GUI_CLOSED", "GUI_DESTROYED"} # {}
      BY <1>1, <3>1 DEF ClosedGuiIsReported
    <3> QED BY <1>1, <1>2, <3>1, <3>2, IdleEventsLemma DEF ClosedGuiIsReported
  <2> QED BY <2>1, <2>2
<1> QED BY <1>5, <1>6, <1>7, <1>8, <1>9, <1>10 DEF Inv

(* An event is handled: the first one, if a GUI that is gone is known, and *)
(* that destroys it.                                                       *)
LEMMA HandleEventStep ==
  ASSUME Inv, HandleEvent
  PROVE  Inv'
<1> DEFINE e == Head(events)
<1>1. /\ TypeOK /\ OwnerInv /\ GoneInv /\ LostInv /\ SizeInv
      /\ ClosedGuiIsReported /\ LastSizeArrives
  BY DEF Inv
<1>2. /\ stage = "events" /\ events # <<>> /\ events' = Tail(events)
      /\ UNCHANGED <<channel, stage, batch, guis, asked, reported>>
  BY DEF HandleEvent
<1>3. /\ e \in Event /\ Tail(events) \in Seq(Event) /\ Len(Tail(events)) <= 4
      /\ \A i \in DOMAIN events : i # 1 => i - 1 \in DOMAIN Tail(events)
                                         /\ Tail(events)[i - 1] = events[i]
      /\ events[1] = e
  BY <1>1, <1>2 DEF TypeOK
<1>4. \/ e.type = "Closed" /\ app.present /\ OnPluginGuiClosed(e.destroyed)
      \/ e.type = "Show" /\ ShowGui
      \/ e.type = "Hide" /\ HideGui
      \/ (e.type # "Closed" \/ ~app.present) /\ Untouched
  BY DEF HandleEvent, Untouched
<1>5. e.type = "Closed" => e.destroyed \in BOOLEAN
  BY <1>3 DEF Event
<1> HIDE DEF e
<1>6. CASE Untouched /\ (e.type # "Closed" \/ ~app.present)
  <2>1. app.active => plugin.gui # "none"
    BY <1>1, <1>6 DEF e, GoneInv, OwnerInv
  <2>2. TypeOK' /\ OwnerInv' /\ GoneInv'
    BY <1>1, <1>2, <1>3, <1>6, <2>1 DEF Untouched, channel, TypeOK, OwnerInv, GoneInv
  <2>3. LostInv' /\ SizeInv' /\ LastSizeArrives'
    BY <1>1, <1>2, <1>6 DEF Untouched, channel, LostInv, SizeInv, LastSizeArrives
  <2>4. ClosedGuiIsReported'
    BY <1>1, <1>2, <1>3, <1>6 DEF Untouched, channel, ClosedGuiIsReported, OwnerInv
  <2> QED BY <2>2, <2>3, <2>4 DEF Inv
<1>7. CASE Call /\ (e.type = "Closed" => app.visible' = FALSE)
           /\ (DestroyGui \/ ~(e.type = "Closed" /\ e.destroyed))
  <2>1. DestroyGui \/ ~(app.active /\ plugin.gui = "none")
    BY <1>1, <1>7 DEF e, GoneInv
  <2>2. OwnerInv' /\ ~(app'.active /\ plugin'.gui = "none")
    BY <1>1, <1>7, <2>1, CallOwner
  <2>3. TypeOK'
    BY <1>1, <1>2, <1>3, <1>7, CallTypes DEF channel, TypeOK
  <2>4. GoneInv'
    BY <2>2 DEF GoneInv
  <2>5. LostInv' /\ SizeInv' /\ LastSizeArrives'
    BY <1>1, <1>2, <1>7, <2>1, CallShown DEF channel, LostInv, SizeInv, LastSizeArrives
  <2>6. ClosedGuiIsReported'
    <3>1. CASE e.type = "Closed"
      BY <1>7, <3>1 DEF ClosedGuiIsReported
    <3>2. CASE e.type # "Closed"
      BY <1>1, <1>2, <1>3, <1>7, <2>1, <2>5, <3>2, CallShown
      DEF channel, ClosedGuiIsReported, LostInv
    <3> QED BY <3>1, <3>2
  <2> QED BY <2>2, <2>3, <2>4, <2>5, <2>6 DEF Inv
<1>8. CASE e.type = "Closed" /\ OnPluginGuiClosed(e.destroyed)
  <2>1. (e.destroyed /\ DestroyGui) \/ (~e.destroyed /\ OnPluginGuiClosed(FALSE))
    BY <1>5, <1>8 DEF OnPluginGuiClosed
  <2>2. app.visible' = FALSE
    BY <1>1, <2>1 DEF DestroyGui, OnPluginGuiClosed, TypeOK
  <2> QED BY <1>7, <1>8, <2>1, <2>2 DEF Call
<1>9. CASE (e.type = "Show" /\ ShowGui) \/ (e.type = "Hide" /\ HideGui)
  BY <1>7, <1>9 DEF Call
<1> QED BY <1>4, <1>6, <1>8, <1>9

(* Nothing is pending when on_timer returns.                               *)
LEMMA EndTimerStep ==
  ASSUME Inv, EndTimer
  PROVE  Inv'
<1>1. TypeOK'
  BY DEF EndTimer, channel, Inv, TypeOK, OwnerInv, GoneInv, LostInv, SizeInv,
    ClosedGuiIsReported, LastSizeArrives
<1>2. OwnerInv'
  BY DEF EndTimer, channel, Inv, TypeOK, OwnerInv, GoneInv, LostInv, SizeInv,
    ClosedGuiIsReported, LastSizeArrives
<1>3. GoneInv'
  BY DEF EndTimer, channel, Inv, TypeOK, OwnerInv, GoneInv, LostInv, SizeInv,
    ClosedGuiIsReported, LastSizeArrives
<1>4. LostInv'
  BY DEF EndTimer, channel, Inv, TypeOK, OwnerInv, GoneInv, LostInv, SizeInv,
    ClosedGuiIsReported, LastSizeArrives
<1>5. SizeInv'
  BY DEF EndTimer, channel, Inv, TypeOK, OwnerInv, GoneInv, LostInv, SizeInv,
    ClosedGuiIsReported, LastSizeArrives
<1>6. ClosedGuiIsReported'
  BY DEF EndTimer, channel, Inv, TypeOK, OwnerInv, GoneInv, LostInv, SizeInv,
    ClosedGuiIsReported, LastSizeArrives
<1>7. LastSizeArrives'
  BY DEF EndTimer, channel, Inv, TypeOK, OwnerInv, GoneInv, LostInv, SizeInv,
    ClosedGuiIsReported, LastSizeArrives
<1> QED BY <1>1, <1>2, <1>3, <1>4, <1>5, <1>6, <1>7 DEF Inv

(* Leaving the pool touches no GUI.                                        *)
LEMMA LeavePoolStep ==
  ASSUME Inv, LeavePool
  PROVE  Inv'
<1>1. TypeOK'
  BY DEF LeavePool, channel, Inv, TypeOK, OwnerInv, GoneInv, LostInv, SizeInv,
    ClosedGuiIsReported, LastSizeArrives
<1>2. OwnerInv'
  BY DEF LeavePool, channel, Inv, TypeOK, OwnerInv, GoneInv, LostInv, SizeInv,
    ClosedGuiIsReported, LastSizeArrives
<1>3. GoneInv'
  BY DEF LeavePool, channel, Inv, TypeOK, OwnerInv, GoneInv, LostInv, SizeInv,
    ClosedGuiIsReported, LastSizeArrives
<1>4. LostInv'
  BY DEF LeavePool, channel, Inv, TypeOK, OwnerInv, GoneInv, LostInv, SizeInv,
    ClosedGuiIsReported, LastSizeArrives
<1>5. SizeInv'
  BY DEF LeavePool, channel, Inv, TypeOK, OwnerInv, GoneInv, LostInv, SizeInv,
    ClosedGuiIsReported, LastSizeArrives
<1>6. ClosedGuiIsReported'
  BY DEF LeavePool, channel, Inv, TypeOK, OwnerInv, GoneInv, LostInv, SizeInv,
    ClosedGuiIsReported, LastSizeArrives
<1>7. LastSizeArrives'
  BY DEF LeavePool, channel, Inv, TypeOK, OwnerInv, GoneInv, LostInv, SizeInv,
    ClosedGuiIsReported, LastSizeArrives
<1> QED BY <1>1, <1>2, <1>3, <1>4, <1>5, <1>6, <1>7 DEF Inv

-----------------------------------------------------------------------------
(* The conjunction of these invariants is inductive.                       *)
THEOREM Invariance == Spec => []Inv
<1>1. Init => Inv
  <2> SUFFICES ASSUME Init PROVE Inv
    OBVIOUS
  <2>1. TypeOK
    <3>1. <<>> \in Seq(Event) /\ Len(<<>>) <= 4
      OBVIOUS
    <3>2. NoGui \in [gui : {"none", "open", "lost"}, visible : BOOLEAN, embedded : BOOLEAN]
      BY DEF NoGui
    <3>3. /\ host \in [active : BOOLEAN, visible : BOOLEAN, removeRequested : BOOLEAN,
                     inPool : BOOLEAN]
          /\ app \in [present : BOOLEAN, active : BOOLEAN, visible : BOOLEAN,
                    window : BOOLEAN]
      BY DEF Init
    <3>4. guis \in 0..MaxGuis
      BY GuiAssumption DEF Init
    <3> QED BY <3>1, <3>2, <3>3, <3>4 DEF Init, TypeOK
  <2>2. OwnerInv /\ GoneInv /\ LostInv
    BY DEF Init, NoGui, OwnerInv, GoneInv, LostInv
  <2>3. SizeInv /\ ClosedGuiIsReported /\ LastSizeArrives
    BY DEF Init, NoGui, SizeInv, ClosedGuiIsReported, LastSizeArrives
  <2> QED BY <2>1, <2>2, <2>3 DEF Inv
<1>2. Inv /\ [Next]_vars => Inv'
  <2> SUFFICES ASSUME Inv, [Next]_vars PROVE Inv'
    OBVIOUS
  <2>1. CASE UNCHANGED vars
    BY <2>1 DEF vars, Inv, TypeOK, OwnerInv, GoneInv, LostInv, SizeInv,
      ClosedGuiIsReported, LastSizeArrives
  <2>2. CASE Next
    BY <2>2, PluginAsksStep, PluginClosesStep, PluginLosesGuiStep, BeginResizeStep,
      EndResizeStep, CreateGuiStep, ButtonsStep, RemovePluginStep, FetchRequestsStep,
      OnIdleStep, HandleEventStep, EndTimerStep, LeavePoolStep DEF Next, Timer
  <2> QED BY <2>1, <2>2
<1> QED BY <1>1, <1>2, PTL DEF Spec

(* Every variable of the GUI's model keeps its type: an interval has four  *)
(* events at most, and a resize event has a size.                          *)
THEOREM TypeCorrect == Spec => []TypeOK
<1>1. Inv => TypeOK
  BY DEF Inv
<1> QED BY <1>1, Invariance, PTL

(* No GUI of a plugin is left without its host, its application and its    *)
(* window, and the host shows or hides none that is gone.                  *)
THEOREM GuiIsOwned == Spec => []GuiHasItsOwner
<1>1. Inv => GuiHasItsOwner
  BY DEF Inv, OwnerInv, GuiHasItsOwner
<1> QED BY <1>1, Invariance, PTL

(* While the application shows a GUI that is not visible, the news is on   *)
(* its way to it.                                                          *)
THEOREM ClosingIsReported == Spec => []ClosedGuiIsReported
<1>1. Inv => ClosedGuiIsReported
  BY DEF Inv
<1> QED BY <1>1, Invariance, PTL

(* The last size a plugin asked for is never lost, whatever the two halves *)
(* of a request meet.                                                      *)
THEOREM LastSizeIsKept == Spec => []LastSizeArrives
<1>1. Inv => LastSizeArrives
  BY DEF Inv
<1> QED BY <1>1, Invariance, PTL

=============================================================================
