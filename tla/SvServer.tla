------------------------------ MODULE SvServer ------------------------------
(***************************************************************************)
(* main.cpp and publisher.hpp: the one thread of the server.  An iteration *)
(* of its loop polls the GUI (the menu, then a pane per channel), writes   *)
(* the shown values into the publisher, recomputes the sine wave and       *)
(* broadcasts.  An iteration handles at most one click.                    *)
(*                                                                         *)
(*   pc = "menu"   the events and the menu                                 *)
(*   pc = "panes"  the channel panes and the "New channel" button          *)
(*   pc = "tail"   after drawing: the wave, the broadcast, the sleep       *)
(*                                                                         *)
(* The publisher handle is used as SvStream describes it (SvPublisher is   *)
(* shown to implement that): a list of ASDUs with a counter and value      *)
(* slots.  Channels and Values of the GUI are records that point into that *)
(* list, and removing one removes only the record.                         *)
(*                                                                         *)
(* STOP and NETWORK assign a new Publisher over the old one.  The copy is  *)
(* bitwise: the old handle is abandoned with its socket, and the temporary *)
(* destroys the new handle's buffer when the statement ends.  From then on *)
(* writing or sending the frame uses freed memory: the program may go on,  *)
(* send other bytes, or die.                                               *)
(***************************************************************************)
EXTENDS Integers, Sequences, FiniteSets

CONSTANTS CounterSize,       \* the sample counter counts modulo this
          MAX_NUM_CHANNELS,
          Rates, Hertzes,    \* what the property widgets can be set to
          Manual,            \* values a user types in
          Configs,           \* the option buttons the user presses
          Menu,              \* the menu entries the user selects
          Buttons,           \* the pane buttons the user presses
          Garbage,           \* a frame read from freed memory
          MaxASDUs,          \* bound: ASDUs created on one handle
          MaxSlots,          \* bound: values created in one ASDU
          MaxSockets         \* descriptors the process may open

\* The property widget offers no rate below one.
ASSUME RateAssumption == Rates \subseteq Nat \ {0}

VARIABLES pc, clicked,
          running, setup_completed,
          channels,          \* the panes: [asdu, values: <<[id, config]>>]
          asdus,             \* the handle's list: [smpCnt, laid, data]
          buffer,            \* of the current handle: "allocated" or "freed"
          socket,            \* of the current handle: "open" or "null"
          sockets,           \* sockets the process has open
          values,            \* main.cpp's array of typed-in values
          sample_rate, old_sample_rate, hertz, old_hertz,
          loops,             \* of the current period: the phase of the wave
          sine_value,        \* the phase sine_value was computed for
          wire               \* the last frame the current handle sent

publisher == <<running, setup_completed, channels, asdus, buffer, socket, sockets>>
wave      == <<sample_rate, old_sample_rate, hertz, old_hertz, loops, sine_value>>
vars      == <<pc, clicked, publisher, values, wave, wire>>

Raw      == <<"raw">>          \* what malloc left in a slot
NotLaid  == -1

-----------------------------------------------------------------------------
(* The publisher's operations, on the list of ASDUs. *)

NewASDU == [smpCnt |-> 0, laid |-> NotLaid, data |-> <<>>]

\* addFLOAT: one more slot; its place in the data row is the value's id.
AddFLOAT(as, k)    == [as EXCEPT ![k].data = Append(@, Raw)]
\* A variant with an index that is one too small.
CreatedValueOffByOne(as, k) ==
  [id |-> IF as[k].data = <<>> THEN 1 ELSE Len(as[k].data), config |-> "MANUAL"]
CreatedValue(as, k) == [id |-> Len(as[k].data) + 1, config |-> "MANUAL"]

SetupComplete(as) == [k \in DOMAIN as |-> [as[k] EXCEPT !.laid = Len(as[k].data)]]

\* What leaves the socket: every ASDU of the list that was laid out.
Frame(as) == [k \in DOMAIN as |->
                [smpCnt |-> as[k].smpCnt, data |-> SubSeq(as[k].data, 1, as[k].laid)]]

\* Using the message buffer after it was freed may kill the process.
Continue(next) == pc' \in {next} \cup (IF buffer = "freed" THEN {"aborted"} ELSE {})

-----------------------------------------------------------------------------
\* main: one channel with one value.
Init ==
  /\ pc = "menu" /\ clicked = FALSE
  /\ running = FALSE /\ setup_completed = FALSE
  /\ asdus = AddFLOAT(<<NewASDU>>, 1)
  /\ channels = <<[asdu |-> 1, values |-> <<CreatedValue(<<NewASDU>>, 1)>>]>>
  /\ buffer = "allocated" /\ socket = "open" /\ sockets = 1
  /\ \E v \in Manual : values = [p \in (1 .. MAX_NUM_CHANNELS + 1) \X (1 .. MaxSlots) |-> v]
  /\ sample_rate \in Rates /\ old_sample_rate = sample_rate
  /\ hertz \in Hertzes /\ old_hertz = hertz
  /\ loops = 0 /\ sine_value = 0
  /\ wire = <<>>

-----------------------------------------------------------------------------
(* The menu. *)

Click == pc = "menu" /\ ~clicked /\ clicked' = TRUE

Quit == pc = "menu" /\ pc' = "exited"
        /\ UNCHANGED <<clicked, publisher, values, wave, wire>>

DrawMenu == pc = "menu" /\ pc' = "panes"
            /\ UNCHANGED <<clicked, publisher, values, wave, wire>>

\* A variant that forgets complete_setup.
StartWithoutSetup ==
  /\ Click
  /\ running' = TRUE
  /\ UNCHANGED <<pc, asdus, setup_completed, channels, buffer, socket, sockets, values,
                 wave, wire>>

Start ==
  /\ Click
  /\ IF setup_completed
     THEN pc' = "menu" /\ UNCHANGED asdus
     ELSE asdus' = SetupComplete(asdus) /\ Continue("menu")
  /\ setup_completed' = TRUE /\ running' = TRUE
  /\ UNCHANGED <<channels, buffer, socket, sockets, values, wave, wire>>

\* publisher = Publisher{interface}
NewPublisher ==
  /\ running' = FALSE /\ setup_completed' = FALSE
  /\ channels' = <<>> /\ asdus' = <<>> /\ wire' = <<>>
  /\ buffer' = "freed"
  /\ IF sockets < MaxSockets
     THEN socket' = "open" /\ sockets' = sockets + 1
     ELSE socket' = "null" /\ UNCHANGED sockets

Stop ==
  /\ "STOP" \in Menu
  /\ Click
  /\ NewPublisher
  /\ UNCHANGED <<pc, values, wave>>

\* Creating a socket on an interface that cannot be used ends the process.
SelectInterface ==
  /\ "NETWORK" \in Menu
  /\ Click
  /\ \/ NewPublisher /\ pc' = pc
     \/ pc' = "exited" /\ UNCHANGED <<publisher, wire>>
  /\ UNCHANGED <<values, wave>>

EditSampleRate(r) ==
  /\ r # sample_rate
  /\ Click
  /\ sample_rate' = r
  /\ UNCHANGED <<pc, publisher, values, old_sample_rate, hertz, old_hertz, loops,
                 sine_value, wire>>

-----------------------------------------------------------------------------
(* The channel panes.  Once setup is completed each shown value is written *)
(* to its slot as its option says; options clicked now count from the next *)
(* iteration on, typed-in values at once.                                  *)

Shown == UNION {{<<i, j>> : j \in DOMAIN channels[i].values} : i \in DOMAIN channels}

SlotOf(p)   == <<channels[p[1]].asdu, channels[p[1]].values[p[2]].id>>
ConfigOf(p) == channels[p[1]].values[p[2]].config

ShownContent(p, typed) ==
  IF ConfigOf(p) = "SINE" THEN <<"sine", sine_value>> ELSE <<"manual", typed[p]>>

\* A variant that writes through channel1 whatever the pane, as the TIMESTAMP
\* branch of the loop does.
WrittenToChannel1(typed) ==
  [k \in DOMAIN asdus |->
     [asdus[k] EXCEPT !.data =
        [s \in DOMAIN @ |->
           LET at == {p \in Shown : <<channels[1].asdu, SlotOf(p)[2]>> = <<k, s>>}
           IN  IF at = {} THEN @[s] ELSE ShownContent(CHOOSE p \in at : TRUE, typed)]]]

\* The slots after Channel::set_value for every shown value.
Written(typed) ==
  [k \in DOMAIN asdus |->
     [asdus[k] EXCEPT !.data =
        [s \in DOMAIN @ |->
           LET at == {p \in Shown : SlotOf(p) = <<k, s>>}
           IN  IF at = {} THEN @[s] ELSE ShownContent(CHOOSE p \in at : TRUE, typed)]]]

\* set_value(Value, uint32_t) asserts an INT value, and every value is FLOAT.
AssertionFails == setup_completed /\ \E p \in Shown : ConfigOf(p) = "TIMESTAMP"

\* One pass over the panes that leaves the panes as "cs" and the typed-in
\* values as "typed"; "Update" is what a button does to the ASDU list.
Panes(cs, typed, Update(_)) ==
  /\ pc = "panes"
  /\ channels' = cs /\ values' = typed
  /\ IF AssertionFails
     THEN pc' = "aborted" /\ UNCHANGED asdus
     ELSE IF setup_completed /\ Shown # {}
          THEN asdus' = Update(Written(typed)) /\ Continue("tail")
          ELSE asdus' = Update(asdus) /\ pc' = "tail"
  /\ UNCHANGED <<running, setup_completed, buffer, socket, sockets, wire>>

PaneClick == ~clicked /\ clicked' = TRUE

Same(as) == as

DrawPanes == Panes(channels, values, Same) /\ UNCHANGED <<clicked, wave>>

EditValue(p, v) ==
  /\ PaneClick /\ p \in Shown /\ ConfigOf(p) = "MANUAL" /\ v # values[p]
  /\ Panes(channels, [values EXCEPT ![p] = v], Same)
  /\ UNCHANGED wave

EditHertz(h) ==
  /\ PaneClick /\ h # hertz
  /\ \E p \in Shown : ConfigOf(p) = "SINE"
  /\ Panes(channels, values, Same)
  /\ hertz' = h
  /\ UNCHANGED <<sample_rate, old_sample_rate, old_hertz, loops, sine_value>>

SelectOption(p, c) ==
  /\ PaneClick /\ p \in Shown /\ c # ConfigOf(p)
  /\ Panes([channels EXCEPT ![p[1]].values[p[2]].config = c], values, Same)
  /\ UNCHANGED wave

Last(s) == s[Len(s)]
Pop(s)  == SubSeq(s, 1, Len(s) - 1)

\* The ASDU stays in the handle's list.  Unless no channel is left the rest of
\* the pane is drawn from the destroyed Channel object.
RemoveChannel ==
  /\ "Remove channel" \in Buttons
  /\ PaneClick /\ ~running /\ channels # <<>>
  /\ pc = "panes"
  /\ channels' = Pop(channels)
  /\ pc' \in {"tail"} \cup (IF Len(channels) > 1 THEN {"aborted"} ELSE {})
  /\ UNCHANGED <<running, setup_completed, asdus, buffer, socket, sockets,
                 values, wave, wire>>

\* The slot stays in the ASDU.
RemoveValue(i) ==
  /\ "Remove value" \in Buttons
  /\ PaneClick /\ ~running /\ channels[i].values # <<>>
  /\ Panes([channels EXCEPT ![i].values = Pop(@)], values, Same)
  /\ UNCHANGED wave

\* A variant whose button is not greyed out while broadcasting.
NewValueAlways(i) ==
  LET k == channels[i].asdu
      Add(as) == AddFLOAT(as, k)
  IN  /\ PaneClick
      /\ Panes([channels EXCEPT ![i].values = Append(@, CreatedValue(asdus, k))], values, Add)
      /\ UNCHANGED wave

NewValue(i) ==
  LET k == channels[i].asdu
      Add(as) == AddFLOAT(as, k)
  IN  /\ PaneClick /\ ~running
      /\ Panes([channels EXCEPT ![i].values = Append(@, CreatedValue(asdus, k))], values, Add)
      /\ UNCHANGED wave

\* Publisher::add_channel; at the limit it does nothing.
NewChannel ==
  LET room == Len(channels) <= MAX_NUM_CHANNELS
      Add(as) == IF room THEN Append(as, NewASDU) ELSE as
      new == IF room THEN <<[asdu |-> Len(asdus) + 1, values |-> <<>>]>> ELSE <<>>
  IN  /\ PaneClick /\ ~running
      /\ Panes(channels \o new, values, Add)
      /\ UNCHANGED wave

-----------------------------------------------------------------------------
(* After drawing: the wave restarts when a setting changed, advances by    *)
(* one step, and Publisher::broadcast sends what the panes wrote - which   *)
(* was written with the previous step's sine value.                        *)

Live == {channels[i].asdu : i \in DOMAIN channels}

Restarts == sample_rate # old_sample_rate \/ hertz # old_hertz

\* A variant that does not notice changed settings.
StepWaveNoRestart ==
  /\ sine_value' = loops
  /\ loops' = (loops + 1) % sample_rate
  /\ old_sample_rate' = sample_rate /\ old_hertz' = hertz
  /\ UNCHANGED <<sample_rate, hertz>>

StepWave ==
  LET step == IF Restarts THEN 0 ELSE loops
  IN  /\ sine_value' = step
      /\ loops' = (step + 1) % sample_rate
      /\ old_sample_rate' = sample_rate /\ old_hertz' = hertz
      /\ UNCHANGED <<sample_rate, hertz>>

\* A variant that counts every ASDU of the handle's list.
CountedAll == [k \in DOMAIN asdus |-> [asdus[k] EXCEPT !.smpCnt = (@ + 1) % CounterSize]]

Counted == [k \in DOMAIN asdus |->
              IF k \in Live
              THEN [asdus[k] EXCEPT !.smpCnt = (@ + 1) % CounterSize]
              ELSE asdus[k]]

Broadcast ==
  IF ~running \/ ~setup_completed
  THEN pc' = "menu" /\ UNCHANGED <<asdus, wire>>
  ELSE IF socket = "null"
  THEN pc' = "aborted" /\ UNCHANGED <<asdus, wire>>
  ELSE /\ asdus' = Counted
       /\ wire' \in {Frame(Counted)} \cup (IF buffer = "freed" THEN {Garbage} ELSE {})
       /\ Continue("menu")

FinishIteration ==
  /\ pc = "tail"
  /\ StepWave
  /\ Broadcast
  /\ clicked' = FALSE
  /\ UNCHANGED <<running, setup_completed, channels, buffer, socket, sockets, values>>

-----------------------------------------------------------------------------
Next ==
  \/ Quit
  \/ DrawMenu
  \/ Start
  \/ Stop
  \/ SelectInterface
  \/ \E r \in Rates : EditSampleRate(r)
  \/ DrawPanes
  \/ \E p \in Shown, v \in Manual : EditValue(p, v)
  \/ \E h \in Hertzes : EditHertz(h)
  \/ \E p \in Shown, c \in Configs : SelectOption(p, c)
  \/ RemoveChannel
  \/ \E i \in DOMAIN channels : RemoveValue(i)
  \/ \E i \in DOMAIN channels :
       Len(asdus[channels[i].asdu].data) < MaxSlots /\ NewValue(i)
  \/ Len(asdus) < MaxASDUs /\ NewChannel
  \/ FinishIteration

Spec == Init /\ [][Next]_vars

\* The loop never blocks: it only sleeps for a bounded time.
FairSpec == Spec /\ WF_vars(Next)

-----------------------------------------------------------------------------
(* Properties. *)

\* Channel::set_value and increment_sample_count write through pointers that
\* are NULL until the ASDU was laid out: whenever the loop does that, every
\* channel and value shown is in the frame.
LaidOutBeforeUse ==
  setup_completed =>
    /\ \A k \in Live : asdus[k].laid # NotLaid
    /\ \A p \in Shown : SlotOf(p)[2] <= asdus[SlotOf(p)[1]].laid

\* The records of publisher.hpp point into the current handle, and no two
\* values shown write the same slot, after any adding, removing and stopping.
SlotsOwned ==
  /\ \A p \in Shown :
       SlotOf(p)[1] \in DOMAIN asdus /\ SlotOf(p)[2] \in DOMAIN asdus[SlotOf(p)[1]].data
  /\ \A p, q \in Shown : SlotOf(p) = SlotOf(q) => p = q
  /\ \A i, j \in DOMAIN channels : i < j => channels[i].asdu < channels[j].asdu

\* Publisher::broadcast counts all channels together; an ASDU whose channel
\* was removed never counts.
LiveCountersAgree ==
  /\ \A k, l \in Live : asdus[k].smpCnt = asdus[l].smpCnt
  /\ \A k \in DOMAIN asdus \ Live : asdus[k].smpCnt = 0

Sends == wire' # wire /\ wire' # <<>>
IsFrame(w) == w # <<>> /\ w # Garbage

\* A frame sent in an iteration without a click carries, for every value
\* shown, what its pane shows: the typed-in value or the sine value, which (as
\* the README says) "is the same for all the values on all the channels".
FrameShowsPanes ==
  [][Sends /\ IsFrame(wire') /\ ~clicked =>
       \A p \in Shown :
         wire'[SlotOf(p)[1]].data[SlotOf(p)[2]] = ShownContent(p, values)]_vars

SineSteps(w) == {x \in UNION {{w[k].data[s] : s \in DOMAIN w[k].data} : k \in DOMAIN w} :
                   x[1] = "sine"}

\* From frame to frame of one publisher every live counter advances by one and
\* the wave by one step, or the wave starts anew: no sample is skipped or sent
\* twice while the user edits settings and values.
StreamAdvances ==
  [][Sends /\ IsFrame(wire) /\ IsFrame(wire') =>
       /\ \A k \in Live : wire'[k].smpCnt = (wire[k].smpCnt + 1) % CounterSize
       /\ \A x \in SineSteps(wire), y \in SineSteps(wire') :
            y[2] \in {0, x[2] + 1}]_vars

\* A started server goes on counting samples until it is stopped or ends.
Counter == asdus[channels[1].asdu].smpCnt
KeepsSending ==
  \A n \in 0 .. CounterSize - 1 :
    (running /\ channels # <<>> /\ Counter = n)
      ~> (~running \/ channels = <<>> \/ Counter # n \/ pc \in {"exited", "aborted"})
=============================================================================
