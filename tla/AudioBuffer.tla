----------------------------- MODULE AudioBuffer -----------------------------
(***************************************************************************)
(* The audio of the remote on its way to the PC                            *)
(* (vendor/826x_master_kma_dongle/audio_buffer.c, app.c:158-190,           *)
(* 1058-1072).                                                             *)
(*                                                                         *)
(* Two rings of Slots frames: abuf_mic holds what the notifications bring, *)
(* abuf_dec what the main loop decodes, and the interrupt of the ISO IN    *)
(* endpoint takes samples out of abuf_dec.  The pointers are free running  *)
(* (modulo Ptr, 256 in the code); a frame is known by the pointer under    *)
(* which it was received.  The interrupt may come between any two steps of *)
(* the main loop.  Samples are counted in units of half an ISO packet: a   *)
(* frame is Frame of them (31 in the code, an odd number) and a packet 2,  *)
(* so that packets straddle frames.                                        *)
(***************************************************************************)
EXTENDS Integers

CONSTANTS
    Slots,   \* frames in a ring (4)
    Ptr,     \* values of a pointer (256)
    Frame,   \* halves of an ISO packet in a frame (31)
    Reset,   \* value abuf_reset is set to (16)
    Backlog  \* bound: frames received and not decoded

ASSUME AudioAssumption ==
    /\ {Slots, Ptr, Frame, Reset, Backlog} \subseteq Nat
    /\ Slots > 3 /\ Ptr % Slots = 0 /\ Backlog < Ptr
    /\ Frame > 2 /\ Frame % 2 = 1 /\ Reset > 1

VARIABLES
    mic,    \* abuf_mic_wptr
    dec,    \* abuf_dec_wptr
    rptr,   \* abuf_dec_rptr, in halves of a packet
    reset,  \* abuf_reset
    start,  \* abuf_mic_dec's start
    empty,  \* abuf_dec_usb's buffer_empty
    late,   \* tick_usb_iso_in: the last poll came late
    at,     \* where the main loop is
    num,    \* num_mic and num_dec of abuf_mic_dec
    rcvd,   \* att_mic_rcvd
    whole,  \* frames due to the PC (Due) that are decoded in their slot
    gone    \* history: of the frames due and those received, the ones
            \* overwritten in abuf_mic or passed over by the decoder

audioVars == <<mic, dec, rptr, reset, start, empty, late, at, num, rcvd, whole, gone>>
irqVars == <<rptr, empty, late>>
mainVars == <<mic, dec, start, at, num, rcvd>>

Pointer == 0..Ptr - 1

\* The frames from pointer a up to, and without, pointer b.
Between(a, b) == {f \in Pointer : (f - a) % Ptr < (b - a) % Ptr}

\* The frame the interrupt is at, and num_dec and num_mic.
Reading == rptr \div Frame
NumDec == (dec - Reading) % Ptr
NumMic == (mic - dec) % Ptr

\* num_mic and num_dec while abuf_mic_dec does not run.
NoCount == [mic |-> 0, dec |-> 0]

AudioInit ==
    /\ mic = 0 /\ dec = 0 /\ rptr = 0 /\ reset = 0
    /\ start = TRUE /\ empty = TRUE /\ late = FALSE
    /\ at = "stack" /\ num = NoCount /\ rcvd = FALSE
    /\ whole = {} /\ gone = {}

----------------------------------------------------------------------------
(***************************************************************************)
(* The main loop.                                                          *)
(***************************************************************************)
\* att_mic: a frame of the microphone, in blt_sdk_main_loop.  The pointers do
\* not lap each other without a poll (256 frames take 4 s).
AttMic ==
    /\ at = "stack"
    /\ NumMic < Backlog /\ (mic - Reading) % Ptr < Ptr - 1
    /\ mic' = (mic + 1) % Ptr
    /\ rcvd' = TRUE
    /\ gone' = (gone \ {mic}) \cup
               (IF NumMic >= Slots THEN {(mic - Slots) % Ptr} ELSE {})
    /\ UNCHANGED <<irqVars, reset, dec, start, at, num, whole>>

\* The stack is done and no 200 ms have passed without a frame.
InTime ==
    /\ at = "stack"
    /\ rcvd' = FALSE /\ at' = "test"
    /\ UNCHANGED <<irqVars, reset, mic, dec, start, num, whole, gone>>

\* 200 ms without a frame: the pointers of abuf_init, then its abuf_reset.
Timeout ==
    /\ at = "stack" /\ ~rcvd
    /\ mic' = 0 /\ dec' = 0
    /\ at' = "init"
    /\ whole' = whole \cap Between(Reading, 0)
    /\ gone' = Between(Reading, 0)
    /\ UNCHANGED <<irqVars, reset, start, num, rcvd>>

AbufInit ==
    /\ at = "init"
    /\ reset' = Reset
    /\ at' = "test"
    /\ UNCHANGED <<irqVars, mic, dec, start, num, rcvd, whole, gone>>

\* abuf_mic_dec: the test of abuf_reset.
Test ==
    /\ at = "test"
    /\ at' = IF reset # 0 THEN "catch" ELSE "count"
    /\ UNCHANGED <<irqVars, reset, mic, dec, start, num, rcvd, whole, gone>>

\* In a reset, the frames received are passed over.
CatchUp ==
    /\ at = "catch"
    /\ dec' = mic
    /\ at' = "stack"
    /\ gone' = gone \cup Between(dec, mic)
    /\ UNCHANGED <<irqVars, reset, mic, start, num, rcvd, whole>>

\* num_mic and num_dec.
Count ==
    /\ at = "count"
    /\ num' = [mic |-> NumMic, dec |-> NumDec]
    /\ at' = IF NumMic > 4 THEN "over" ELSE "decide"
    /\ UNCHANGED <<irqVars, reset, mic, dec, start, rcvd, whole, gone>>

\* "in case of overflow": a frame is passed over.
PassOver ==
    /\ at = "over"
    /\ dec' = (dec + 1) % Ptr
    /\ at' = "decide"
    /\ gone' = gone \cup {dec}
    /\ UNCHANGED <<irqVars, reset, mic, start, num, rcvd, whole>>

\* Mutant of HasWork: the slot of a full ring is written.
HasWorkFull == num.mic >= (IF start THEN 2 ELSE 1) /\ num.dec <= 4

\* There is a frame to decode, two of them at the start, and a slot for it.
HasWork == num.mic >= (IF start THEN 2 ELSE 1) /\ num.dec <= 3

\* The interrupt is further behind than the ring is long, or ahead.
TooFull == num.dec > 4

Overflow ==
    /\ at = "decide" /\ TooFull
    /\ reset' = Reset
    /\ start' = TRUE
    /\ at' = "stack" /\ num' = NoCount
    /\ UNCHANGED <<irqVars, mic, dec, rcvd, whole, gone>>

\* adpcm_to_pcm writes the slot.
DecodeBegin ==
    /\ at = "decide" /\ ~TooFull /\ HasWork
    /\ whole' = {f \in whole : f % Slots # dec % Slots}
    /\ at' = "decode"
    /\ UNCHANGED <<irqVars, reset, mic, dec, start, num, rcvd, gone>>

DecodeEnd ==
    /\ at = "decode"
    /\ whole' = whole \cup {dec}
    /\ dec' = (dec + 1) % Ptr
    /\ start' = FALSE
    /\ at' = "stack" /\ num' = NoCount
    /\ UNCHANGED <<irqVars, reset, mic, rcvd, gone>>

NothingToDo ==
    /\ at = "decide" /\ ~TooFull /\ ~HasWork
    /\ at' = "stack" /\ num' = NoCount
    /\ UNCHANGED <<irqVars, reset, mic, dec, start, rcvd, whole, gone>>

Main ==
    \/ AttMic \/ InTime \/ Timeout \/ AbufInit \/ Test \/ CatchUp \/ Count
    \/ PassOver \/ Overflow \/ DecodeBegin \/ DecodeEnd \/ NothingToDo

----------------------------------------------------------------------------
(***************************************************************************)
(* The interrupt, abuf_dec_usb.                                            *)
(***************************************************************************)
\* Mutant of Advance: the read pointer does not wrap.
AdvanceOn(r) == r + 2

\* The read pointer after a packet.
Advance(r) == IF r + 2 >= Frame * Ptr THEN 0 ELSE r + 2

\* Three frames are wanted after the buffer was empty.
Ready(n) == n >= 1 /\ (empty => n >= 3)

\* In a reset the interrupt goes to where the decoder is.
Realign == dec * Frame

\* Mutant of CountDown: a reset does not end.
CountDownNot(left) == left

\* abuf_reset--, if it is not 0.
CountDown(left) == IF left # 0 THEN left - 1 ELSE 0

\* The poll comes late (more than 4 ms after the last) or in time.
AbufDecUsb(tardy) ==
    LET left == IF tardy THEN Reset ELSE reset
        from == IF left # 0 THEN Realign ELSE rptr
        n == (dec - from \div Frame) % Ptr
        to == IF Ready(n) THEN Advance(from) ELSE from
    IN /\ reset' = CountDown(left)
       /\ late' = tardy
       /\ rptr' = to
       /\ empty' = (n = 0 \/ (empty /\ ~Ready(n)))
       /\ whole' = whole \cap Between(to \div Frame, dec)
       /\ gone' = gone \cap Between(to \div Frame, mic)
       /\ UNCHANGED mainVars

Late == AbufDecUsb(TRUE)
OnTime == AbufDecUsb(FALSE)

AudioNext == Main \/ Late \/ OnTime

AudioSpec == AudioInit /\ [][AudioNext]_audioVars

\* The main loop runs on, and the PC, which has the microphone open, polls, not
\* always late.
FairAudioSpec == AudioSpec /\ WF_audioVars(Main) /\ WF_audioVars(OnTime)

----------------------------------------------------------------------------
\* The types of the variables.
AudioTypeOK ==
    /\ mic \in Pointer /\ dec \in Pointer /\ rptr \in 0..Frame * Ptr - 1
    /\ reset \in 0..Reset
    /\ {start, empty, late, rcvd} \subseteq BOOLEAN
    /\ at \in {"stack", "init", "test", "catch", "count", "over", "decide", "decode"}
    /\ num \in [mic : Pointer, dec : Pointer]
    /\ whole \subseteq Pointer /\ gone \subseteq Pointer

\* Samples of frame f that the PC may get: f is decoded and its slot not being
\* written; or it was overwritten or passed over; or the frame three further
\* was, because the decoder then writes the slot that the interrupt reads
\* (num_dec is from before the overflow branch).
Sound(f) == f \in whole \/ f \in gone \/ (f + 3) % Ptr \in gone

\* A packet has the samples of the frame that is due, and its second half,
\* which may be of the next frame, too unless the decoder has not got there.
\* Polls that realign send nothing.
SendsWhatIsDue ==
    [][rptr' # rptr /\ reset = 0 /\ reset' = 0
          => /\ Sound(Reading)
             /\ NumDec >= 2 => Sound(((rptr + 1) \div Frame) % Ptr)]_audioVars

\* From some time on the polls are in time, the microphone does not pause, and
\* the main loop keeps up with what it brings.
Steady ==
    <>[](~late /\ NumMic <= Slots) /\ <>[][~Timeout]_audioVars

\* The poll is answered with samples.
Sends == rptr' # rptr /\ reset = 0

\* An overflow is recovered from, although the main loop arms the reset
\* (audio_buffer.c:69) that the interrupt counts down: once things are steady,
\* the resets and the overflows come to an end for good, and if frames still
\* come, the PC still gets samples.
Recovers ==
    Steady => /\ <>[](NumDec <= Slots /\ reset = 0)
              /\ []<><<AttMic>>_audioVars => []<><<Sends>>_audioVars
=============================================================================
