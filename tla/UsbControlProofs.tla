-------------------------- MODULE UsbControlProofs --------------------------
(***************************************************************************)
(* For any descriptors, packets, lengths and settings: the PC is answered  *)
(* what it asked for, whatever it gives up and whenever it resets the bus. *)
(***************************************************************************)
EXTENDS UsbControl, TLAPS

Known(r) == Descriptor(r) /\ r.desc # Unknown

\* The request sets something the device has.
Sets(r) == r.type = "set" /\ r.what \in Setting

\* The flags and the two answers, at each place of a transfer.
PhaseInv ==
    /\ phase # "idle" => ~rst
    /\ phase \in {"in", "out"} => sta = "nak" /\ (dat # "nak" => irq = {}) /\ "status" \notin irq
    /\ phase = "in" => request.type # "set"
    /\ phase = "out" => request.type = "set" /\ request.what \notin Short /\ "data" \notin irq
    /\ phase = "status" => sta = "nak" /\ "status" \notin irq
    /\ phase = "answer" /\ sta # "nak" => irq = {}
    /\ "setup" \in irq => "data" \notin irq
    /\ phase # "idle" /\ "setup" \in irq => dat = "nak"
    /\ phase \in {"status", "answer"} /\ "setup" \in irq =>
         request.type = "set" /\ request.what \notin Long
    /\ "data" \in irq /\ request.type = "set" =>
         request.what \notin Short /\ phase \in {"status", "answer", "idle"}

\* The device stalls what it refuses, and nothing else.
StallInv ==
    phase # "idle" =>
      /\ "setup" \notin irq => (stall <=> Stalls(request))
      /\ dat = "stall" => Stalls(request)
      /\ phase \in {"in", "out"} /\ dat = "ack" => ~Stalls(request)
      /\ "data" \in irq => ~Stalls(request)
      /\ phase \in {"status", "answer"} /\ request.type # "set" => ~Stalls(request)
      /\ sta # "nak" => (sta = "stall" <=> Stalls(request))

\* A descriptor is sent in order, and what is left is what the PC has not got.
ResponseInv ==
    /\ phase = "in" /\ Known(request) /\ "setup" \notin irq =>
         /\ resp.of = request.desc /\ resp.from + respLen = Size
         /\ resp.from = got + IF dat = "ack" THEN buf.n ELSE 0
         /\ dat = "ack" => /\ buf.of = request.desc /\ buf.from = got
                           /\ buf.n = Smaller(Size - got, Packet)
    /\ phase = "in" /\ "setup" \in irq => got = 0
    /\ phase = "in" /\ ~Known(request) /\ ~Rest => got = 0
    /\ phase = "in" /\ Descriptor(request) /\ ~Known(request) /\ ~Rest /\ dat = "ack" => buf.n = 0
    /\ phase \in {"status", "answer"} /\ request.type # "set" /\ ~Rest => got = Size
    /\ cut /\ phase # "idle" => ~Known(request)

\* Nothing is left to send, but of a descriptor that was given up or is being read.
LeftInv ==
    /\ \/ cut \/ respLen = 0
       \/ phase = "in" /\ (Known(request) \/ (request.type = "device" /\ "setup" \in irq))
    /\ "setup" \in irq /\ Descriptor(request) => phase = "in" \/ cut

\* What the PC has set is set, once the transfer and a reset of the bus are through.
SettingInv ==
    /\ \A s \in Setting : told[s] = Junk \/ setting[s] = told[s] \/ (s = "proto" /\ rst)
    /\ rst => told["proto"] \in {Default, Junk}
    /\ Sets(request) /\ (phase # "idle" \/ irq # {}) =>
         told[request.what] = Junk \/ (request.what = "proto" /\ rst)
    /\ Sets(request) /\ "data" \in irq => buf.of = request.value
    /\ Sets(request) /\ phase \in {"status", "answer"} /\ irq \cap {"setup", "data"} = {} =>
         setting[request.what] = request.value
    /\ phase = "in" /\ request.type = "get" /\ dat = "ack" =>
         /\ request.what = "ignored" => buf.n = 0
         /\ request.what # "ignored" => buf.n = 1 /\ buf.from = 0 /\ buf.of = AnswerOf(request)

IInv ==
    /\ TypeOK /\ PhaseInv /\ StallInv /\ ResponseInv /\ LeftInv /\ SettingInv
    /\ AnswerAsAsked

----------------------------------------------------------------------------
\* The fields of a request, by its type.
LEMMA RequestFields ==
    ASSUME NEW r \in Request
    PROVE  /\ r.type \in {"device", "interface", "report", "get", "set"}
           /\ r.type = "device" => r.desc \in DeviceDesc \cup {Unknown}
           /\ r.type = "interface" => r.desc \in IntfDesc \cup {Unknown}
           /\ r.type = "report" => r.desc = Unknown
           /\ r.type # "set" => r.len \in Nat \ {0}
           /\ r.type = "get" =>
                r.what \in Setting \cup Fixed \cup {"refused", "ignored", "stray"} /\ r.len = 1
           /\ r.type = "set" => r.what \in Setting \cup {"refused", "ignored"} /\ r.value \in Value
  BY UsbAssumption DEF Request

\* Descriptors, packets and settings.
LEMMA Constants ==
    /\ \A d \in DeviceDesc \cup IntfDesc : d \in Nat /\ d > 0
    /\ Packet \in Nat /\ Packet > 0
    /\ "proto" \in Setting /\ "proto" \notin Long /\ "mic" \in Long
    /\ Short \subseteq Setting /\ Long \subseteq Setting
    /\ {"refused", "ignored", "stray"} \cap (Setting \cup Fixed) = {} /\ Fixed \cap Setting = {}
    /\ \A s \in Setting : s \in Short <=> s \notin Long
    /\ Default \in Value /\ Boot \in Value /\ Junk \notin Value
  BY UsbAssumption DEF Setting

\* The next packet is sent: what is in the buffer and what is left of the response.
LEMMA PacketSent ==
    ASSUME NEW p \in [of : DeviceDesc \cup IntfDesc \cup {Unknown}, from : Nat], NEW n \in Nat,
           p.from + n <= p.of, SendResponse(p, n)
    PROVE  /\ resp' \in [of : DeviceDesc \cup IntfDesc \cup {Unknown}, from : Nat]
           /\ respLen' \in Nat /\ resp'.from + respLen' = p.from + n /\ resp'.of = p.of
           /\ buf' \in [of : DeviceDesc \cup IntfDesc \cup {Unknown}, from : Nat, n : Nat]
           /\ buf'.of = p.of /\ buf'.from = p.from /\ buf'.n = Smaller(n, Packet)
           /\ resp'.from = p.from + buf'.n /\ buf'.n <= n
  <1> DEFINE m == Smaller(n, Packet)
  <1>1. m \in Nat /\ m <= n
    BY Constants DEF Smaller
  <1>2. /\ buf' = [of |-> p.of, from |-> p.from, n |-> m]
        /\ resp' = [p EXCEPT !.from = p.from + m]
        /\ respLen' = n - m
    BY DEF SendResponse
  <1> HIDE DEF m
  <1> QED BY <1>1, <1>2 DEF m

\* The answer to a request that reads: nothing, or what it names.
LEMMA AnswerSent ==
    ASSUME TypeOK, NEW r \in Request, r.type = "get", GetSetting(r)
    PROVE  /\ UNCHANGED <<resp, respLen, setting>>
           /\ buf' \in [of : DeviceDesc \cup IntfDesc \cup {Unknown, Junk} \cup Value \cup Fixed,
                        from : Nat, n : Nat]
           /\ r.what \in {"refused", "ignored"} => buf'.n = 0
           /\ r.what \notin {"refused", "ignored"} =>
                buf' = [of |-> AnswerOf(r), from |-> 0, n |-> 1]
  <1>1. AnswerOf(r) \in Value \cup Fixed \cup {Junk}
    BY DEF TypeOK, AnswerOf
  <1> QED BY <1>1 DEF GetSetting, Nothing

----------------------------------------------------------------------------
(***************************************************************************)
(* One lemma for each action: the step keeps every conjunct of IInv.       *)
(***************************************************************************)

LEMMA HandleStatusStep ==
    ASSUME IInv, HandleStatus
    PROVE  IInv'
  <1>1. TypeOK'
    BY DEF IInv, TypeOK, HandleStatus, driver, host
  <1>2. PhaseInv'
    BY DEF IInv, PhaseInv, HandleStatus, host
  <1>3. StallInv'
    BY DEF IInv, StallInv, HandleStatus, driver, host
  <1>4. ResponseInv'
    BY DEF IInv, ResponseInv, Rest, Size, HandleStatus, driver, host
  <1>5. LeftInv'
    BY DEF IInv, LeftInv, HandleStatus, driver, host
  <1>6. SettingInv'
    BY DEF IInv, SettingInv, AnswerOf, HandleStatus, driver, host
  <1>7. AnswerAsAsked'
    BY DEF IInv, AnswerAsAsked, HandleStatus, host
  <1> QED BY <1>1, <1>2, <1>3, <1>4, <1>5, <1>6, <1>7 DEF IInv

LEMMA HandleResetStep ==
    ASSUME IInv, HandleReset
    PROVE  IInv'
  <1>1. TypeOK'
    BY Constants DEF IInv, TypeOK, HandleReset, host
  <1>2. PhaseInv'
    BY DEF IInv, PhaseInv, HandleReset, host
  <1>3. StallInv'
    BY DEF IInv, StallInv, HandleReset, host
  <1>4. ResponseInv'
    BY DEF IInv, PhaseInv, ResponseInv, HandleReset, host
  <1>5. LeftInv'
    BY DEF IInv, LeftInv, HandleReset, host
  <1>6. SettingInv'
    BY DEF IInv, TypeOK, PhaseInv, SettingInv, HandleReset, host
  <1>7. AnswerAsAsked'
    BY DEF IInv, AnswerAsAsked, HandleReset, host
  <1> QED BY <1>1, <1>2, <1>3, <1>4, <1>5, <1>6, <1>7 DEF IInv

LEMMA HostSetupStep ==
    ASSUME IInv, NEW r \in Request, HostSetup(r)
    PROVE  IInv'
  <1>1. /\ phase' \in {"in", "out", "status"}
        /\ phase' = "in" => r.type # "set"
        /\ phase' = "out" => r.type = "set" /\ r.what \notin Short
        /\ phase' = "status" => r.type = "set" /\ r.what \notin Long
    <2>1. phase' \in FirstStage(r)
      BY DEF HostSetup
    <2>2. r.type = "set" => ~(r.what \in Short /\ r.what \in Long)
      BY Constants
    <2> QED BY <2>1, <2>2 DEF FirstStage
  <1>2. /\ request' = r /\ irq' = {"setup"} /\ dat' = "nak" /\ sta' = "nak" /\ got' = 0
        /\ phase = "idle" /\ irq = {} /\ ~rst /\ rst' = rst
        /\ UNCHANGED <<resp, respLen, stall, setting, buf, fault>>
        /\ cut' = (cut /\ (~Descriptor(r) \/ (r.type # "device" /\ r.desc = Unknown)))
    BY DEF HostSetup
  <1>3. TypeOK'
    <2>1. told' \in [Setting -> Value \cup {Junk}]
      BY DEF IInv, TypeOK, HostSetup
    <2>2. cut' \in BOOLEAN
      BY <1>2
    <2> QED BY <1>1, <1>2, <2>1, <2>2 DEF IInv, TypeOK
  <1>4. PhaseInv'
    BY <1>1, <1>2 DEF PhaseInv
  <1>5. StallInv'
    BY <1>1, <1>2 DEF StallInv
  <1>6. ResponseInv'
    BY <1>1, <1>2 DEF ResponseInv, Known
  <1>7. LeftInv'
    <2>1. cut \/ respLen = 0
      BY <1>2 DEF IInv, LeftInv
    <2>2. Descriptor(r) => phase' = "in"
      BY <1>1 DEF Descriptor
    <2>3. cut' \/ respLen' = 0 \/ (phase' = "in" /\ (Known(r) \/ r.type = "device"))
      BY <1>2, <2>1, <2>2 DEF Known
    <2> QED BY <1>2, <2>2, <2>3 DEF LeftInv, Known, Descriptor
  <1>8. SettingInv'
    BY <1>1, <1>2 DEF IInv, TypeOK, SettingInv, Sets, HostSetup
  <1>9. AnswerAsAsked'
    BY <1>2 DEF IInv, AnswerAsAsked
  <1> QED BY <1>3, <1>4, <1>5, <1>6, <1>7, <1>8, <1>9 DEF IInv

LEMMA HostInStep ==
    ASSUME IInv, HostIn
    PROVE  IInv'
  <1>1. request \in Request
    BY DEF IInv, TypeOK
  <1>2. TypeOK'
    BY DEF IInv, TypeOK, HostIn, driver
  <1>3. PhaseInv'
    BY DEF IInv, PhaseInv, HostIn, driver
  <1>4. StallInv'
    BY DEF IInv, StallInv, HostIn, driver
  <1>5. ResponseInv'
    <2>1. /\ buf.n \in Nat /\ got \in Nat /\ phase = "in" /\ irq = {} /\ request.type # "set"
          /\ ~Stalls(request)
      BY DEF IInv, TypeOK, PhaseInv, StallInv, HostIn
    <2>2. CASE Known(request)
      <3>1. /\ buf.n = Smaller(Size - got, Packet) /\ resp.from = got + buf.n
            /\ resp.of = request.desc /\ resp.from + respLen = Size
        BY <2>1, <2>2 DEF IInv, ResponseInv, HostIn
      <3>2. request.desc \in Nat /\ request.len \in Nat
        BY <1>1, <2>2, RequestFields, Constants DEF Known, Descriptor
      <3>3. Size \in Nat /\ Size <= request.len
        BY <2>2, <3>2 DEF Size, Smaller, Known
      <3>4. got + buf.n <= Size
        BY <3>1 DEF IInv, TypeOK
      <3>5. phase' = "status" => got' = Size
        BY <2>1, <3>1, <3>2, <3>3, <3>4 DEF HostIn, Smaller
      <3> QED BY <2>1, <2>2, <3>5 DEF IInv, ResponseInv, HostIn, driver, Size
    <2>3. CASE ~Known(request) /\ Descriptor(request)
      <3>1. ~Rest => got = 0 /\ buf.n = 0 /\ Size = 0
        BY <2>3, RequestFields DEF IInv, TypeOK, ResponseInv, HostIn, Known, Size, Smaller,
           Descriptor, Unknown
      <3> QED BY <2>1, <2>3, <3>1 DEF HostIn, ResponseInv, driver, Rest, Size
    <2>4. CASE ~Descriptor(request)
      <3>1. request.type = "get" /\ request.len = 1
        BY <1>1, <2>1, <2>4, RequestFields DEF Descriptor
      <3>2. got = 0
        BY <2>1, <2>4 DEF IInv, ResponseInv, Known, Rest
      <3>3. buf.n = Size /\ Size \in {0, 1}
        BY <2>1, <2>4, <3>1 DEF IInv, SettingInv, HostIn, Size
      <3> QED BY <3>1, <3>2, <3>3 DEF HostIn, ResponseInv, driver, Known, Size, Descriptor
    <2> QED BY <2>2, <2>3, <2>4
  <1>6. LeftInv'
    BY RequestFields DEF IInv, PhaseInv, LeftInv, TypeOK, ResponseInv, Size, Smaller, HostIn,
       driver
  <1>7. SettingInv'
    BY DEF IInv, PhaseInv, SettingInv, Sets, HostIn, driver
  <1>8. AnswerAsAsked'
    <2>1. /\ dat = "ack" /\ phase = "in" /\ request.type # "set" /\ ~rst
          /\ ~Stalls(request)
      BY DEF IInv, PhaseInv, StallInv, HostIn
    <2>4. fault' => buf.n # 0 /\ ~Rest /\ (buf.from # got \/ buf.of \notin Wanted)
      <3>1. buf.n \in Nat /\ fault = FALSE
        BY DEF IInv, TypeOK, AnswerAsAsked
      <3>2. fault' = (fault \/ (buf.n > 0 /\ ~Rest /\ (buf.from # got \/ buf.of \notin Wanted)))
        BY DEF HostIn
      <3>3. buf.n > 0 => buf.n # 0
        BY <3>1
      <3> QED BY ONLY <3>1, <3>2, <3>3, Zenon
    <2>2. CASE Descriptor(request)
      <3>1. CASE Known(request)
        <4>1. buf.from = got /\ buf.of \in Wanted
          BY <2>1, <2>2, <3>1 DEF IInv, PhaseInv, ResponseInv, Wanted, HostIn
        <4> QED BY <2>4, <4>1 DEF AnswerAsAsked
      <3>2. CASE ~Known(request)
        <4>1. ~Rest => buf.n = 0
          BY <2>1, <2>2, <3>2 DEF IInv, ResponseInv
        <4> QED BY <2>4, <4>1 DEF AnswerAsAsked
      <3> QED BY <3>1, <3>2
    <2>3. CASE ~Descriptor(request)
      <3>1. request.type = "get" /\ request.what # "refused" /\ got = 0
        BY <1>1, <2>1, <2>3, RequestFields DEF IInv, ResponseInv, Known, Rest, Descriptor,
           Stalls
      <3>2. /\ request.what = "ignored" => buf.n = 0
            /\ request.what # "ignored" => buf.n = 1 /\ buf.from = 0 /\ buf.of = AnswerOf(request)
        BY <2>1, <3>1 DEF IInv, SettingInv
      <3>3. request.what # "ignored" => AnswerOf(request) \in Wanted
        <4>1. CASE request.what \in Setting
          BY <2>1, <2>3, <4>1, Constants DEF IInv, TypeOK, SettingInv, AnswerOf, Wanted
        <4>2. CASE request.what \notin Setting
          BY <1>1, <2>3, <3>1, <4>2, RequestFields, Constants DEF AnswerOf, Wanted
        <4> QED BY <4>1, <4>2
      <3> QED BY <2>4, <3>1, <3>2, <3>3 DEF AnswerAsAsked
    <2> QED BY <2>2, <2>3
  <1> QED BY <1>2, <1>3, <1>4, <1>5, <1>6, <1>7, <1>8 DEF IInv

LEMMA HostOutStep ==
    ASSUME IInv, HostOut
    PROVE  IInv'
  <1>1. TypeOK'
    BY RequestFields DEF IInv, TypeOK, PhaseInv, HostOut, driver
  <1>2. PhaseInv'
    BY DEF IInv, PhaseInv, HostOut, driver
  <1>3. StallInv'
    BY DEF IInv, StallInv, HostOut, driver
  <1>4. ResponseInv'
    BY DEF IInv, PhaseInv, ResponseInv, HostOut, driver
  <1>5. LeftInv'
    BY DEF IInv, LeftInv, HostOut, driver
  <1>6. SettingInv'
    BY DEF IInv, SettingInv, HostOut, driver
  <1>7. AnswerAsAsked'
    BY DEF IInv, AnswerAsAsked, HostOut
  <1> QED BY <1>1, <1>2, <1>3, <1>4, <1>5, <1>6, <1>7 DEF IInv

LEMMA HostStatusStep ==
    ASSUME IInv, HostStatus
    PROVE  IInv'
  <1>1. TypeOK'
    BY DEF IInv, TypeOK, HostStatus, driver
  <1>2. PhaseInv'
    BY DEF IInv, PhaseInv, HostStatus, driver
  <1>3. StallInv'
    BY DEF IInv, StallInv, HostStatus, driver
  <1>4. ResponseInv'
    BY DEF IInv, ResponseInv, Rest, Size, HostStatus, driver
  <1>5. LeftInv'
    BY DEF IInv, LeftInv, HostStatus, driver
  <1>6. SettingInv'
    BY DEF IInv, SettingInv, HostStatus, driver
  <1>7. AnswerAsAsked'
    BY DEF IInv, AnswerAsAsked, HostStatus
  <1> QED BY <1>1, <1>2, <1>3, <1>4, <1>5, <1>6, <1>7 DEF IInv

LEMMA HostDoneStep ==
    ASSUME IInv, HostDone
    PROVE  IInv'
  <1>1. request \in Request /\ request' = request
    BY DEF IInv, TypeOK, HostDone, driver
  <1>2. /\ phase # "idle" /\ phase' = "idle" /\ irq = {} /\ irq' = {} /\ cut' = cut
        /\ phase \in {"in", "out"} => Stalls(request)
    BY DEF IInv, PhaseInv, StallInv, HostDone, hardware
  <1>3. (dat = "stall" \/ sta = "stall") <=> Stalls(request)
    BY <1>2 DEF IInv, StallInv, HostDone
  <1>4. phase = "answer" /\ request.type # "set" /\ ~Rest => got = Size
    BY DEF IInv, ResponseInv
  <1>5. Sets(request) => phase = "answer" /\ setting[request.what] = request.value
    <2>1. Sets(request) => ~Stalls(request)
      BY Constants DEF Sets, Stalls
    <2> QED BY <1>2, <2>1 DEF IInv, SettingInv, HostDone
  <1>6. AnswerAsAsked'
    BY <1>3, <1>4, <1>5 DEF IInv, AnswerAsAsked, Accepted, Sets, HostDone, Stalls, Rest
  <1>7. told' = IF Sets(request) THEN [told EXCEPT ![request.what] = request.value] ELSE told
    BY DEF HostDone, Sets
  <1>8. TypeOK'
    <2>1. Sets(request) => request.value \in Value
      BY <1>1, RequestFields DEF Sets
    <2>2. told' \in [Setting -> Value \cup {Junk}]
      BY <1>7, <2>1 DEF IInv, TypeOK
    <2> QED BY <1>1, <1>2, <1>6, <2>2 DEF IInv, TypeOK, HostDone, driver, hardware,
       AnswerAsAsked
  <1>9. PhaseInv' /\ StallInv' /\ ResponseInv'
    BY <1>2 DEF IInv, PhaseInv, StallInv, ResponseInv
  <1>10. LeftInv'
    <2>1. phase = "in" => Stalls(request)
      BY <1>2
    <2>2. cut \/ respLen = 0
      BY <1>2, <2>1 DEF IInv, LeftInv, Known, Stalls, Descriptor
    <2> QED BY <1>2, <2>2 DEF LeftInv, HostDone, driver
  <1>11. SettingInv'
    <2>1. told \in [Setting -> Value \cup {Junk}] /\ rst = FALSE
      BY <1>2 DEF IInv, TypeOK, PhaseInv
    <2>2. \A s \in Setting : told'[s] = Junk \/ setting[s] = told'[s]
      BY <1>5, <1>7, <2>1 DEF IInv, SettingInv
    <2> QED BY <1>1, <1>2, <2>1, <2>2 DEF SettingInv, HostDone, driver, hardware
  <1> QED BY <1>6, <1>8, <1>9, <1>10, <1>11 DEF IInv

LEMMA HostGivesUpStep ==
    ASSUME IInv, HostGivesUp
    PROVE  IInv'
  <1>1. TypeOK'
    BY DEF IInv, TypeOK, HostGivesUp, Leave, driver, hardware
  <1>2. PhaseInv'
    BY DEF PhaseInv, HostGivesUp, Leave, hardware
  <1>3. StallInv'
    BY DEF StallInv, HostGivesUp, Leave
  <1>4. ResponseInv'
    BY DEF ResponseInv, HostGivesUp, Leave
  <1>5. LeftInv'
    BY DEF IInv, LeftInv, Known, HostGivesUp, Leave, driver, hardware
  <1>6. SettingInv'
    BY DEF IInv, SettingInv, HostGivesUp, Leave, driver, hardware
  <1>7. AnswerAsAsked'
    BY DEF IInv, AnswerAsAsked, HostGivesUp, Leave
  <1> QED BY <1>1, <1>2, <1>3, <1>4, <1>5, <1>6, <1>7 DEF IInv

LEMMA HostResetStep ==
    ASSUME IInv, HostReset
    PROVE  IInv'
  <1>1. TypeOK'
    BY Constants DEF IInv, TypeOK, HostReset, Leave, driver
  <1>2. PhaseInv'
    BY DEF IInv, PhaseInv, HostReset, Leave, driver
  <1>3. StallInv'
    BY DEF StallInv, HostReset, Leave
  <1>4. ResponseInv'
    BY DEF ResponseInv, HostReset, Leave
  <1>5. LeftInv'
    BY DEF IInv, LeftInv, Known, Descriptor, HostReset, Leave, driver
  <1>6. SettingInv'
    BY DEF IInv, TypeOK, SettingInv, Sets, HostReset, Leave, driver
  <1>7. AnswerAsAsked'
    BY DEF IInv, AnswerAsAsked, HostReset, Leave
  <1> QED BY <1>1, <1>2, <1>3, <1>4, <1>5, <1>6, <1>7 DEF IInv

LEMMA HandleSetupStep ==
    ASSUME IInv, HandleSetup
    PROVE  IInv'
  <1> DEFINE New == request.type = "device" \/ Known(request)
  <1>1. /\ request \in Request /\ request' = request
        /\ irq' = irq \ {"setup"} /\ "setup" \in irq /\ "data" \notin irq
        /\ UNCHANGED <<rst, sta, host>>
    BY DEF IInv, TypeOK, PhaseInv, HandleSetup, HandleRequest
  <1>2. stall' = Stalls(request) /\ dat' = IF Stalls(request) THEN "stall" ELSE "ack"
    BY DEF HandleSetup, HandleRequest, Stalls, StallOf
  <1>3. ASSUME Descriptor(request), New
        PROVE  /\ resp' \in [of : DeviceDesc \cup IntfDesc \cup {Unknown}, from : Nat] /\ respLen' \in Nat
               /\ resp'.of = request.desc /\ resp'.from + respLen' = Size
               /\ buf' \in [of : DeviceDesc \cup IntfDesc \cup {Unknown}, from : Nat, n : Nat]
               /\ buf'.of = request.desc /\ buf'.from = 0 /\ buf'.n = Smaller(Size, Packet)
               /\ resp'.from = buf'.n /\ Size \in Nat /\ Size <= request.desc
    <2> DEFINE p == [of |-> request.desc, from |-> 0]
    <2>1. /\ request.desc \in DeviceDesc \cup IntfDesc \cup {Unknown}
          /\ request.desc \in Nat /\ request.len \in Nat
      BY <1>1, <1>3, RequestFields, Constants DEF Descriptor, Unknown
    <2>2. Size \in Nat /\ Size <= request.desc /\ Size = Smaller(request.desc, request.len)
      BY <1>3, <2>1 DEF Size, Smaller
    <2>3. SendResponse(p, Size)
      BY <1>3, <2>2 DEF Known, Descriptor, HandleSetup, HandleRequest, PrepareDescData,
         StdIntfReq
    <2>4. /\ p \in [of : DeviceDesc \cup IntfDesc \cup {Unknown}, from : Nat]
          /\ p.of = request.desc /\ p.from = 0 /\ 0 + Size <= request.desc /\ 0 + Size = Size
      BY <2>1, <2>2
    <2> HIDE DEF p
    <2> QED BY <2>2, <2>3, <2>4, PacketSent
  <1>4. ASSUME Descriptor(request), ~New
        PROVE  /\ resp' \in [of : DeviceDesc \cup IntfDesc \cup {Unknown}, from : Nat] /\ respLen' \in Nat
               /\ resp'.from + respLen' <= resp'.of
               /\ buf' \in [of : DeviceDesc \cup IntfDesc \cup {Unknown}, from : Nat, n : Nat]
               /\ respLen = 0 => respLen' = 0 /\ buf'.n = 0
    <2>1. request.len \in Nat
      BY <1>1, <1>4, RequestFields DEF Descriptor
    <2>2. Smaller(respLen, request.len) \in Nat /\ Smaller(respLen, request.len) <= respLen
      BY <2>1 DEF IInv, TypeOK, Smaller
    <2>3. SendResponse(resp, Smaller(respLen, request.len))
      BY <1>4 DEF Known, Descriptor, HandleSetup, HandleRequest, StdIntfReq
    <2>4. resp.from \in Nat /\ resp.of \in Nat /\ respLen \in Nat /\ resp.from + respLen <= resp.of
      BY Constants DEF IInv, TypeOK, Unknown
    <2>5. resp.from + Smaller(respLen, request.len) <= resp.of
      BY <2>2, <2>4
    <2>6. /\ resp' \in [of : DeviceDesc \cup IntfDesc \cup {Unknown}, from : Nat] /\ respLen' \in Nat
          /\ resp'.from + respLen' = resp.from + Smaller(respLen, request.len) /\ resp'.of = resp.of
          /\ buf' \in [of : DeviceDesc \cup IntfDesc \cup {Unknown}, from : Nat, n : Nat]
          /\ resp'.from = resp.from + buf'.n /\ buf'.n <= Smaller(respLen, request.len)
      BY <2>2, <2>3, <2>5, PacketSent DEF IInv, TypeOK
    <2> QED BY <2>2, <2>4, <2>6
  <1>5. ASSUME ~Descriptor(request)
        PROVE  /\ UNCHANGED <<resp, respLen>>
               /\ buf' \in [of : DeviceDesc \cup IntfDesc \cup {Unknown, Junk} \cup Value \cup Fixed, from : Nat, n : Nat]
               /\ request.type = "get" /\ ~Stalls(request) =>
                    /\ request.what = "ignored" => buf'.n = 0
                    /\ request.what # "ignored" =>
                         buf' = [of |-> AnswerOf(request), from |-> 0, n |-> 1]
    <2>1. buf \in [of : DeviceDesc \cup IntfDesc \cup {Unknown, Junk} \cup Value \cup Fixed, from : Nat, n : Nat]
      BY DEF IInv, TypeOK
    <2>2. CASE request.type = "set"
      BY <2>1, <2>2 DEF SetSetting, HandleSetup, HandleRequest
    <2>3. CASE request.type = "get"
      BY <1>1, <2>3, AnswerSent DEF IInv, Descriptor, HandleSetup, HandleRequest, Stalls
    <2> QED BY <1>1, <1>5, <2>2, <2>3, RequestFields DEF Descriptor
  <1>6. IF Sets(request)
          THEN \E v \in Value \cup {Junk} :
                 /\ setting' = [setting EXCEPT ![request.what] = v] \/ setting' = setting
                 /\ request.what \notin Long =>
                      v = request.value /\ setting' = [setting EXCEPT ![request.what] = v]
          ELSE setting' = setting
    BY RequestFields, Constants DEF IInv, TypeOK, Sets, GetSetting, SetSetting, SetMicCmd,
       HandleSetup, HandleRequest
  <1>7. setting \in [Setting -> Value \cup {Junk}]
    BY DEF IInv, TypeOK
  <1>8. TypeOK'
    <2>1. /\ resp' \in [of : DeviceDesc \cup IntfDesc \cup {Unknown}, from : Nat] /\ respLen' \in Nat
          /\ resp'.from + respLen' <= resp'.of
          /\ buf' \in [of : DeviceDesc \cup IntfDesc \cup {Unknown, Junk} \cup Value \cup Fixed, from : Nat, n : Nat]
      BY <1>3, <1>4, <1>5 DEF IInv, TypeOK
    <2>2. setting' \in [Setting -> Value \cup {Junk}]
      BY <1>6, <1>7
    <2> QED BY <1>1, <1>2, <2>1, <2>2 DEF IInv, TypeOK, host, Stalls
  <1>9. PhaseInv'
    BY <1>1 DEF IInv, TypeOK, PhaseInv, host
  <1>10. StallInv'
    BY <1>1, <1>2 DEF IInv, StallInv, host
  <1>11. ResponseInv'
    <2>1. got' = got /\ phase' = phase /\ cut' = cut /\ (phase = "in" => got = 0)
      BY <1>1 DEF IInv, ResponseInv, host
    <2>2. CASE phase = "in" /\ Descriptor(request) /\ New
      <3>1. Size' = Size /\ Size - 0 = Size /\ 0 + buf'.n = buf'.n
        BY <1>1, <1>3, <2>2 DEF Size
      <3> QED BY <1>1, <1>2, <1>3, <2>1, <2>2, <3>1 DEF IInv, ResponseInv, Known, Descriptor,
         Stalls
    <2>3. CASE phase = "in" /\ Descriptor(request) /\ ~New
      <3>1. ~cut => buf'.n = 0
        BY <1>4, <2>3 DEF IInv, LeftInv
      <3> QED BY <1>1, <2>1, <2>3, <3>1 DEF ResponseInv, Known, Rest
    <2>4. CASE phase # "in" \/ ~Descriptor(request)
      BY <1>1, <2>1, <2>4 DEF IInv, ResponseInv, Known, Rest, Size
    <2> QED BY <2>2, <2>3, <2>4
  <1>12. LeftInv'
    <2>1. cut' = cut /\ phase' = phase
      BY <1>1 DEF host
    <2>2. CASE Descriptor(request) /\ New
      <3>1. ASSUME ~Known(request)
            PROVE  respLen' = 0
        <4>1. request.desc = 0 /\ Size \in Nat /\ Size <= 0
          BY <1>3, <2>2, <3>1 DEF Known, Unknown
        <4>2. resp'.from \in Nat /\ respLen' \in Nat /\ resp'.from + respLen' = 0
          BY <1>3, <2>2, <4>1
        <4> QED BY <4>2
      <3>2. phase = "in" \/ cut \/ respLen' = 0
        BY <1>1, <2>2 DEF IInv, LeftInv
      <3> QED BY <1>1, <2>1, <3>1, <3>2 DEF LeftInv
    <2>3. CASE Descriptor(request) /\ ~New
      BY <1>1, <1>4, <2>1, <2>3 DEF IInv, LeftInv
    <2>4. CASE ~Descriptor(request)
      BY <1>1, <1>5, <2>1, <2>4 DEF IInv, LeftInv, Descriptor
    <2> QED BY <2>2, <2>3, <2>4
  <1>13. SettingInv'
    <2>1. told' = told /\ phase' = phase /\ rst' = rst
      BY <1>1 DEF host
    <2>2. Sets(request) => told[request.what] = Junk \/ (request.what = "proto" /\ rst)
      BY <1>1 DEF IInv, SettingInv
    <2>3. \A s \in Setting : told'[s] = Junk \/ setting'[s] = told'[s] \/ (s = "proto" /\ rst')
      BY <1>6, <1>7, <2>1, <2>2 DEF IInv, SettingInv
    <2>4. Sets(request) /\ phase \in {"status", "answer"} => setting'[request.what] = request.value
      BY <1>1, <1>6, <1>7 DEF IInv, PhaseInv, Sets
    <2>5. phase = "in" /\ request.type = "get" /\ dat' = "ack" =>
            /\ request.what = "ignored" => buf'.n = 0
            /\ request.what # "ignored" =>
                 buf'.n = 1 /\ buf'.from = 0 /\ buf'.of = AnswerOf(request)'
      BY <1>1, <1>2, <1>5, <1>6 DEF Sets, Descriptor, AnswerOf
    <2> QED BY <1>1, <2>1, <2>3, <2>4, <2>5 DEF IInv, SettingInv
  <1>14. AnswerAsAsked'
    BY <1>1 DEF IInv, AnswerAsAsked, host
  <1> QED BY <1>8, <1>9, <1>10, <1>11, <1>12, <1>13, <1>14 DEF IInv

LEMMA HandleDataStep ==
    ASSUME IInv, HandleData
    PROVE  IInv'
  <1>1. request \in Request /\ request' = request
    BY DEF IInv, TypeOK, HandleData, HandleRequest
  <1>2. TypeOK'
    <2>1. /\ resp' \in [of : DeviceDesc \cup IntfDesc \cup {Unknown}, from : Nat] /\ respLen' \in Nat
          /\ resp'.from + respLen' <= resp'.of
          /\ buf' \in [of : DeviceDesc \cup IntfDesc \cup {Unknown, Junk} \cup Value \cup Fixed, from : Nat, n : Nat]
      <3>1. CASE Descriptor(request)
        <4>1. SendResponse(resp, respLen)
          BY <3>1 DEF Descriptor, HandleData, HandleRequest
        <4> QED BY <4>1, PacketSent DEF IInv, TypeOK
      <3>2. CASE ~Descriptor(request)
        <4>1. CASE request.type = "set"
          BY <4>1 DEF IInv, TypeOK, Descriptor, SetSetting, HandleData, HandleRequest
        <4>2. CASE request.type = "get"
          BY <1>1, <4>2, AnswerSent DEF IInv, TypeOK, Descriptor, HandleData, HandleRequest
        <4> QED BY <1>1, <3>2, <4>1, <4>2, RequestFields DEF Descriptor
      <3> QED BY <3>1, <3>2
    <2>2. setting' \in [Setting -> Value \cup {Junk}]
      BY RequestFields DEF IInv, TypeOK, SettingInv, Sets, GetSetting, SetSetting, SetMicCmd,
         HandleData, HandleRequest
    <2>3. {stall', rst', fault', cut'} \subseteq BOOLEAN /\ dat' \in {"nak", "ack", "stall"}
      BY DEF IInv, TypeOK, StallOf, HandleData, HandleRequest, host
    <2> QED BY <2>1, <2>2, <2>3 DEF IInv, TypeOK, HandleData, HandleRequest, host
  <1>3. PhaseInv'
    <2>1. /\ irq' = irq \ {"data"} /\ "setup" \notin irq /\ "data" \in irq
          /\ UNCHANGED <<rst, sta, phase>> /\ irq \subseteq {"setup", "data", "status"}
      BY DEF IInv, TypeOK, HandleData, HandleRequest, host
    <2> QED BY <1>1, <2>1 DEF IInv, PhaseInv
  <1>4. StallInv'
    BY DEF IInv, StallInv, StallOf, HandleData, HandleRequest, host
  <1>5. ResponseInv'
    BY Constants DEF IInv, TypeOK, PhaseInv, ResponseInv, LeftInv, Known, Rest, Size, Smaller,
       Descriptor, StallOf, Stalls, SendResponse, SetSetting, SetMicCmd, HandleData,
       HandleRequest, host
  <1>6. LeftInv'
    BY Constants DEF IInv, LeftInv, Smaller, SendResponse, GetSetting, SetSetting, SetMicCmd,
       HandleData, HandleRequest, host
  <1>7. SettingInv'
    <2>1. /\ irq' = irq \ {"data"} /\ "setup" \notin irq /\ "data" \in irq
          /\ UNCHANGED <<rst, told, phase>>
          /\ setting \in [Setting -> Value \cup {Junk}] /\ told \in [Setting -> Value \cup {Junk}]
      BY DEF IInv, TypeOK, HandleData, HandleRequest, host
    <2>2. CASE request.type = "set"
      <3>1. SetSetting(request, TRUE) /\ request.what \notin Short
        BY <2>1, <2>2 DEF IInv, PhaseInv, Descriptor, HandleData, HandleRequest
      <3>2. Sets(request) => /\ setting' = [setting EXCEPT ![request.what] = buf.of]
                             /\ buf.of = request.value
        BY <1>1, <2>1, <2>2, <3>1, Constants DEF IInv, SettingInv, Sets, SetSetting, SetMicCmd
      <3>3. ~Sets(request) => setting' = setting
        BY <2>2, <3>1, Constants DEF Sets, SetSetting
      <3>4. Sets(request) => told[request.what] = Junk \/ (request.what = "proto" /\ rst)
        BY <2>1 DEF IInv, SettingInv
      <3>5. \A s \in Setting : told'[s] = Junk \/ setting'[s] = told'[s] \/ (s = "proto" /\ rst')
        BY <2>1, <3>2, <3>3, <3>4 DEF IInv, SettingInv
      <3>6. Sets(request) => setting'[request.what] = request.value
        BY <2>1, <3>2 DEF Sets
      <3> QED BY <1>1, <2>1, <2>2, <3>4, <3>5, <3>6 DEF IInv, SettingInv, Sets
    <2>3. CASE request.type = "get"
      <3>1. GetSetting(request) /\ (phase = "in" /\ dat' = "ack" => request.what # "refused")
        BY <2>1, <2>3 DEF Descriptor, HandleData, HandleRequest, StallOf, Stalls
      <3>2. /\ setting' = setting
            /\ request.what = "ignored" => buf'.n = 0
            /\ request.what \notin {"refused", "ignored"} =>
                 buf' = [of |-> AnswerOf(request), from |-> 0, n |-> 1]
        BY <1>1, <2>3, <3>1, AnswerSent DEF IInv
      <3>3. AnswerOf(request)' = AnswerOf(request)
        BY <1>1, <3>2 DEF AnswerOf
      <3>4. \A s \in Setting : told'[s] = Junk \/ setting'[s] = told'[s] \/ (s = "proto" /\ rst')
        BY <2>1, <3>2 DEF IInv, SettingInv
      <3>5. rst' => told'["proto"] \in {Default, Junk}
        BY <2>1 DEF IInv, SettingInv
      <3>6. phase' = "in" /\ request'.type = "get" /\ dat' = "ack" =>
              /\ request'.what = "ignored" => buf'.n = 0
              /\ request'.what # "ignored" =>
                   buf'.n = 1 /\ buf'.from = 0 /\ buf'.of = AnswerOf(request)'
        BY <1>1, <2>1, <3>1, <3>2, <3>3
      <3>7. request'.type # "set"
        BY <1>1, <2>3
      <3> QED BY <3>4, <3>5, <3>6, <3>7 DEF SettingInv, Sets, AnswerOf
    <2>4. CASE Descriptor(request)
      <3>1. setting' = setting /\ request'.type \notin {"get", "set"}
        BY <1>1, <2>4 DEF Descriptor, HandleData, HandleRequest
      <3> QED BY <2>1, <3>1 DEF IInv, SettingInv, Sets
    <2> QED BY <1>1, <2>2, <2>3, <2>4, RequestFields DEF Descriptor
  <1>8. AnswerAsAsked'
    BY DEF IInv, AnswerAsAsked, HandleData, HandleRequest, host
  <1> QED BY <1>2, <1>3, <1>4, <1>5, <1>6, <1>7, <1>8 DEF IInv

----------------------------------------------------------------------------

\* The answer of each stage belongs to the request, in every reachable state.
THEOREM Invariant == Spec => []IInv
  <1>1. Init => IInv
    <2> SUFFICES ASSUME Init
                 PROVE  IInv
      OBVIOUS
    <2>1. request \in Request
      BY DEF Init, Request
    <2>2. buf \in [of : DeviceDesc \cup IntfDesc \cup {Unknown, Junk} \cup Value \cup Fixed, from : Nat, n : Nat]
      BY DEF Init, Nothing
    <2>3. /\ resp \in [of : DeviceDesc \cup IntfDesc \cup {Unknown}, from : Nat]
          /\ resp.from + respLen <= resp.of
      BY DEF Init, Unknown
    <2>4. TypeOK
      BY <2>1, <2>2, <2>3, Constants DEF Init, TypeOK
    <2>5. PhaseInv /\ StallInv /\ ResponseInv /\ LeftInv /\ AnswerAsAsked
      BY DEF Init, PhaseInv, StallInv, ResponseInv, LeftInv, AnswerAsAsked
    <2>6. SettingInv
      BY Constants DEF Init, SettingInv
    <2> QED BY <2>4, <2>5, <2>6 DEF IInv
  <1>2. IInv /\ [Next]_vars => IInv'
    <2> SUFFICES ASSUME IInv, [Next]_vars
                 PROVE  IInv'
      OBVIOUS
    <2>1. CASE Driver
      BY <2>1, HandleSetupStep, HandleDataStep, HandleStatusStep, HandleResetStep DEF Driver
    <2>2. CASE Host
      BY <2>2, HostInStep, HostOutStep, HostStatusStep, HostDoneStep DEF Host
    <2>3. CASE HostGivesUp \/ HostReset
      BY <2>3, HostGivesUpStep, HostResetStep
    <2>4. ASSUME NEW r \in Request, HostSetup(r)
          PROVE  IInv'
      BY <2>4, HostSetupStep
    <2>5. CASE UNCHANGED vars
      BY <2>5 DEF vars, driver, hardware, host, IInv, TypeOK, PhaseInv, StallInv, ResponseInv,
         LeftInv, SettingInv, AnswerAsAsked, Rest, Size, AnswerOf
    <2> QED BY <2>1, <2>2, <2>3, <2>4, <2>5 DEF Next
  <1> QED BY <1>1, <1>2, PTL DEF Spec

\* The types of the variables; no more bytes are left than the descriptor has.
THEOREM TypeCorrect == Spec => []TypeOK
  BY Invariant, PTL DEF IInv

\* The PC gets what it asked for, whatever was given up before.
THEOREM Answered == Spec => []AnswerAsAsked
  BY Invariant, PTL DEF IInv
=============================================================================
