---------------------------- MODULE CallFlowProofs ----------------------------
(* Machine-checked proofs about CallFlow, for any numbers of retransmissions    *)
(* and of registrations coming and going.                                       *)
EXTENDS CallFlow, TLAPS

-----------------------------------------------------------------------------
(***************************************************************************)
(* The inductive invariant.                                                *)
(***************************************************************************)

\* An INVITE with credentials was sent by a caller that had a challenge.
SentInv ==
    /\ InviteMsg(TRUE) \in wire => caller.auth
    /\ \A a \in BOOLEAN : InviteMsg(a) \in wire => caller.state # "idle"

\* Before the call, and after a challenge, there is no leg.
CallerInv ==
    /\ caller.state = "idle" => legs = <<>> /\ ~caller.auth
    /\ caller.state = "challenged" => ~caller.auth /\ ~Trusted

\* The transaction is the one of the legs; the newest leg is the only one open; a
\* failure route is armed on the first leg alone.
TxInv ==
    /\ tx.state = "none" <=> legs = <<>>
    /\ tx.state = "none" => tx.failure = "none" /\ ~tx.cancelled
    /\ \A i \in DOMAIN legs : legs[i].state = "open" => i = Len(legs) /\ tx.state = "open"
    /\ tx.failure # "none" => Len(legs) = 1
    /\ tx.failure = "TRUNK_AUTH" => legs[1].to = "trunk"
    /\ tx.failure = "VOICEMAIL_FALLBACK" => legs[1].to = "user" /\ call.fallback # {}

\* In a call that was neither cancelled nor sent twice: an INVITE on its way is the
\* one the caller waits for, and the session is that of the open leg.
Plain == resends = 0 /\ ~caller.hungUp
NoOpenLeg == \A i \in DOMAIN legs : legs[i].state # "open"
Fit == /\ callerSdp \notin {"crossed", "direct"}
       /\ CancelMsg \notin wire
       /\ ByeMsg \in wire => caller.state = "over"
       /\ \A a \in BOOLEAN : InviteMsg(a) \in wire =>
              a = caller.auth /\ caller.state = "calling" /\ legs = <<>>
       /\ caller.state \in {"talking", "over"} => NoOpenLeg
       /\ \A i \in DOMAIN legs : legs[i].state = "open" =>
              media = Side(legs[i].to) /\ session = Side(legs[i].to)
FitInv == Plain => Fit

IInv == TypeOK /\ OnlyPermitted /\ SentInv /\ CallerInv /\ TxInv /\ FitInv

-----------------------------------------------------------------------------
(***************************************************************************)
(* Messages and legs.                                                      *)
(***************************************************************************)
LEMMA Messages ==
    /\ \A a, b \in BOOLEAN : InviteMsg(a) = InviteMsg(b) => a = b
    /\ \A a \in BOOLEAN : /\ InviteMsg(a) # CancelMsg /\ InviteMsg(a) # ByeMsg
                          /\ InviteMsg(a) # ReInviteMsg
    /\ CancelMsg # ByeMsg /\ CancelMsg # ReInviteMsg /\ ByeMsg # ReInviteMsg
    /\ \A i, code : /\ ReplyMsg(i, code) # CancelMsg /\ ReplyMsg(i, code) # ByeMsg
                    /\ \A a \in BOOLEAN : ReplyMsg(i, code) # InviteMsg(a)
<1>1. \A a : InviteMsg(a).type = "INVITE" /\ InviteMsg(a).auth = a
  BY DEF InviteMsg
<1>2. CancelMsg.type = "CANCEL" /\ ByeMsg.type = "BYE" /\ ReInviteMsg.type = "re-INVITE"
  BY DEF CancelMsg, ByeMsg, ReInviteMsg
<1>3. \A i, code : ReplyMsg(i, code).type = "reply"
  BY DEF ReplyMsg
<1> QED
  BY <1>1, <1>2, <1>3

\* Legs are added; so are the replies there may be.
LEMMA MessagesGrow ==
    ASSUME DOMAIN legs \subseteq DOMAIN legs'
    PROVE  Message \subseteq Message'
BY DEF Message

WithState(ls, i, st) == [ls EXCEPT ![i].state = st]

LEMMA LegState ==
    ASSUME NEW ls \in Seq(Leg), NEW i \in DOMAIN ls, NEW st \in {"open", "failed", "answered"}
    PROVE  /\ WithState(ls, i, st) \in Seq(Leg) /\ Len(WithState(ls, i, st)) = Len(ls)
           /\ DOMAIN WithState(ls, i, st) = DOMAIN ls
           /\ WithState(ls, i, st)[i].state = st /\ WithState(ls, i, st)[i].to = ls[i].to
           /\ \A j \in DOMAIN ls : j # i => WithState(ls, i, st)[j] = ls[j]
<1>1. ls[i] \in Leg /\ DOMAIN ls = 1..Len(ls) /\ Len(ls) \in Nat
  OBVIOUS
<1> DEFINE leg == [ls[i] EXCEPT !.state = st]
           new == WithState(ls, i, st)
<1>2. leg \in Leg /\ leg.state = st /\ leg.to = ls[i].to
  BY <1>1 DEF Leg
<1>3. new = [ls EXCEPT ![i] = leg]
  BY DEF WithState
<1> HIDE DEF leg, new
<1>4. /\ new \in Seq(Leg) /\ Len(new) = Len(ls) /\ DOMAIN new = DOMAIN ls
      /\ new[i].state = st /\ new[i].to = ls[i].to
      /\ \A j \in DOMAIN ls : j # i => new[j] = ls[j]
  BY <1>1, <1>2, <1>3
<1> QED
  BY <1>4 DEF new

LEMMA LegAppend ==
    ASSUME NEW ls \in Seq(Leg), NEW to \in To
    PROVE  LET new == Append(ls, NewLeg(to)) IN
           /\ new \in Seq(Leg) /\ Len(new) = Len(ls) + 1 /\ DOMAIN new = 1..(Len(ls) + 1)
           /\ new[Len(ls) + 1].state = "open" /\ new[Len(ls) + 1].to = to
           /\ \A j \in DOMAIN ls : new[j] = ls[j]
<1>1. NewLeg(to) \in Leg /\ NewLeg(to).state = "open" /\ NewLeg(to).to = to
  BY DEF NewLeg, Leg
<1> QED
  BY <1>1

LEMMA LegsType ==
    ASSUME TypeOK
    PROVE  /\ legs \in Seq(Leg) /\ Len(legs) \in Nat /\ DOMAIN legs = 1..Len(legs)
           /\ legs = <<>> <=> Len(legs) = 0
           /\ \A i \in DOMAIN legs : legs[i] \in Leg
BY DEF TypeOK

LEMMA InitInv ==
    ASSUME Init
    PROVE  IInv
<1>1. caller.state = "idle" /\ ~caller.auth /\ ~caller.hungUp /\ wire = {} /\ legs = <<>>
  BY DEF Init
<1>2. tx \in Transaction /\ tx.state = "none" /\ tx.failure = "none" /\ ~tx.cancelled
  BY DEF Init, Transaction
<1>3. <<>> \in Seq(Leg) /\ DOMAIN legs = {}
  BY <1>1
<1>4. TypeOK
  BY <1>1, <1>2, <1>3, BoundAssumption DEF Init, TypeOK, Target, Treatment
<1>5. OnlyPermitted /\ SentInv /\ CallerInv /\ TxInv
  BY <1>1, <1>2, <1>3 DEF OnlyPermitted, SentInv, CallerInv, TxInv
<1>6. FitInv
  BY <1>1, <1>3 DEF Init, FitInv, Fit
<1> QED
  BY <1>4, <1>5, <1>6 DEF IInv

CallerState == {"idle", "calling", "challenged", "cancelling", "talking", "over"}
CallerType == [state : CallerState, auth : BOOLEAN, hungUp : BOOLEAN]

LEMMA CallerEffect ==
    ASSUME TypeOK, NEW st \in CallerState, CallerTo(st)
    PROVE  /\ caller' \in CallerType /\ caller'.state = st
           /\ caller'.auth = caller.auth /\ caller'.hungUp = caller.hungUp
BY DEF TypeOK, CallerTo, CallerType, CallerState

-----------------------------------------------------------------------------
(***************************************************************************)
(* The caller, the callees and the registrations.                          *)
(***************************************************************************)
LEMMA InviteStep ==
    ASSUME IInv, Invite
    PROVE  IInv'
<1> DEFINE auth == caller.state = "challenged"
<1>1. /\ TypeOK /\ caller.state \in {"idle", "challenged"} /\ legs = <<>>
      /\ caller \in CallerType
  BY DEF IInv, Invite, CallerIs, CallerInv, OnlyPermitted, TypeOK, CallerType, CallerState
<1>2. /\ caller' = [caller EXCEPT !.state = "calling", !.auth = auth]
      /\ wire' = wire \cup {InviteMsg(caller'.auth)}
      /\ UNCHANGED <<call, registered, relay, resends, moves>>
  BY DEF Invite, Send, CallerIs
<1>3. /\ caller' \in CallerType /\ caller'.state = "calling" /\ caller'.hungUp = caller.hungUp
      /\ caller'.auth = auth
  BY <1>1, <1>2 DEF CallerType, CallerState
<1>4. caller'.auth \in BOOLEAN
  BY <1>3 DEF CallerType
<1>5. TypeOK'
  <2>1. wire' \subseteq Message'
    <3>1. Message' = Message /\ \A a \in BOOLEAN : InviteMsg(a) \in Message
      BY <1>2 DEF Message, relay
    <3> QED
      BY <1>1, <1>2, <1>4, <3>1 DEF TypeOK
  <2> QED
    BY <1>1, <1>2, <1>3, <2>1 DEF TypeOK, CallerType, CallerState, relay
<1>6. OnlyPermitted' /\ CallerInv'
  BY <1>1, <1>2, <1>3 DEF OnlyPermitted, CallerInv, relay
<1>7. SentInv'
  <2>1. ~caller.auth /\ SentInv
    BY <1>1 DEF IInv, CallerInv
  <2>2. InviteMsg(TRUE) \in wire' => caller'.auth
    BY <1>2, <1>4, <2>1, Messages DEF SentInv
  <2> QED
    BY <1>3, <2>2 DEF SentInv
<1>8. TxInv'
  BY <1>2 DEF IInv, TxInv, relay
<1>9. FitInv'
  <2> SUFFICES ASSUME Plain'
               PROVE  Fit'
    BY DEF FitInv
  <2>1. Plain /\ Fit
    BY <1>2, <1>3 DEF IInv, FitInv, Plain
  <2>2. ASSUME NEW a \in BOOLEAN, InviteMsg(a) \in wire'
        PROVE  a = caller'.auth
    BY <1>1, <1>2, <1>4, <2>1, <2>2, Messages DEF Fit
  <2>3. CancelMsg \notin wire' /\ ByeMsg \notin wire'
    BY <1>1, <1>2, <1>4, <2>1, Messages DEF Fit
  <2> QED
    BY <1>1, <1>2, <1>3, <2>1, <2>2, <2>3 DEF Fit, relay, NoOpenLeg
<1> QED
  BY <1>5, <1>6, <1>7, <1>8, <1>9 DEF IInv

\* The transaction and the legs are left alone.
LEMMA QuietTx ==
    ASSUME IInv, UNCHANGED <<call, tx, legs>>
    PROVE  TxInv' /\ Message' = Message
BY DEF IInv, TxInv, Message

NoNewInvite == \A a \in BOOLEAN : InviteMsg(a) \in wire' => InviteMsg(a) \in wire

\* A caller that is past its beginning, and sends no INVITE.
LEMMA SentKept ==
    ASSUME IInv, NoNewInvite, caller'.auth = caller.auth,
           caller'.state = "idle" => caller.state = "idle"
    PROVE  SentInv'
<1>1. TRUE \in BOOLEAN /\ SentInv
  BY DEF IInv
<1> QED
  BY <1>1 DEF SentInv, NoNewInvite

LEMMA ResendStep ==
    ASSUME IInv, Resend
    PROVE  IInv'
<1>1. /\ TypeOK /\ caller.state = "calling" /\ caller.auth \in BOOLEAN
      /\ wire' = wire \cup {InviteMsg(caller.auth)}
      /\ resends' = resends + 1 /\ resends' \in 1..MaxResends
      /\ UNCHANGED <<call, registered, caller, relay, moves>>
  BY BoundAssumption DEF IInv, TypeOK, Resend, CallerIs, Send
<1>2. TxInv' /\ Message' = Message
  BY <1>1, QuietTx DEF relay
<1>3. wire' \subseteq Message'
  <2>1. \A a \in BOOLEAN : InviteMsg(a) \in Message
    BY DEF Message
  <2> QED
    BY <1>1, <1>2, <2>1 DEF TypeOK
<1>4. TypeOK'
  BY <1>1, <1>3, BoundAssumption DEF TypeOK, relay
<1>5. SentInv'
  <2>1. InviteMsg(TRUE) \in wire' => caller.auth
    BY <1>1, Messages DEF IInv, SentInv
  <2> QED
    BY <1>1, <2>1 DEF SentInv
<1>6. OnlyPermitted' /\ CallerInv'
  BY <1>1 DEF IInv, OnlyPermitted, CallerInv, Trusted, relay
<1>7. FitInv'
  BY <1>1 DEF FitInv, Plain
<1> QED
  BY <1>2, <1>4, <1>5, <1>6, <1>7 DEF IInv

LEMMA CancelStep ==
    ASSUME IInv, Cancel
    PROVE  IInv'
<1>1. /\ TypeOK /\ caller.state = "calling"
      /\ caller' = [caller EXCEPT !.state = "cancelling", !.hungUp = TRUE]
      /\ wire' = wire \cup {CancelMsg}
      /\ UNCHANGED <<call, registered, relay, resends, moves>>
  BY DEF IInv, Cancel, CallerIs, Send
<1>2. /\ caller' \in CallerType /\ caller'.state = "cancelling" /\ caller'.hungUp = TRUE
      /\ caller'.auth = caller.auth
  BY <1>1 DEF TypeOK, CallerType, CallerState
<1>3. TxInv' /\ Message' = Message
  BY <1>1, QuietTx DEF relay
<1>4. CancelMsg \in Message
  BY DEF Message
<1>5. TypeOK'
  BY <1>1, <1>2, <1>3, <1>4 DEF TypeOK, CallerType, CallerState, relay
<1>6. SentInv'
  <2>1. NoNewInvite
    BY <1>1, Messages DEF NoNewInvite
  <2> QED
    BY <1>2, <2>1, SentKept
<1>7. OnlyPermitted' /\ CallerInv'
  BY <1>1, <1>2 DEF IInv, OnlyPermitted, CallerInv, Trusted, relay
<1>8. FitInv'
  BY <1>2 DEF FitInv, Plain
<1> QED
  BY <1>3, <1>5, <1>6, <1>7, <1>8 DEF IInv

LEMMA ReInviteStep ==
    ASSUME IInv, ReInvite
    PROVE  IInv'
<1>1. /\ TypeOK /\ wire' = wire \cup {ReInviteMsg}
      /\ UNCHANGED <<call, registered, caller, relay, resends, moves>>
  BY DEF IInv, ReInvite, Send
<1>2. TxInv' /\ Message' = Message
  BY <1>1, QuietTx DEF relay
<1>3. ReInviteMsg \in Message
  BY DEF Message
<1>4. TypeOK'
  BY <1>1, <1>2, <1>3 DEF TypeOK, relay
<1>5. NoNewInvite
  BY <1>1, Messages DEF NoNewInvite
<1>6. SentInv'
  BY <1>1, <1>5, SentKept
<1>7. OnlyPermitted' /\ CallerInv'
  BY <1>1 DEF IInv, OnlyPermitted, CallerInv, Trusted, relay
<1>8. FitInv'
  BY <1>1, <1>5, Messages DEF IInv, FitInv, Fit, Plain, NoOpenLeg, NoNewInvite, relay
<1> QED
  BY <1>2, <1>4, <1>6, <1>7, <1>8 DEF IInv

LEMMA ByeStep ==
    ASSUME IInv, Bye
    PROVE  IInv'
<1>1. /\ TypeOK /\ caller.state = "talking" /\ CallerTo("over")
      /\ wire' = wire \cup {ByeMsg}
      /\ UNCHANGED <<call, registered, relay, resends, moves>>
  BY DEF IInv, Bye, CallerIs, Send
<1>2. /\ caller' \in CallerType /\ caller'.state = "over"
      /\ caller'.hungUp = caller.hungUp /\ caller'.auth = caller.auth
  BY <1>1, CallerEffect DEF CallerState
<1>3. TxInv' /\ Message' = Message
  BY <1>1, QuietTx DEF relay
<1>4. ByeMsg \in Message
  BY DEF Message
<1>5. TypeOK'
  BY <1>1, <1>2, <1>3, <1>4 DEF TypeOK, CallerType, CallerState, relay
<1>6. NoNewInvite
  BY <1>1, Messages DEF NoNewInvite
<1>7. SentInv'
  BY <1>2, <1>6, SentKept
<1>8. OnlyPermitted' /\ CallerInv'
  BY <1>1, <1>2 DEF IInv, OnlyPermitted, CallerInv, Trusted, relay
<1>9. FitInv'
  <2> SUFFICES ASSUME Plain'
               PROVE  Fit'
    BY DEF FitInv
  <2>1. Plain /\ Fit
    BY <1>1, <1>2 DEF IInv, FitInv, Plain
  <2>2. \A a \in BOOLEAN : InviteMsg(a) \notin wire'
    BY <1>1, <1>6, <2>1 DEF Fit, NoNewInvite
  <2> QED
    BY <1>1, <1>2, <2>1, <2>2, Messages DEF Fit, NoOpenLeg, relay
<1> QED
  BY <1>3, <1>5, <1>7, <1>8, <1>9 DEF IInv

LEMMA ReplyStep ==
    ASSUME IInv, NEW i \in DOMAIN legs, NEW code \in Failure \cup {"progress", "answer"},
           Reply(i, code)
    PROVE  IInv' /\ Len(legs') = Len(legs)
<1> DEFINE final == code # "progress"
           leg == [legs[i] EXCEPT !.final = final]
<1>1. /\ TypeOK /\ wire' = wire \cup {ReplyMsg(i, code)}
      /\ legs' = [legs EXCEPT ![i].final = code # "progress"]
      /\ UNCHANGED <<call, registered, caller, tx, media, session, callerSdp, calleeSdp,
                     resends, moves>>
  BY DEF IInv, Reply, Send
<1>2. legs \in Seq(Leg) /\ legs[i] \in Leg /\ Len(legs) \in Nat
  BY <1>1, LegsType
<1>3. leg \in Leg /\ leg.state = legs[i].state /\ leg.to = legs[i].to
  BY <1>2 DEF Leg
<1>4. legs' = [legs EXCEPT ![i] = leg]
  BY <1>1
<1> HIDE DEF leg
<1>5. /\ legs' \in Seq(Leg) /\ Len(legs') = Len(legs) /\ DOMAIN legs' = DOMAIN legs
      /\ \A j \in DOMAIN legs : legs'[j].state = legs[j].state /\ legs'[j].to = legs[j].to
      /\ legs' = <<>> <=> legs = <<>>
  BY <1>2, <1>3, <1>4
<1>6. wire' \subseteq Message'
  <2>1. ReplyMsg(i, code) \in Message
    BY DEF Message
  <2> QED
    BY <1>1, <1>5, <2>1, MessagesGrow DEF TypeOK
<1>7. TypeOK'
  BY <1>1, <1>5, <1>6 DEF TypeOK
<1>8. NoNewInvite
  BY <1>1, Messages DEF NoNewInvite
<1>9. SentInv'
  BY <1>1, <1>8, SentKept
<1>10. OnlyPermitted' /\ CallerInv'
  BY <1>1, <1>5 DEF IInv, OnlyPermitted, CallerInv, Trusted
<1>11. TxInv'
  <2>1. Len(legs) = 1 => 1 \in DOMAIN legs
    BY <1>2
  <2> QED
    BY <1>1, <1>5, <2>1 DEF IInv, TxInv
<1>12. FitInv'
  BY <1>1, <1>5, <1>8, Messages DEF IInv, FitInv, Fit, Plain, NoOpenLeg, NoNewInvite
<1> QED
  BY <1>5, <1>7, <1>9, <1>10, <1>11, <1>12 DEF IInv

LEMMA RegisterStep ==
    ASSUME IInv, Register
    PROVE  IInv'
<1>1. /\ registered' \in BOOLEAN /\ moves' \in 0..MaxMoves
      /\ UNCHANGED <<call, caller, wire, relay, resends>>
  BY BoundAssumption DEF IInv, TypeOK, Register
<1>2. TxInv' /\ Message' = Message
  BY <1>1, QuietTx DEF relay
<1>3. TypeOK'
  BY <1>1, <1>2 DEF IInv, TypeOK, relay
<1>4. OnlyPermitted' /\ CallerInv' /\ SentInv'
  BY <1>1 DEF IInv, OnlyPermitted, CallerInv, SentInv, Trusted, relay
<1>5. FitInv'
  BY <1>1 DEF IInv, FitInv, Fit, Plain, NoOpenLeg, relay
<1> QED
  BY <1>2, <1>3, <1>4, <1>5 DEF IInv

-----------------------------------------------------------------------------
(***************************************************************************)
(* Requests.                                                               *)
(***************************************************************************)
\* What is relayed was permitted.
LEMMA DestinationPermits ==
    ASSUME IInv, Destination # "none"
    PROVE  /\ Destination \in To /\ call.policy /\ call.route # "none"
           /\ FailureRouteOf(Destination) = "TRUNK_AUTH" => Destination = "trunk"
           /\ FailureRouteOf(Destination) = "VOICEMAIL_FALLBACK" =>
                  Destination = "user" /\ call.fallback # {}
           /\ FailureRouteOf(Destination) \in {"none", "TRUNK_AUTH", "VOICEMAIL_FALLBACK"}
<1>1. call.route \in {"none", "SIPUser", "AsteriskPool", "SIPTrunk"}
  BY DEF IInv, TypeOK, Call
<1>2. Destination \in To /\ call.policy /\ call.route # "none"
  BY <1>1 DEF Destination, To
<1> QED
  BY <1>2 DEF FailureRouteOf

LEMMA SideType == \A to : Side(to) \in {"generic", "asterisk"}
BY DEF Side

LEMMA ReceiveInviteStep ==
    ASSUME IInv, NEW a \in BOOLEAN, ReceiveInvite(a)
    PROVE  IInv'
<1>1. /\ TypeOK /\ InviteMsg(a) \in wire /\ wire' = wire \ {InviteMsg(a)}
      /\ UNCHANGED <<call, registered, resends, moves>>
  BY DEF IInv, ReceiveInvite
<1>2. NoNewInvite
  BY <1>1 DEF NoNewInvite
<1>3. /\ InviteMsg(TRUE) \in wire => caller.auth
      /\ caller.state # "idle"
      /\ a = TRUE => caller.auth
  BY <1>1 DEF IInv, SentInv
\* In a call sent once this was the last INVITE.
<1>4. ASSUME Plain
      PROVE  /\ Fit /\ a = caller.auth /\ caller.state = "calling" /\ legs = <<>>
             /\ \A b \in BOOLEAN : InviteMsg(b) \notin wire'
             /\ CancelMsg \notin wire' /\ ByeMsg \notin wire'
  <2>1. Fit
    BY <1>4 DEF IInv, FitInv
  <2> QED
    BY <1>1, <2>1 DEF Fit
<1>5. CASE ~Authorized(a)
  <2> DEFINE st == IF CallerIs({"calling"}) /\ ~caller.auth THEN "challenged" ELSE caller.state
  <2>1. CallerTo(st) /\ UNCHANGED relay
    BY <1>5 DEF ReceiveInvite, Challenge
  <2>2. st \in CallerState /\ ~Trusted /\ a = FALSE
    BY <1>1, <1>5 DEF TypeOK, CallerState, Authorized
  <2> HIDE DEF st
  <2>3. /\ caller' \in CallerType /\ caller'.state = st
        /\ caller'.auth = caller.auth /\ caller'.hungUp = caller.hungUp
    BY <1>1, <2>1, <2>2, CallerEffect
  <2>4. TxInv' /\ Message' = Message
    BY <1>1, <2>1, QuietTx DEF relay
  <2>5. TypeOK'
    BY <1>1, <2>1, <2>3, <2>4 DEF TypeOK, CallerType, CallerState, relay
  <2>6. SentInv'
    BY <1>2, <1>3, <2>3, SentKept DEF st
  <2>7. OnlyPermitted'
    BY <1>1, <2>1, <2>3 DEF IInv, OnlyPermitted, Trusted, relay
  <2>8. CallerInv'
    BY <1>1, <1>3, <2>1, <2>2, <2>3 DEF IInv, CallerInv, Trusted, relay, st, CallerIs
  <2>9. FitInv'
    <3> SUFFICES ASSUME Plain'
                 PROVE  Fit'
      BY DEF FitInv
    <3>1. Plain
      BY <1>1, <2>3 DEF Plain
    <3>2. /\ caller'.state = "challenged"
          /\ legs' = <<>> /\ callerSdp' = callerSdp /\ DOMAIN legs' = {}
      BY <1>4, <2>1, <2>2, <2>3, <3>1 DEF st, CallerIs, relay
    <3> QED
      BY <1>4, <3>1, <3>2 DEF Fit
  <2> QED
    BY <2>4, <2>5, <2>6, <2>7, <2>8, <2>9 DEF IInv
<1>6. CASE Authorized(a) /\ Destination = "none"
  <2> DEFINE st == IF CallerIs(Waiting) THEN "over" ELSE caller.state
  <2>1. CallerTo(st) /\ UNCHANGED relay
    BY <1>6 DEF ReceiveInvite, Refuse
  <2>2. st \in CallerState /\ st # "idle"
    BY <1>1, <1>3 DEF TypeOK, CallerState
  <2>3. st = "challenged" => caller.state = "challenged"
    OBVIOUS
  <2>4. /\ caller' \in CallerType /\ caller'.state = st
        /\ caller'.auth = caller.auth /\ caller'.hungUp = caller.hungUp
    <3> HIDE DEF st
    <3> QED
      BY <1>1, <2>1, <2>2, CallerEffect
  <2>5. TxInv' /\ Message' = Message
    BY <1>1, <2>1, QuietTx DEF relay
  <2>6. TypeOK'
    <3> HIDE DEF st
    <3> QED
      BY <1>1, <2>1, <2>4, <2>5 DEF TypeOK, CallerType, CallerState, relay
  <2>7. SentInv'
    <3> HIDE DEF st
    <3> QED
      BY <1>2, <2>2, <2>4, SentKept
  <2>8. OnlyPermitted'
    BY <1>1, <2>1, <2>4 DEF IInv, OnlyPermitted, Trusted, relay
  <2>9. CallerInv'
    <3> HIDE DEF st
    <3> QED
      BY <1>1, <2>1, <2>2, <2>3, <2>4 DEF IInv, CallerInv, Trusted, relay
  <2>10. FitInv'
    <3> SUFFICES ASSUME Plain'
                 PROVE  Fit'
      BY DEF FitInv
    <3>1. Plain
      BY <1>1, <2>4 DEF Plain
    <3>2. legs' = <<>> /\ callerSdp' = callerSdp /\ DOMAIN legs' = {}
      BY <1>4, <2>1, <3>1 DEF relay
    <3> QED
      BY <1>4, <3>1, <3>2 DEF Fit, NoOpenLeg
  <2> QED
    BY <2>5, <2>6, <2>7, <2>8, <2>9, <2>10 DEF IInv
<1>7. CASE Authorized(a) /\ Destination # "none"
  <2> DEFINE to == Destination
  <2>1. RelayInvite(to)
    BY <1>7 DEF ReceiveInvite
  <2>2. /\ to \in To /\ call.policy /\ call.route # "none"
        /\ FailureRouteOf(to) = "TRUNK_AUTH" => to = "trunk"
        /\ FailureRouteOf(to) = "VOICEMAIL_FALLBACK" => to = "user" /\ call.fallback # {}
        /\ FailureRouteOf(to) \in {"none", "TRUNK_AUTH", "VOICEMAIL_FALLBACK"}
    BY <1>7, DestinationPermits
  <2> HIDE DEF to
  <2>3. /\ media' = Side(to) /\ session' = Side(to) /\ calleeSdp' = "relayed"
        /\ UNCHANGED <<caller, callerSdp>>
    BY <2>1 DEF RelayInvite, Offer
  <2>4. media' \in Target /\ session' \in Target /\ calleeSdp' \in Treatment
    BY <2>3, SideType DEF Target, Treatment
  <2>5. Trusted \/ caller.auth
    BY <1>3, <1>7 DEF Authorized
  <2>6. SentInv'
    BY <1>2, <2>3, SentKept
  <2>7. CASE tx.state = "none"
    <3>1. /\ tx' = [state |-> "open", cancelled |-> FALSE, failure |-> FailureRouteOf(to)]
          /\ legs' = <<NewLeg(to)>> /\ legs = <<>>
      BY <2>1, <2>7 DEF RelayInvite, IInv, TxInv
    <3>2. tx' \in Transaction /\ tx'.state = "open" /\ tx'.failure = FailureRouteOf(to)
      BY <2>2, <3>1 DEF Transaction
    <3>3. NewLeg(to) \in Leg /\ NewLeg(to).state = "open" /\ NewLeg(to).to = to
      BY <2>2 DEF NewLeg, Leg
    <3>4. /\ legs' \in Seq(Leg) /\ Len(legs') = 1 /\ DOMAIN legs' = {1} /\ legs' # <<>>
          /\ legs'[1].state = "open" /\ legs'[1].to = to
      BY <3>1, <3>3
    <3>5. wire' \subseteq Message'
      <4>1. DOMAIN legs \subseteq DOMAIN legs'
        BY <3>1
      <4> QED
        BY <1>1, <4>1, MessagesGrow DEF TypeOK
    <3>6. TypeOK'
      BY <1>1, <2>3, <2>4, <3>2, <3>4, <3>5 DEF TypeOK
    <3>7. OnlyPermitted'
      BY <1>1, <2>2, <2>3, <2>5 DEF OnlyPermitted, Trusted
    <3>8. CallerInv'
      BY <1>1, <1>3, <2>3, <2>5 DEF IInv, CallerInv, Trusted
    <3>9. TxInv'
      BY <1>1, <2>2, <3>2, <3>4 DEF TxInv
    <3>10. FitInv'
      <4> SUFFICES ASSUME Plain'
                   PROVE  Fit'
        BY DEF FitInv
      <4>1. Plain
        BY <1>1, <2>3 DEF Plain
      <4>2. \A j \in DOMAIN legs' : media' = Side(legs'[j].to) /\ session' = Side(legs'[j].to)
        BY <2>3, <3>4
      <4> QED
        BY <1>4, <2>3, <4>1, <4>2 DEF Fit
    <3> QED
      BY <2>6, <3>6, <3>7, <3>8, <3>9, <3>10 DEF IInv
  <2>8. CASE tx.state # "none"
    <3>1. UNCHANGED <<tx, legs>> /\ legs # <<>>
      BY <2>1, <2>8 DEF RelayInvite, IInv, TxInv
    <3>2. TxInv' /\ Message' = Message
      BY <1>1, <3>1, QuietTx
    <3>3. TypeOK'
      BY <1>1, <2>3, <2>4, <3>1, <3>2 DEF TypeOK
    <3>4. OnlyPermitted' /\ CallerInv'
      BY <1>1, <2>3, <3>1 DEF IInv, OnlyPermitted, CallerInv, Trusted
    <3>5. FitInv'
      BY <1>1, <1>4, <2>3, <3>1 DEF FitInv, Plain
    <3> QED
      BY <2>6, <3>2, <3>3, <3>4, <3>5 DEF IInv
  <2> QED
    BY <2>7, <2>8
<1> QED
  BY <1>5, <1>6, <1>7

LEMMA ReceiveCancelStep ==
    ASSUME IInv, ReceiveCancel
    PROVE  IInv'
<1>1. /\ TypeOK /\ CancelMsg \in wire /\ wire' = wire \ {CancelMsg} /\ session' = "none"
      /\ UNCHANGED <<call, registered, caller, legs, media, callerSdp, calleeSdp,
                     resends, moves>>
  BY DEF IInv, ReceiveCancel
<1>2. /\ tx' \in Transaction /\ tx'.state = tx.state /\ tx'.failure = tx.failure
      /\ tx.state = "none" => tx' = tx
  <2> DEFINE ends == Trusted /\ Destination # "none" /\ tx.state = "open"
  <2>1. tx' = IF ends THEN [tx EXCEPT !.cancelled = TRUE] ELSE tx
    BY DEF ReceiveCancel
  <2>2. ends => tx.state = "open"
    OBVIOUS
  <2> HIDE DEF ends
  <2>3. CASE ends
    BY <1>1, <2>1, <2>2, <2>3 DEF TypeOK, Transaction
  <2>4. CASE ~ends
    BY <1>1, <2>1, <2>4 DEF TypeOK
  <2> QED
    BY <2>3, <2>4
<1>3. TypeOK'
  BY <1>1, <1>2 DEF TypeOK, Target, Message
<1>4. TxInv'
  BY <1>1, <1>2 DEF IInv, TxInv
<1>5. SentInv'
  BY <1>1, SentKept DEF NoNewInvite
<1>6. OnlyPermitted' /\ CallerInv'
  BY <1>1 DEF IInv, OnlyPermitted, CallerInv, Trusted
<1>7. FitInv'
  BY <1>1 DEF IInv, FitInv, Fit, Plain
<1> QED
  BY <1>3, <1>4, <1>5, <1>6, <1>7 DEF IInv

LEMMA ReceiveByeStep ==
    ASSUME IInv, ReceiveBye
    PROVE  IInv'
<1>1. /\ TypeOK /\ ByeMsg \in wire /\ wire' = wire \ {ByeMsg} /\ session' = "none"
      /\ UNCHANGED <<call, registered, caller, tx, legs, media, callerSdp, calleeSdp,
                     resends, moves>>
  BY DEF IInv, ReceiveBye
<1>2. TxInv' /\ Message' = Message
  BY <1>1, QuietTx
<1>3. TypeOK'
  BY <1>1, <1>2 DEF TypeOK, Target
<1>4. SentInv'
  BY <1>1, SentKept DEF NoNewInvite
<1>5. OnlyPermitted' /\ CallerInv'
  BY <1>1 DEF IInv, OnlyPermitted, CallerInv, Trusted
<1>6. FitInv'
  BY <1>1 DEF IInv, FitInv, Fit, Plain, NoOpenLeg
<1> QED
  BY <1>2, <1>3, <1>4, <1>5, <1>6 DEF IInv

LEMMA ReceiveReInviteStep ==
    ASSUME IInv, ReceiveReInvite
    PROVE  IInv'
<1>1. /\ TypeOK /\ wire' = wire \ {ReInviteMsg} /\ calleeSdp' = "direct"
      /\ UNCHANGED <<call, registered, caller, tx, legs, media, session, callerSdp,
                     resends, moves>>
  BY DEF IInv, ReceiveReInvite
<1>2. TxInv' /\ Message' = Message
  BY <1>1, QuietTx
<1>3. TypeOK'
  BY <1>1, <1>2 DEF TypeOK, Treatment
<1>4. SentInv'
  BY <1>1, SentKept DEF NoNewInvite
<1>5. OnlyPermitted' /\ CallerInv'
  BY <1>1 DEF IInv, OnlyPermitted, CallerInv, Trusted
<1>6. FitInv'
  BY <1>1 DEF IInv, FitInv, Fit, Plain, NoOpenLeg
<1> QED
  BY <1>2, <1>3, <1>4, <1>5, <1>6 DEF IInv

-----------------------------------------------------------------------------
(***************************************************************************)
(* Replies, failures and timeouts.                                         *)
(***************************************************************************)

\* A call with an open leg is under way.
LEMMA OpenLeg ==
    ASSUME IInv, NEW i \in DOMAIN legs, legs[i].state = "open"
    PROVE  /\ i = Len(legs) /\ tx.state = "open" /\ legs # <<>>
           /\ caller.state \notin {"idle", "challenged"}
           /\ Plain => Fit /\ caller.state \in Waiting
                           /\ \A a \in BOOLEAN : InviteMsg(a) \notin wire
<1>1. /\ i = Len(legs) /\ tx.state = "open" /\ legs # <<>>
  BY DEF IInv, TxInv
<1>2. caller.state \in CallerState /\ caller.state \notin {"idle", "challenged"}
  BY <1>1 DEF IInv, TypeOK, CallerState, CallerInv, OnlyPermitted, Trusted
<1>3. ASSUME Plain
      PROVE  /\ Fit /\ caller.state \notin {"talking", "over"}
             /\ \A a \in BOOLEAN : InviteMsg(a) \notin wire
  BY <1>1, <1>3 DEF IInv, FitInv, Fit, NoOpenLeg
<1> QED
  BY <1>1, <1>2, <1>3 DEF CallerState, Waiting

LEMMA AnswerType == \A i : Answer(i) \in Treatment
BY DEF Answer, Treatment

LEMMA ProgressStep ==
    ASSUME IInv, NEW i \in DOMAIN legs, Progress(i)
    PROVE  IInv'
<1>1. /\ TypeOK /\ wire' = wire \ {ReplyMsg(i, "progress")}
      /\ callerSdp' = IF legs[i].state = "open" THEN Answer(i) ELSE callerSdp
      /\ UNCHANGED <<call, registered, caller, tx, legs, media, session, calleeSdp,
                     resends, moves>>
  BY DEF IInv, Progress
<1>2. TxInv' /\ Message' = Message
  BY <1>1, QuietTx
<1>3. TypeOK'
  <2>1. callerSdp' \in Treatment
    BY <1>1, AnswerType DEF TypeOK
  <2> QED
    BY <1>1, <1>2, <2>1 DEF TypeOK
<1>4. SentInv'
  BY <1>1, SentKept DEF NoNewInvite
<1>5. OnlyPermitted' /\ CallerInv'
  BY <1>1 DEF IInv, OnlyPermitted, CallerInv, Trusted
<1>6. FitInv'
  <2> SUFFICES ASSUME Plain'
               PROVE  Fit'
    BY DEF FitInv
  <2>1. Plain /\ Fit
    BY <1>1 DEF IInv, FitInv, Plain
  <2>2. callerSdp' \notin {"crossed", "direct"}
    BY <1>1, <2>1, SideType DEF Fit, Answer
  <2> QED
    BY <1>1, <2>1, <2>2 DEF Fit, NoOpenLeg
<1> QED
  BY <1>2, <1>3, <1>4, <1>5, <1>6 DEF IInv

LEMMA AnsweredStep ==
    ASSUME IInv, NEW i \in DOMAIN legs, Answered(i)
    PROVE  IInv' /\ Len(legs') = Len(legs)
<1>1. /\ TypeOK /\ wire' = wire \ {ReplyMsg(i, "answer")}
      /\ UNCHANGED <<call, registered, media, session, calleeSdp, resends, moves>>
  BY DEF IInv, Answered
<1>2. NoNewInvite
  BY <1>1 DEF NoNewInvite
<1>3. CASE legs[i].state # "open"
  <2>1. UNCHANGED <<callerSdp, tx, legs, caller>>
    BY <1>3 DEF Answered
  <2>2. TxInv' /\ Message' = Message
    BY <1>1, <2>1, QuietTx
  <2>3. TypeOK'
    BY <1>1, <2>1, <2>2 DEF TypeOK
  <2>4. SentInv'
    BY <1>2, <2>1, SentKept
  <2>5. OnlyPermitted' /\ CallerInv'
    BY <1>1, <2>1 DEF IInv, OnlyPermitted, CallerInv, Trusted
  <2>6. FitInv'
    BY <1>1, <2>1 DEF IInv, FitInv, Fit, Plain, NoOpenLeg
  <2> QED
    BY <2>1, <2>2, <2>3, <2>4, <2>5, <2>6 DEF IInv
<1>4. CASE legs[i].state = "open"
  <2> DEFINE st == IF CallerIs(Waiting) THEN "talking" ELSE caller.state
  <2>1. /\ callerSdp' = Answer(i) /\ tx' = [tx EXCEPT !.state = "done"]
        /\ legs' = [legs EXCEPT ![i].state = "answered"] /\ CallerTo(st)
    BY <1>4 DEF Answered
  <2>2. /\ i = Len(legs) /\ tx.state = "open" /\ legs # <<>>
        /\ caller.state \notin {"idle", "challenged"}
        /\ Plain => Fit /\ \A a \in BOOLEAN : InviteMsg(a) \notin wire
    BY <1>4, OpenLeg
  <2>3. st \in CallerState \ {"idle", "challenged"}
    BY <1>1, <2>2 DEF TypeOK, CallerState
  <2>4. /\ caller' \in CallerType /\ caller'.state = st
        /\ caller'.auth = caller.auth /\ caller'.hungUp = caller.hungUp
    <3> HIDE DEF st
    <3> QED
      BY <1>1, <2>1, <2>3, CallerEffect
  <2> HIDE DEF st
  <2>5. /\ legs' \in Seq(Leg) /\ Len(legs') = Len(legs) /\ DOMAIN legs' = DOMAIN legs
        /\ legs'[i].state = "answered" /\ legs'[i].to = legs[i].to
        /\ \A j \in DOMAIN legs : j # i => legs'[j] = legs[j]
    <3>1. legs' = WithState(legs, i, "answered") /\ legs \in Seq(Leg)
      BY <1>1, <2>1 DEF WithState, TypeOK
    <3>2. i \in DOMAIN legs /\ "answered" \in {"open", "failed", "answered"}
      OBVIOUS
    <3> DEFINE new == WithState(legs, i, "answered")
    <3>3. /\ new \in Seq(Leg) /\ Len(new) = Len(legs) /\ DOMAIN new = DOMAIN legs
          /\ new[i].state = "answered" /\ new[i].to = legs[i].to
          /\ \A j \in DOMAIN legs : j # i => new[j] = legs[j]
      BY <3>1, <3>2, LegState
    <3> HIDE DEF new
    <3>4. legs' = new
      BY <3>1 DEF new
    <3> QED
      BY <3>3, <3>4
  <2>6. /\ \A j \in DOMAIN legs : legs'[j].to = legs[j].to
        /\ \A j \in DOMAIN legs : legs'[j].state # "open"
        /\ legs' # <<>>
    BY <1>1, <2>2, <2>5, LegsType DEF IInv, TxInv
  <2>7. tx' \in Transaction /\ tx'.state = "done" /\ tx'.failure = tx.failure
    BY <1>1, <2>1 DEF TypeOK, Transaction
  <2>8. TypeOK'
    <3>1. wire' \subseteq Message'
      BY <1>1, <2>5, MessagesGrow DEF TypeOK
    <3> QED
      BY <1>1, <2>1, <2>4, <2>5, <2>7, <3>1, AnswerType DEF TypeOK, CallerType, CallerState
  <2>9. SentInv'
    BY <1>2, <2>3, <2>4, SentKept
  <2>10. OnlyPermitted' /\ CallerInv'
    BY <1>1, <2>2, <2>3, <2>4 DEF IInv, OnlyPermitted, CallerInv, Trusted
  <2>11. TxInv'
    <3>1. Len(legs) = 1 => 1 \in DOMAIN legs
      BY <1>1, LegsType
    <3> QED
      BY <1>1, <2>2, <2>5, <2>6, <2>7, <3>1 DEF IInv, TxInv
  <2>12. FitInv'
    <3> SUFFICES ASSUME Plain'
                 PROVE  Fit'
      BY DEF FitInv
    <3>1. Plain /\ Fit /\ \A a \in BOOLEAN : InviteMsg(a) \notin wire
      BY <1>1, <2>2, <2>4 DEF Plain
    <3>2. callerSdp' \notin {"crossed", "direct"}
      BY <1>4, <2>1, <3>1, SideType DEF Fit, Answer
    <3>3. ByeMsg \in wire' => caller'.state = "over"
      BY <1>1, <2>1, <2>4, <3>1 DEF Fit, st, CallerIs, Waiting
    <3> QED
      BY <1>1, <2>5, <2>6, <3>1, <3>2, <3>3 DEF Fit, NoOpenLeg
  <2> QED
    BY <2>5, <2>8, <2>9, <2>10, <2>11, <2>12 DEF IInv
<1> QED
  BY <1>3, <1>4

\* A further leg: the failed one was the first, the new one is the second and last.
NextLegFacts(to) ==
    /\ Len(legs) = 1 /\ Len(legs') = 2 /\ DOMAIN legs' = {1, 2} /\ legs' \in Seq(Leg)
    /\ legs'[1].state = "failed" /\ legs'[1].to = legs[1].to
    /\ legs'[2].state = "open" /\ legs'[2].to = to
    /\ tx' \in Transaction /\ tx'.state = tx.state /\ tx'.cancelled = tx.cancelled
    /\ tx'.failure = "none"
    /\ UNCHANGED <<caller, callerSdp>>

LEMMA NextLegEffect ==
    ASSUME IInv, tx.failure # "none", NEW to \in To, NextLeg(to)
    PROVE  NextLegFacts(to)
<1> DEFINE old == WithState(legs, 1, "failed")
<1>1. TypeOK /\ Len(legs) = 1 /\ DOMAIN legs = {1} /\ legs \in Seq(Leg)
  BY LegsType DEF IInv, TxInv
<1>2. /\ old \in Seq(Leg) /\ Len(old) = 1 /\ DOMAIN old = {1}
      /\ old[1].state = "failed" /\ old[1].to = legs[1].to
  <2>1. 1 \in DOMAIN legs /\ "failed" \in {"open", "failed", "answered"}
    BY <1>1
  <2>2. /\ old \in Seq(Leg) /\ Len(old) = Len(legs) /\ DOMAIN old = DOMAIN legs
        /\ old[1].state = "failed" /\ old[1].to = legs[1].to
    BY <1>1, <2>1, LegState
  <2> HIDE DEF old
  <2> QED
    BY <1>1, <2>2
<1>3. legs' = Append(old, NewLeg(to)) /\ tx' = [tx EXCEPT !.failure = "none"]
  BY <1>1 DEF NextLeg, WithState
<1> HIDE DEF old
<1>4. /\ legs' \in Seq(Leg) /\ Len(legs') = 2 /\ DOMAIN legs' = 1..2
      /\ legs'[2].state = "open" /\ legs'[2].to = to
      /\ legs'[1] = old[1]
  <2>1. 1 \in DOMAIN old /\ Len(old) + 1 = 2
    BY <1>2
  <2> QED
    BY <1>2, <1>3, <2>1, LegAppend
<1>5. /\ tx' \in Transaction /\ tx'.state = tx.state /\ tx'.cancelled = tx.cancelled
      /\ tx'.failure = "none"
  BY <1>1, <1>3 DEF TypeOK, Transaction
<1> QED
  BY <1>1, <1>2, <1>4, <1>5 DEF NextLegFacts, NextLeg

LEMMA NextLegStep ==
    ASSUME IInv, tx.failure # "none", legs # <<>>, legs[Len(legs)].state = "open",
           wire' \subseteq wire, UNCHANGED <<call, registered, resends, moves>>,
           NEW to \in To, NextLegFacts(to),
           media' \in Target, session' \in Target, calleeSdp' \in Treatment,
           Plain => media' = Side(to) /\ session' = Side(to)
    PROVE  IInv'
<1>1. TypeOK /\ Len(legs) = 1 /\ DOMAIN legs = {1} /\ legs \in Seq(Leg)
  BY LegsType DEF IInv, TxInv
<1>2. /\ tx.state = "open"
      /\ Plain => Fit /\ caller.state \in Waiting
                      /\ \A a \in BOOLEAN : InviteMsg(a) \notin wire
  BY <1>1, OpenLeg
<1>3. wire' \subseteq Message'
  <2>1. DOMAIN legs \subseteq DOMAIN legs'
    BY <1>1 DEF NextLegFacts
  <2> QED
    BY <1>1, <2>1, MessagesGrow DEF TypeOK
<1>4. TypeOK'
  BY <1>1, <1>3 DEF TypeOK, NextLegFacts
<1>5. SentInv'
  BY SentKept DEF NoNewInvite, NextLegFacts
<1>6. OnlyPermitted' /\ CallerInv'
  BY DEF IInv, OnlyPermitted, CallerInv, Trusted, NextLegFacts
<1>7. TxInv'
  <2>1. legs' # <<>>
    <3>1. Len(legs') = 2
      BY DEF NextLegFacts
    <3> QED
      BY <3>1
  <2> QED
    BY <1>1, <1>2, <2>1 DEF TxInv, NextLegFacts
<1>8. FitInv'
  <2> SUFFICES ASSUME Plain'
               PROVE  Fit'
    BY DEF FitInv
  <2>1. Plain /\ Fit /\ caller.state \in Waiting /\ \A a \in BOOLEAN : InviteMsg(a) \notin wire
    BY <1>2 DEF Plain, NextLegFacts
  <2>2. \A j \in DOMAIN legs' : legs'[j].state = "open" => legs'[j].to = to
    BY DEF NextLegFacts
  <2> QED
    BY <2>1, <2>2 DEF Fit, NextLegFacts, Waiting
<1> QED
  BY <1>4, <1>5, <1>6, <1>7, <1>8 DEF IInv

LEMMA GiveUpStep ==
    ASSUME IInv, NEW code, legs # <<>>, legs[Len(legs)].state = "open",
           wire' \subseteq wire, UNCHANGED <<call, registered, resends, moves>>,
           GiveUp(code)
    PROVE  IInv' /\ Len(legs') = Len(legs)
<1> DEFINE st == IF CallerIs(Waiting) THEN "over" ELSE caller.state
           n == Len(legs)
<1>1. /\ legs' = WithState(legs, n, "failed") /\ tx' = [tx EXCEPT !.state = "done"]
      /\ CallerTo(st) /\ UNCHANGED <<media, session, callerSdp, calleeSdp>>
  BY DEF GiveUp, WithState
<1>2. TypeOK /\ legs \in Seq(Leg) /\ n \in DOMAIN legs
  BY LegsType DEF IInv
<1>3. /\ tx.state = "open" /\ caller.state \notin {"idle", "challenged"}
      /\ Plain => Fit /\ caller.state \in Waiting
                      /\ \A a \in BOOLEAN : InviteMsg(a) \notin wire
  BY <1>2, OpenLeg
<1>4. st \in CallerState \ {"idle", "challenged"} /\ (caller.state \in Waiting => st = "over")
  BY <1>2, <1>3 DEF TypeOK, CallerState, CallerIs
<1>5. /\ legs' \in Seq(Leg) /\ Len(legs') = n /\ DOMAIN legs' = DOMAIN legs
      /\ legs'[n].state = "failed" /\ legs'[n].to = legs[n].to
      /\ \A j \in DOMAIN legs : j # n => legs'[j] = legs[j]
  BY <1>1, <1>2, LegState
<1>6. tx' \in Transaction /\ tx'.state = "done" /\ tx'.failure = tx.failure
  BY <1>1, <1>2 DEF TypeOK, Transaction
<1> HIDE DEF st
<1>7. /\ caller' \in CallerType /\ caller'.state = st
      /\ caller'.auth = caller.auth /\ caller'.hungUp = caller.hungUp
  BY <1>1, <1>2, <1>4, CallerEffect
<1>8. /\ \A j \in DOMAIN legs : legs'[j].to = legs[j].to
      /\ \A j \in DOMAIN legs : legs'[j].state # "open"
      /\ legs' # <<>>
  BY <1>2, <1>5 DEF IInv, TxInv
<1>9. TypeOK'
  <2>1. wire' \subseteq Message'
    BY <1>2, <1>5, MessagesGrow DEF TypeOK
  <2> QED
    BY <1>1, <1>2, <1>5, <1>6, <1>7, <2>1 DEF TypeOK, CallerType, CallerState
<1>10. SentInv'
  BY <1>4, <1>7, SentKept DEF NoNewInvite
<1>11. OnlyPermitted' /\ CallerInv'
  BY <1>4, <1>7 DEF IInv, OnlyPermitted, CallerInv, Trusted
<1>12. TxInv'
  <2>1. Len(legs) = 1 => 1 \in DOMAIN legs
    BY <1>2
  <2> QED
    BY <1>3, <1>5, <1>6, <1>8, <2>1 DEF IInv, TxInv
<1>13. FitInv'
  <2> SUFFICES ASSUME Plain'
               PROVE  Fit'
    BY DEF FitInv
  <2>1. /\ Plain /\ Fit /\ caller'.state = "over"
        /\ \A a \in BOOLEAN : InviteMsg(a) \notin wire'
    BY <1>3, <1>4, <1>7 DEF Plain
  <2> QED
    BY <1>1, <1>5, <1>8, <2>1 DEF Fit, NoOpenLeg
<1> QED
  BY <1>5, <1>9, <1>10, <1>11, <1>12, <1>13 DEF IInv

\* What a step does to the legs of a call: what RetryOnce and NothingAfterCancel say.
Retried == legs # <<>> /\ Len(legs') # Len(legs) =>
               /\ Len(legs) = 1 /\ Len(legs') = 2
               /\ legs'[1].state = "failed"
               /\ \/ legs[1].to = "trunk" /\ legs'[2].to = "trunk" /\ call.digest
                  \/ legs[1].to = "user" /\ legs'[2].to = "voicemail" /\ call.fallback # {}
Stays == tx.cancelled => Len(legs') = Len(legs)

LEMMA LegFailsStep ==
    ASSUME IInv, NEW code \in Failure, legs # <<>>, legs[Len(legs)].state = "open",
           wire' \subseteq wire, UNCHANGED <<call, registered, resends, moves>>,
           LegFails(code)
    PROVE  IInv' /\ Retried /\ Stays
<1>1. TypeOK /\ Len(legs) \in DOMAIN legs
  BY LegsType DEF IInv
<1>2. CASE TrunkAuth(code)
  <2>1. tx.failure = "TRUNK_AUTH" /\ ~tx.cancelled /\ legs[1].to = "trunk" /\ call.digest
    BY <1>2 DEF TrunkAuth, Armed, IInv, TxInv
  <2>2. NextLeg("trunk") /\ UNCHANGED <<media, session, calleeSdp>>
    BY <1>2 DEF TrunkAuth
  <2>3. NextLegFacts("trunk") /\ "trunk" \in To
    BY <2>1, <2>2, NextLegEffect DEF To
  <2>4. Plain => media' = Side("trunk") /\ session' = Side("trunk")
    BY <1>1, <2>1, <2>2, <2>3, OpenLeg DEF Fit, NextLegFacts
  <2>5. media' \in Target /\ session' \in Target /\ calleeSdp' \in Treatment
    BY <1>1, <2>2 DEF TypeOK
  <2>6. IInv'
    BY <2>1, <2>3, <2>4, <2>5, NextLegStep
  <2>7. Retried /\ Stays
    BY <2>1, <2>3 DEF Retried, Stays, NextLegFacts
  <2> QED
    BY <2>6, <2>7
<1>3. CASE VoicemailFallback(code)
  <2>1. /\ tx.failure = "VOICEMAIL_FALLBACK" /\ ~tx.cancelled
        /\ legs[1].to = "user" /\ call.fallback # {}
    BY <1>3 DEF VoicemailFallback, Armed, IInv, TxInv
  <2>2. /\ NextLeg("voicemail") /\ media' = Side("voicemail") /\ session' = Side("voicemail")
        /\ calleeSdp' = "relayed"
    BY <1>3 DEF VoicemailFallback, Offer
  <2>3. NextLegFacts("voicemail") /\ "voicemail" \in To
    BY <2>1, <2>2, NextLegEffect DEF To
  <2>4. media' \in Target /\ session' \in Target /\ calleeSdp' \in Treatment
    BY <2>2, SideType DEF Target, Treatment
  <2>5. IInv'
    BY <2>1, <2>2, <2>3, <2>4, NextLegStep
  <2>6. Retried /\ Stays
    BY <2>1, <2>3 DEF Retried, Stays, NextLegFacts
  <2> QED
    BY <2>5, <2>6
<1>4. CASE GiveUp(code)
  BY <1>4, GiveUpStep DEF Retried, Stays
<1> QED
  BY <1>2, <1>3, <1>4 DEF LegFails

LEMMA FailedStep ==
    ASSUME IInv, NEW i \in DOMAIN legs, NEW code \in Failure, Failed(i, code)
    PROVE  IInv' /\ Retried /\ Stays
<1>1. /\ TypeOK /\ wire' = wire \ {ReplyMsg(i, code)} /\ wire' \subseteq wire
      /\ UNCHANGED <<call, registered, resends, moves>>
  BY DEF IInv, Failed
<1>2. CASE legs[i].state = "open"
  <2>1. i = Len(legs) /\ legs # <<>>
    BY <1>2, OpenLeg
  <2>2. LegFails(code)
    BY <1>2 DEF Failed
  <2> QED
    BY <1>1, <1>2, <2>1, <2>2, LegFailsStep
<1>3. CASE legs[i].state # "open"
  <2>1. UNCHANGED <<caller, relay>>
    BY <1>3 DEF Failed
  <2>2. TxInv' /\ Message' = Message
    BY <1>1, <2>1, QuietTx DEF relay
  <2>3. TypeOK'
    BY <1>1, <2>1, <2>2 DEF TypeOK, relay
  <2>4. SentInv'
    BY <1>1, <2>1, SentKept DEF NoNewInvite
  <2>5. OnlyPermitted' /\ CallerInv'
    BY <1>1, <2>1 DEF IInv, OnlyPermitted, CallerInv, Trusted, relay
  <2>6. FitInv'
    BY <1>1, <2>1 DEF IInv, FitInv, Fit, Plain, NoOpenLeg, relay
  <2>7. Retried /\ Stays
    BY <2>1 DEF Retried, Stays, relay
  <2> QED
    BY <2>2, <2>3, <2>4, <2>5, <2>6, <2>7 DEF IInv
<1> QED
  BY <1>2, <1>3

LEMMA TimeoutStep ==
    ASSUME IInv, Timeout
    PROVE  IInv' /\ Retried /\ Stays
<1>1. "noAnswer" \in Failure
  BY DEF Failure, Cause
<1>2. /\ legs # <<>> /\ legs[Len(legs)].state = "open" /\ LegFails("noAnswer")
      /\ UNCHANGED <<call, registered, wire, resends, moves>>
  BY DEF Timeout
<1> QED
  BY <1>1, <1>2, LegFailsStep

-----------------------------------------------------------------------------
\* Of all steps only a failing leg makes a further one.
LEMMA SameLegs ==
    ASSUME IInv, UNCHANGED legs \/ Len(legs') = Len(legs)
    PROVE  Retried /\ Stays
BY DEF Retried, Stays

LEMMA InviteLegs ==
    ASSUME IInv, NEW a \in BOOLEAN, ReceiveInvite(a)
    PROVE  Retried /\ Stays
<1>1. CASE UNCHANGED legs
  BY <1>1, SameLegs
<1>2. CASE legs' # legs
  <2>1. tx.state = "none"
    BY <1>2 DEF ReceiveInvite, Challenge, Refuse, RelayInvite, relay
  <2> QED
    BY <2>1 DEF IInv, TxInv, Retried, Stays
<1> QED
  BY <1>1, <1>2

LEMMA NextInv ==
    ASSUME IInv, [Next]_vars
    PROVE  IInv' /\ Retried /\ Stays
<1>1. CASE UNCHANGED vars
  <2>1. Message' = Message
    BY <1>1 DEF vars, Message
  <2>2. TypeOK' /\ OnlyPermitted' /\ SentInv' /\ CallerInv' /\ TxInv'
    BY <1>1, <2>1 DEF vars, IInv, TypeOK, OnlyPermitted, SentInv, CallerInv, TxInv, Trusted
  <2>3. FitInv' /\ Retried /\ Stays
    BY <1>1, SameLegs DEF vars, IInv, FitInv, Fit, Plain, NoOpenLeg
  <2> QED
    BY <2>2, <2>3 DEF IInv
<1>2. CASE Caller \/ Register
  <2>1. UNCHANGED legs
    BY <1>2 DEF Caller, Register, Invite, Resend, Cancel, ReInvite, Bye, relay
  <2> QED
    BY <1>2, <2>1, SameLegs, InviteStep, ResendStep, CancelStep, ReInviteStep, ByeStep,
       RegisterStep DEF Caller
<1>3. CASE Callee
  BY <1>3, ReplyStep, SameLegs DEF Callee
<1>4. CASE Request
  <2>1. CASE ReceiveCancel \/ ReceiveBye \/ ReceiveReInvite
    <3>1. UNCHANGED legs
      BY <2>1 DEF ReceiveCancel, ReceiveBye, ReceiveReInvite
    <3> QED
      BY <2>1, <3>1, SameLegs, ReceiveCancelStep, ReceiveByeStep, ReceiveReInviteStep
  <2> QED
    BY <1>4, <2>1, ReceiveInviteStep, InviteLegs DEF Request
<1>5. CASE Response
  <2>1. ASSUME NEW i \in DOMAIN legs, Progress(i)
        PROVE  IInv' /\ Retried /\ Stays
    <3>1. UNCHANGED legs
      BY <2>1 DEF Progress
    <3> QED
      BY <2>1, <3>1, ProgressStep, SameLegs
  <2> QED
    BY <1>5, <2>1, AnsweredStep, FailedStep, SameLegs DEF Response
<1> QED
  BY <1>1, <1>2, <1>3, <1>4, <1>5, TimeoutStep DEF Next

LEMMA Invariance == Spec => []IInv
<1> QED
  BY InitInv, NextInv, PTL DEF Spec

\* Every variable keeps its type, for any numbers of retransmissions and moves.
THEOREM TypeCorrect == Spec => []TypeOK
<1>1. IInv => TypeOK
  BY DEF IInv
<1> QED
  BY <1>1, Invariance, PTL

\* No callee hears of a call that its caller's policy does not permit, or whose caller
\* is neither trusted nor has sent credentials, however often an INVITE is sent again,
\* late or out of order.
THEOREM AlwaysPermitted == Spec => []OnlyPermitted
<1>1. IInv => OnlyPermitted
  BY DEF IInv
<1> QED
  BY <1>1, Invariance, PTL

\* In a call that is neither cancelled nor sent twice, the SDP of every answer was
\* rewritten for the leg it came from, through fallbacks, retries and late replies.
THEOREM AnswersAlwaysFit == Spec => []AnswersFit
<1>1. ASSUME IInv
      PROVE  AnswersFit
  <2>1. resends = 0 \/ resends > 0
    BY <1>1 DEF IInv, TypeOK
  <2> QED
    BY <1>1, <2>1 DEF IInv, FitInv, Fit, Plain, AnswersFit
<1> QED
  BY <1>1, Invariance, PTL

\* A call has a second leg once at the most, after the first has failed, and for a
\* reason it was configured for.
THEOREM OneRetry == Spec => RetryOnce
<1>1. ASSUME IInv, [Next]_vars
      PROVE  [Retried]_vars
  BY <1>1, NextInv
<1> QED
  BY <1>1, Invariance, PTL DEF Spec, RetryOnce, Retried

\* Once its CANCEL has reached the transaction no leg is started for a call.
THEOREM CancelIsFinal == Spec => NothingAfterCancel
<1>1. ASSUME IInv, [Next]_vars
      PROVE  [Stays]_vars
  BY <1>1, NextInv
<1> QED
  BY <1>1, Invariance, PTL DEF Spec, NothingAfterCancel, Stays
=============================================================================
