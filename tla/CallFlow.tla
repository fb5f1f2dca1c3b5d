------------------------------- MODULE CallFlow -------------------------------
(***************************************************************************)
(* One call through the Kamailio configuration of a SIPGateway: the        *)
(* initial INVITE, the legs it is relayed on, the failure routes that try  *)
(* a second leg, CANCEL, BYE and re-INVITE, and the RTPengine session the  *)
(* SDP of both sides is rewritten for.                                     *)
(*                                                                         *)
(* Messages to the gateway travel over UDP: delivered in any order, late,  *)
(* or never, and an INVITE may be sent again.  What the gateway answers to *)
(* the caller is seen at once.  A run of a route is one action, as a       *)
(* request's route block runs to its end in one worker and a failure or    *)
(* reply route runs under the lock of its transaction.                     *)
(*                                                                         *)
(* The transaction layer (tm) is modelled by what the routes rely on: one  *)
(* INVITE transaction; a failure route that is disarmed when it starts; a  *)
(* retransmission that passes the request route again and is absorbed by   *)
(* t_relay; a reply on a leg that is over, passed on to nobody (what       *)
(* RTPengine makes of its SDP is left out).                                *)
(***************************************************************************)
EXTENDS Naturals, Sequences

CONSTANTS
    MaxResends,  \* bound on retransmissions of the INVITE
    MaxMoves     \* bound on registrations coming and going

ASSUME BoundAssumption == MaxResends \in Nat /\ MaxMoves \in Nat

VARIABLES
    call,        \* what the runtime tables say of this call; never changes
    registered,  \* the called user has a contact in the location table
    caller,      \* the caller: its state, whether it has sent credentials (auth)
                 \* and whether it has sent a CANCEL (hungUp)
    wire,        \* messages on their way to the gateway
    tx,          \* the INVITE transaction
    legs,        \* the legs (branches) relayed to so far, in order
    media,       \* $dlg_var(media_target)
    session,     \* the RTPengine session: the target it was last offered for
    callerSdp,   \* how the SDP the caller got last was treated
    calleeSdp,   \* how the SDP the callee got last was treated
    resends,
    moves

vars == <<call, registered, caller, wire, tx, legs, media, session,
          callerSdp, calleeSdp, resends, moves>>
relay == <<tx, legs, media, session, callerSdp, calleeSdp>>

Cause == {"busy", "noAnswer", "unavailable"}        \* 486|600, 408, 404|480|503
Failure == Cause \cup {"challenge", "cancelled", "other"}  \* 401|407, 487, the rest

\* A mailbox that is joined to a route has at least one fallback condition; digest
\* credentials belong to a trunk.
Call == [from : {"user", "trunk"}, policy : BOOLEAN,
         route : {"none", "SIPUser", "AsteriskPool", "SIPTrunk"},
         fallback : SUBSET Cause, digest : BOOLEAN]
CallOK(c) == /\ c.fallback # {} => c.route = "SIPUser"
             /\ c.digest => c.route = "SIPTrunk"

To == {"user", "pool", "trunk", "voicemail"}
Leg == [to : To, state : {"open", "failed", "answered"}, final : BOOLEAN]
Target == {"none", "generic", "asterisk"}
Treatment == {"none", "relayed", "crossed", "direct"}
Transaction == [state : {"none", "open", "done"}, cancelled : BOOLEAN,
                failure : {"none", "TRUNK_AUTH", "VOICEMAIL_FALLBACK"}]

InviteMsg(a) == [type |-> "INVITE", auth |-> a]
CancelMsg == [type |-> "CANCEL"]
ByeMsg == [type |-> "BYE"]
ReInviteMsg == [type |-> "re-INVITE"]
ReplyMsg(i, code) == [type |-> "reply", leg |-> i, code |-> code]

Init ==
    /\ call \in {c \in Call : CallOK(c)}
    /\ registered \in BOOLEAN
    /\ caller = [state |-> "idle", auth |-> FALSE, hungUp |-> FALSE]
    /\ wire = {}
    /\ tx = [state |-> "none", cancelled |-> FALSE, failure |-> "none"]
    /\ legs = <<>>
    /\ media = "none"
    /\ session = "none"
    /\ callerSdp = "none"
    /\ calleeSdp = "none"
    /\ resends = 0
    /\ moves = 0

CallerIs(st) == caller.state \in st
CallerTo(st) == caller' = [caller EXCEPT !.state = st]
Waiting == {"calling", "cancelling"}  \* no final answer to the INVITE yet
Send(m) == wire' = wire \cup {m}

-----------------------------------------------------------------------------
(***************************************************************************)
(* The caller, the callees and the registrations.                          *)
(***************************************************************************)
\* The first INVITE carries no credentials; the one after a challenge does.
Invite ==
    /\ CallerIs({"idle", "challenged"})
    /\ caller' = [caller EXCEPT !.state = "calling", !.auth = CallerIs({"challenged"})]
    /\ Send(InviteMsg(caller'.auth))
    /\ UNCHANGED <<call, registered, relay, resends, moves>>

Resend ==
    /\ CallerIs({"calling"})
    /\ resends < MaxResends
    /\ Send(InviteMsg(caller.auth))
    /\ resends' = resends + 1
    /\ UNCHANGED <<call, registered, caller, relay, moves>>

Cancel ==
    /\ CallerIs({"calling"})
    /\ caller' = [caller EXCEPT !.state = "cancelling", !.hungUp = TRUE]
    /\ Send(CancelMsg)
    /\ UNCHANGED <<call, registered, relay, resends, moves>>

ReInvite ==
    /\ CallerIs({"talking"})
    /\ Send(ReInviteMsg)
    /\ UNCHANGED <<call, registered, caller, relay, resends, moves>>

Bye ==
    /\ CallerIs({"talking"})
    /\ CallerTo("over")
    /\ Send(ByeMsg)
    /\ UNCHANGED <<call, registered, relay, resends, moves>>

\* A 183 or a 200 has SDP; a callee sends one final reply.  487 answers a CANCEL of
\* the gateway; only trunks ask for credentials.
Reply(i, code) ==
    /\ ~legs[i].final
    /\ code = "challenge" => legs[i].to = "trunk"
    /\ code = "cancelled" => tx.cancelled \/ legs[i].state = "failed"
    /\ Send(ReplyMsg(i, code))
    /\ legs' = [legs EXCEPT ![i].final = code # "progress"]
    /\ UNCHANGED <<call, registered, caller, tx, media, session, callerSdp,
                   calleeSdp, resends, moves>>

Register ==
    /\ moves < MaxMoves
    /\ registered' = ~registered
    /\ moves' = moves + 1
    /\ UNCHANGED <<call, caller, wire, relay, resends>>

-----------------------------------------------------------------------------
(***************************************************************************)
(* Routing.                                                                *)
(***************************************************************************)
Trusted == call.from = "trunk"

\* Variant: a user with a dial policy is taken for authenticated.
AuthorizedByPolicy(a) == Trusted \/ call.policy

\* Requests of a trusted trunk need no credentials; INVITEs of others do.
Authorized(a) == Trusted \/ a

\* ROUTE_INVITE, whose query finds nothing without a policy: the leg it chooses, or
\* the refusal ("none").
Destination ==
    IF ~call.policy THEN "none"
    ELSE CASE call.route = "AsteriskPool" -> "pool"
           [] call.route = "SIPTrunk" -> "trunk"
           [] call.route = "SIPUser" /\ registered -> "user"
           [] call.route = "SIPUser" /\ ~registered /\ "unavailable" \in call.fallback -> "voicemail"
           [] OTHER -> "none"

\* Variant: the target is named after the leg.
SideOfLeg(to) == IF to = "voicemail" THEN "voicemail" ELSE "generic"

Side(to) == IF to \in {"pool", "voicemail"} THEN "asterisk" ELSE "generic"

\* Variant: the second offer of a call leaves the target in the dialog alone.
OfferKeepingTarget(to) ==
    /\ media' = IF media = "none" THEN Side(to) ELSE media
    /\ session' = Side(to)
    /\ calleeSdp' = "relayed"

\* RTPENGINE_OFFER_GENERIC, RTPENGINE_OFFER_ASTERISK.
Offer(to) ==
    /\ media' = Side(to)
    /\ session' = Side(to)
    /\ calleeSdp' = "relayed"

\* RELAY_TRUNK and RELAY_USER arm a failure route, the latter when the route has a
\* mailbox; RELAY and SEND_TO_VOICEMAIL do not.
FailureRouteOf(to) ==
    CASE to = "trunk" -> "TRUNK_AUTH"
      [] to = "user" /\ call.fallback # {} -> "VOICEMAIL_FALLBACK"
      [] OTHER -> "none"

NewLeg(to) == [to |-> to, state |-> "open", final |-> FALSE]

\* 403 and 404 are final; what is refused may be a retransmission.
Refuse ==
    /\ CallerTo(IF CallerIs(Waiting) THEN "over" ELSE caller.state)
    /\ UNCHANGED relay

Challenge ==
    /\ CallerTo(IF CallerIs({"calling"}) /\ ~caller.auth THEN "challenged" ELSE caller.state)
    /\ UNCHANGED relay

RelayInvite(to) ==
    /\ Offer(to)
    /\ IF tx.state = "none"
       THEN /\ tx' = [state |-> "open", cancelled |-> FALSE, failure |-> FailureRouteOf(to)]
            /\ legs' = <<NewLeg(to)>>
       ELSE UNCHANGED <<tx, legs>>
    /\ UNCHANGED <<caller, callerSdp>>

ReceiveInvite(a) ==
    /\ InviteMsg(a) \in wire
    /\ wire' = wire \ {InviteMsg(a)}
    /\ IF ~Authorized(a) THEN Challenge
       ELSE IF Destination = "none" THEN Refuse
       ELSE RelayInvite(Destination)
    /\ UNCHANGED <<call, registered, resends, moves>>

\* A CANCEL first deletes the RTPengine session (which RTPengine, with the options it
\* is started with, drops some time later; here at once).  It then takes the way of an INVITE
\* without the authentication, so that only one of a trusted trunk with a policy
\* finds the route back to t_relay and the transaction; others are refused.
ReceiveCancel ==
    /\ CancelMsg \in wire
    /\ wire' = wire \ {CancelMsg}
    /\ session' = "none"
    /\ tx' = IF Trusted /\ Destination # "none" /\ tx.state = "open"
             THEN [tx EXCEPT !.cancelled = TRUE]
             ELSE tx
    /\ UNCHANGED <<call, registered, caller, legs, media, callerSdp, calleeSdp,
                   resends, moves>>

ReceiveBye ==
    /\ ByeMsg \in wire
    /\ wire' = wire \ {ByeMsg}
    /\ session' = "none"
    /\ UNCHANGED <<call, registered, caller, tx, legs, media, callerSdp, calleeSdp,
                   resends, moves>>

\* A request within a dialog is relayed along its route, its SDP as it came.  The
\* replies to it are left out.
ReceiveReInvite ==
    /\ ReInviteMsg \in wire
    /\ wire' = wire \ {ReInviteMsg}
    /\ calleeSdp' = "direct"
    /\ UNCHANGED <<call, registered, caller, tx, legs, media, session, callerSdp,
                   resends, moves>>

-----------------------------------------------------------------------------
(***************************************************************************)
(* Replies and failure routes.                                             *)
(***************************************************************************)
\* rtpengine_answer fails without a session, and the SDP goes on as it came; with a
\* direction other than that of the leg it is rewritten for the wrong side.
Answer(i) ==
    CASE session = "none" -> "direct"
      [] session # "none" /\ media = Side(legs[i].to) -> "relayed"
      [] OTHER -> "crossed"

Progress(i) ==
    /\ ReplyMsg(i, "progress") \in wire
    /\ wire' = wire \ {ReplyMsg(i, "progress")}
    /\ callerSdp' = IF legs[i].state = "open" THEN Answer(i) ELSE callerSdp
    /\ UNCHANGED <<call, registered, caller, tx, legs, media, session, calleeSdp,
                   resends, moves>>

Answered(i) ==
    /\ ReplyMsg(i, "answer") \in wire
    /\ wire' = wire \ {ReplyMsg(i, "answer")}
    /\ IF legs[i].state = "open"
       THEN /\ callerSdp' = Answer(i)
            /\ tx' = [tx EXCEPT !.state = "done"]
            /\ legs' = [legs EXCEPT ![i].state = "answered"]
            /\ CallerTo(IF CallerIs(Waiting) THEN "talking" ELSE caller.state)
       ELSE UNCHANGED <<callerSdp, tx, legs, caller>>
    /\ UNCHANGED <<call, registered, media, session, calleeSdp, resends, moves>>

\* Variant: the failure routes do not ask whether the call was cancelled.
ArmedAnyway(route) == tx.failure = route

Armed(route) == tx.failure = route /\ ~tx.cancelled

\* The newest leg failed and another one is tried: the failure route is disarmed.
NextLeg(to) ==
    /\ legs' = Append([legs EXCEPT ![Len(legs)].state = "failed"], NewLeg(to))
    /\ tx' = [tx EXCEPT !.failure = "none"]
    /\ UNCHANGED <<caller, callerSdp>>

\* failure_route[TRUNK_AUTH]; uac_auth answers the challenge, or cannot.
TrunkAuth(code) ==
    /\ Armed("TRUNK_AUTH")
    /\ code = "challenge"
    /\ call.digest
    /\ NextLeg("trunk")
    /\ UNCHANGED <<media, session, calleeSdp>>

\* Variant: a fallback that arms the failure route again.
VoicemailFallbackArmed(code) ==
    /\ Armed("VOICEMAIL_FALLBACK")
    /\ code \in call.fallback
    /\ legs' = Append([legs EXCEPT ![Len(legs)].state = "failed"], NewLeg("voicemail"))
    /\ Offer("voicemail")
    /\ UNCHANGED <<tx, caller, callerSdp>>

\* failure_route[VOICEMAIL_FALLBACK] and SEND_TO_VOICEMAIL.
VoicemailFallback(code) ==
    /\ Armed("VOICEMAIL_FALLBACK")
    /\ code \in call.fallback
    /\ NextLeg("voicemail")
    /\ Offer("voicemail")

\* The failure is the final answer to the caller.
GiveUp(code) ==
    /\ ~(Armed("VOICEMAIL_FALLBACK") /\ code \in call.fallback)
    /\ legs' = [legs EXCEPT ![Len(legs)].state = "failed"]
    /\ tx' = [tx EXCEPT !.state = "done"]
    /\ CallerTo(IF CallerIs(Waiting) THEN "over" ELSE caller.state)
    /\ UNCHANGED <<media, session, callerSdp, calleeSdp>>

LegFails(code) == TrunkAuth(code) \/ VoicemailFallback(code) \/ GiveUp(code)

Failed(i, code) ==
    /\ ReplyMsg(i, code) \in wire
    /\ wire' = wire \ {ReplyMsg(i, code)}
    /\ IF legs[i].state = "open" THEN LegFails(code) ELSE UNCHANGED <<caller, relay>>
    /\ UNCHANGED <<call, registered, resends, moves>>

\* The final response timer of the newest leg fires: a local 408, and a CANCEL to the
\* callee.
Timeout ==
    /\ legs # <<>>
    /\ legs[Len(legs)].state = "open"
    /\ LegFails("noAnswer")
    /\ UNCHANGED <<call, registered, wire, resends, moves>>

-----------------------------------------------------------------------------
Caller == Invite \/ Resend \/ Cancel \/ ReInvite \/ Bye
Callee == \E i \in DOMAIN legs, code \in Failure \cup {"progress", "answer"} : Reply(i, code)
Request == \/ \E a \in BOOLEAN : ReceiveInvite(a)
           \/ ReceiveCancel \/ ReceiveBye \/ ReceiveReInvite
Response == \E i \in DOMAIN legs : \/ Progress(i) \/ Answered(i)
                                   \/ \E code \in Failure : Failed(i, code)

Next == Caller \/ Callee \/ Register \/ Request \/ Response \/ Timeout

Spec == Init /\ [][Next]_vars

-----------------------------------------------------------------------------
Message == {InviteMsg(a) : a \in BOOLEAN} \cup {CancelMsg, ByeMsg, ReInviteMsg}
           \cup {ReplyMsg(i, code) : i \in DOMAIN legs,
                                     code \in Failure \cup {"progress", "answer"}}

TypeOK ==
    /\ call \in Call /\ CallOK(call)
    /\ registered \in BOOLEAN
    /\ caller \in [state : {"idle", "calling", "challenged", "cancelling", "talking", "over"},
                   auth : BOOLEAN, hungUp : BOOLEAN]
    /\ wire \subseteq Message
    /\ tx \in Transaction
    /\ legs \in Seq(Leg)
    /\ media \in Target
    /\ session \in Target
    /\ callerSdp \in Treatment
    /\ calleeSdp \in Treatment
    /\ resends \in 0..MaxResends
    /\ moves \in 0..MaxMoves

\* No callee hears of a call that the policy of its caller does not permit, or whose
\* caller has neither a trusted address nor sent credentials.
OnlyPermitted ==
    legs # <<>> => /\ Trusted \/ caller.auth
                   /\ call.policy
                   /\ call.route # "none"

\* A call is tried on a second leg once at the most, after the first has failed, and
\* for a reason it was configured for: the digest retry of a trunk or the fallback of
\* a user to voicemail.
RetryOnce ==
    [][legs # <<>> /\ Len(legs') # Len(legs) =>
          /\ Len(legs) = 1 /\ Len(legs') = 2
          /\ legs'[1].state = "failed"
          /\ \/ legs[1].to = "trunk" /\ legs'[2].to = "trunk" /\ call.digest
             \/ legs[1].to = "user" /\ legs'[2].to = "voicemail" /\ call.fallback # {}]_vars

\* No leg is started for a call whose CANCEL has reached the transaction, whatever
\* replies and timeouts of earlier legs come after it.
NothingAfterCancel == [][tx.cancelled => Len(legs') = Len(legs)]_vars

\* The SDP a caller gets was rewritten for the leg it came from, through fallbacks,
\* retries and late replies, in a call that was neither cancelled nor sent twice.
AnswersFit ==
    callerSdp \in {"crossed", "direct"} => resends > 0 \/ caller.hungUp

\* docs/networking.md says that Kamailio has the SDP rewritten and that media flow
\* through RTPengine: the SDP the caller is answered with is rewritten, unless the
\* transaction was cancelled.  ReceiveCancel deletes the session of a call it then
\* does not cancel.
AnswersRewritten == callerSdp = "direct" => tx.cancelled

=============================================================================
