------------------------------ MODULE ToolCall ------------------------------
(***************************************************************************)
(* The stages of a tool call, one after the other: the request is built    *)
(* from the tool definition and the arguments (UpstreamRequest), the       *)
(* injector adds the credential and performs it (CredentialInjection),     *)
(* unless the tool needs none, and the response body of a request that     *)
(* succeeded is transformed (ResponseTransform).  How the call travels to  *)
(* the injector and back is UpstreamExecutor's subject.                    *)
(***************************************************************************)
EXTENDS UpstreamRequest, JsonNumber

CONSTANTS Calls, ValidFormats, MAX_RESPONSE_SIZE,
          Jobs, Resolutions, Statuses, Key

VARIABLES job, at, checked, sent, reply, trail,
          call, stage, doc, next, warnings, content

Inject == INSTANCE CredentialInjection
Response == INSTANCE ResponseTransform

ASSUME HostsAssumption == Inject!HostsValid
ASSUME PipelinesAssumption == Response!PipelinesValid

injectionVars == <<job, at, checked, sent, reply, trail>>
responseVars == <<call, stage, doc, next, warnings, content>>
callVars == <<tool, args, outcome, injectionVars, responseVars>>

CallInit == Init /\ Inject!Init /\ Response!Init

(* requires_auth: a tool with auth type "none" is called directly, and its *)
(* call is taken to have succeeded.  Through the injector a 2xx status has *)
(* to come back: any other ends the call before the response stage.        *)
Succeeded == job.direct \/ (at = "done" /\ reply.status = 200 /\ reply.upstream \in 200 .. 299)

CallNext ==
    \/ Next /\ UNCHANGED <<injectionVars, responseVars>>
    \/ outcome.status = "built" /\ ~job.direct /\ Inject!Next /\ UNCHANGED <<vars, responseVars>>
    \/ outcome.status = "built" /\ Succeeded /\ Response!Next /\ UNCHANGED <<vars, injectionVars>>

CallSpec == CallInit /\ [][CallNext]_callVars

-----------------------------------------------------------------------------
(* The properties of the injection (see CredentialInjection): the ranges   *)
(* of addresses blocked are the ones named, to the last address ...        *)
BlocksExactlyReserved == Inject!BlocksExactlyReserved

(* ... and every credential sent out is on record once.                    *)
EveryUseAudited == Inject!EveryUseAudited

(* The properties of the response stage (see ResponseTransform): fields no *)
(* operation names are kept ...                                            *)
UnnamedFieldsKept == Response!UnnamedFieldsKept

(* ... an operation that leaves a warning changes nothing ...              *)
WarnedOpsAreSkipped == Response!WarnedOpsAreSkipped

(* ... and arithmetic on whole numbers never wraps around.                 *)
ArithmeticNeverWraps == Response!ArithmeticNeverWraps
=============================================================================
