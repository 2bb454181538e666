---------------------------- MODULE ReleaseGate ----------------------------
(***************************************************************************)
(* What the gateway promises a developer about tarballs, as one small      *)
(* machine.  docs/SPEC.md: bytes requiring inspection must not reach the   *)
(* package manager until the policy decision completes.                    *)
(*                                                                         *)
(* A request for a version is held, cleared by a policy that permits the   *)
(* version at that very moment, and only then given bytes.  A guarded gate *)
(* (one with quarantine) gives sound content that the registry offered for *)
(* this version or that the client itself named; an unguarded one passes   *)
(* on whatever arrives.  A request may be for a file whose name holds no   *)
(* version: a guarded gate never gives it bytes, an unguarded one passes   *)
(* it without asking policy, which is less than the promise.               *)
(***************************************************************************)
CONSTANTS Requests, Versions, Contents, Rejected, NoVersion, NoContent

VARIABLES
    guarded,    \* is there a quarantine?
    permitted,  \* the versions policy lets through now
    offered,    \* every <<version, content>> the registry ever advertised
    phase,      \* "idle", "held" or "cleared"
    asked,      \* the version each request is about
    named,      \* the content the client named itself
    given       \* the bytes the client received

gateVars == <<guarded, permitted, offered, phase, asked, named, given>>

Sound == Contents \ Rejected

GateInit ==
    /\ guarded \in BOOLEAN
    /\ permitted \subseteq Versions
    /\ offered \subseteq Versions \X Contents
    /\ phase = [r \in Requests |-> "idle"]
    /\ asked = [r \in Requests |-> NoVersion]
    /\ named = [r \in Requests |-> NoContent]
    /\ given = [r \in Requests |-> NoContent]

Hold(r) ==
    /\ phase[r] = "idle"
    /\ phase' = [phase EXCEPT ![r] = "held"]
    /\ \E v \in Versions \cup {NoVersion} : asked' = [asked EXCEPT ![r] = v]
    /\ \E c \in Contents \cup {NoContent} : named' = [named EXCEPT ![r] = c]
    /\ given' = [given EXCEPT ![r] = NoContent]
    /\ UNCHANGED <<guarded, permitted, offered>>

Clear(r) ==
    /\ phase[r] = "held"
    /\ asked[r] \in permitted \/ (asked[r] = NoVersion /\ ~guarded)
    /\ phase' = [phase EXCEPT ![r] = "cleared"]
    /\ UNCHANGED <<guarded, permitted, offered, asked, named, given>>

\* The request is over and the client has bytes.
Give(r, c) ==
    /\ phase[r] = "cleared"
    /\ guarded => /\ c \in Sound
                  /\ <<asked[r], c>> \in offered \/ named[r] = c
    /\ phase' = [phase EXCEPT ![r] = "idle"]
    /\ given' = [given EXCEPT ![r] = c]
    /\ asked' = [asked EXCEPT ![r] = NoVersion]
    /\ named' = [named EXCEPT ![r] = NoContent]
    /\ UNCHANGED <<guarded, permitted, offered>>

\* The request is over without bytes.
TurnAway(r) ==
    /\ phase[r] # "idle" \/ given[r] # NoContent
    /\ given' = [given EXCEPT ![r] = NoContent]
    /\ phase' = [phase EXCEPT ![r] = "idle"]
    /\ asked' = [asked EXCEPT ![r] = NoVersion]
    /\ named' = [named EXCEPT ![r] = NoContent]
    /\ UNCHANGED <<guarded, permitted, offered>>

\* Policy changes its mind, the registry publishes.
World ==
    /\ permitted' # permitted \/ offered' # offered
    /\ permitted' \subseteq Versions
    /\ offered \subseteq offered' /\ offered' \subseteq Versions \X Contents
    /\ UNCHANGED <<guarded, phase, asked, named, given>>

\* The first conjunct follows from the second; it spares TLC the look at every
\* request for the many steps that change nothing here.
GateNext ==
    \/ /\ <<phase, given>>' # <<phase, given>>
       /\ \E r \in Requests :
             Hold(r) \/ Clear(r) \/ TurnAway(r) \/ \E c \in Contents : Give(r, c)
    \/ World

GateSpec == GateInit /\ [][GateNext]_gateVars
=============================================================================
