---------------------------- MODULE DeviceTrust ----------------------------
(***************************************************************************)
(* What a Receiver promises its user of the devices it serves: only a      *)
(* device whose code the user has authorised becomes the trusted one, once *)
(* for an authorisation and not after it has lapsed or a device was        *)
(* forgotten; only the trusted one is served, and what it announces is     *)
(* never older than what was announced before.                             *)
(***************************************************************************)
EXTENDS Naturals

CONSTANTS Devices, Media, Nobody

VARIABLES
  authorized,  \* the device whose code the user has authorised
  trusted,     \* the device that is trusted
  serving,     \* the device whose session is open
  source       \* what was announced last

vars == <<authorized, trusted, serving, source>>

Init ==
  authorized = Nobody /\ trusted = Nobody /\ serving = Nobody /\ source = Nobody

Authorize(d) == authorized' = d /\ UNCHANGED <<trusted, serving, source>>

Lapse == authorized' = Nobody /\ UNCHANGED <<trusted, serving, source>>

\* Not under the eyes of a device that is being served.
Pair ==
  /\ authorized # Nobody /\ serving = Nobody
  /\ trusted' = authorized /\ authorized' = Nobody
  /\ UNCHANGED <<serving, source>>

Forget ==
  /\ trusted' = Nobody /\ authorized' = Nobody /\ serving' = Nobody
  /\ UNCHANGED source

Announce(m) ==
  /\ source = Nobody \/ m.epoch > source.epoch \/ m = source
  /\ source' = m

Serve(m) ==
  /\ trusted # Nobody /\ serving = Nobody
  /\ Announce(m)
  /\ serving' = trusted
  /\ UNCHANGED <<authorized, trusted>>

\* The device was forgotten meanwhile, and is not served.
AnnounceInVain(m) ==
  /\ trusted = Nobody /\ serving = Nobody
  /\ Announce(m)
  /\ UNCHANGED <<authorized, trusted, serving>>

Leave == serving' = Nobody /\ UNCHANGED <<authorized, trusted, source>>

Next ==
  \/ \E d \in Devices : Authorize(d)
  \/ Lapse \/ Pair \/ Forget \/ Leave
  \/ \E m \in Media : Serve(m) \/ AnnounceInVain(m)

Spec == Init /\ [][Next]_vars
=============================================================================
