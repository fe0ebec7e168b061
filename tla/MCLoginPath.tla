---------------------------- MODULE MCLoginPath ----------------------------
(***************************************************************************)
(* A player in two spellings of the name and another player; XUIDs that    *)
(* are fine, not numeric, and too long for the short form.  The claims are *)
(* the relay's own login, the same from elsewhere, one that cannot be      *)
(* parsed, one whose SelfSignedId does not fit its XUID, and Xbox logins   *)
(* with an XUID, through the relay and from elsewhere; the auth results    *)
(* are the relay's (blank), a native one, one of another player, and the   *)
(* unusable ones.                                                          *)
(***************************************************************************)
EXTENDS LoginPath, TLC

CONSTANTS Steve, steve, alex, good, letters, long, l1, l2, l3

MCName      == {Steve, steve, alex}
MCnormalize == [n \in MCName |-> IF n = Steve THEN steve ELSE n]
MCXuid      == {good, letters, long}

Relayed(name, xuid) ==
  [local |-> TRUE, parsed |-> TRUE, auth |-> "selfSigned",
   name |-> name, xuid |-> xuid, consistent |-> TRUE]

Auth(name, xuid) == [engaged |-> TRUE, name |-> name, xuid |-> xuid]

Relay == Relayed(Steve, good)
Named == Relayed(Steve, letters)

(* When logins come in turn: all_digits is not asked for. *)
TurnClaims == {Named, [Named EXCEPT !.local = FALSE], [Named EXCEPT !.parsed = FALSE],
               [Named EXCEPT !.auth = "xbox"]}
TurnResults == {Auth(steve, Blank), Auth(steve, Garbled), Auth(steve, good),
                Auth(NoName, Blank), [Auth(steve, Blank) EXCEPT !.engaged = FALSE]}

(* When they overlap. *)
MixClaims == {Relay,
              [Relayed(Steve, letters) EXCEPT !.local = FALSE, !.auth = "xbox"],
              [Relayed(alex, long) EXCEPT !.consistent = FALSE]}
MixResults == {Auth(steve, Blank), Auth(alex, Blank)}

OutsideClaims == {Relay, [Relay EXCEPT !.local = FALSE]}

Wet == [enabled |-> TRUE, dryRun |-> FALSE, requireLocal |-> TRUE,
        requireMatch |-> TRUE, requireDigits |-> FALSE, ttl |-> 1]
Dry == [Wet EXCEPT !.dryRun = TRUE, !.ttl = 0]
Strict == [Wet EXCEPT !.requireDigits = TRUE]
Lax == [Strict EXCEPT !.dryRun = TRUE, !.requireMatch = FALSE]

TurnConfigs == {Wet, Dry}
MixConfigs  == {Strict, Lax}

Twins == Permutations(Login)
=============================================================================
