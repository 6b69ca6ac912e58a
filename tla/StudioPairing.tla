--------------------------- MODULE StudioPairing ---------------------------
(***************************************************************************)
(* The Studio plugin as the client of the bridge's pairing: it discovers   *)
(* when it connects and again when the user clicks Pair, and pairs with    *)
(* the challenge of its last discovery and the code the user typed.  The   *)
(* console shows the code of every challenge the bridge has issued.        *)
(***************************************************************************)
EXTENDS BridgeAccess

CONSTANT NoCode

VARIABLE client   \* of a plugin: its last challenge, the code typed, the answer to Pair

pairingVars == <<accessVars, client>>

Show(p, rec) == client' = [client EXCEPT ![p] = rec]

\* BridgeClient:discover on connecting, without a credential.
ConnectUnpaired(p) ==
    /\ client[p].typed = NoCode
    /\ \E code \in Codes : IssueChallenge(code)
    /\ Show(p, [client[p] EXCEPT !.challenge = Len(challenges')])

\* BridgeClient:pair: the user has typed the code shown for the challenge of
\* this plugin; the click discovers first.
ClickPair(p) ==
    /\ client[p].challenge # 0 /\ client[p].typed = NoCode
    /\ \E code \in Codes : IssueChallenge(code)
    /\ Show(p, [challenge |-> Len(challenges'), typed |-> challenges[client[p].challenge].code,
                answer |-> "none"])

PairClicked(k, p) ==
    /\ client[p].typed # NoCode
    /\ LET c == client[p].challenge
           Answers(a) == Show(p, [challenge |-> c, typed |-> NoCode, answer |-> a])
       IN  \/ (PairDenied(k, p, c) \/ PairMismatch(k, p, c, client[p].typed)) /\ Answers("pair.failed")
           \/ PairPending(k, p, c, client[p].typed) /\ Answers("pair.pending")
           \/ PairSucceeded(k, p, c, client[p].typed) /\ Answers("pair.succeeded")

PairingInit ==
    /\ AccessInit
    /\ client = [p \in Plugins |-> [challenge |-> 0, typed |-> NoCode, answer |-> "none"]]

PairingNext ==
    \/ \E p \in Plugins : ConnectUnpaired(p) \/ ClickPair(p)
    \/ \E k \in Connections, p \in Plugins : PairClicked(k, p)
    \/ /\ \/ \E k \in Connections : Dial(k)
          \/ ReceiveEvent
          \/ \E c \in DOMAIN challenges, p \in Plugins : Approve(c, p)
       /\ UNCHANGED client

PairingSpec == PairingInit /\ [][PairingNext]_pairingVars

\* STUDIO_BRIDGE_README.md:32 "After the plugin submits that code, the console
\* prints the exact approval command": the code the bridge showed for the plugin's
\* discovery, typed into the plugin, is never refused while time stands still.
\* BridgeClient:pair (studio_plugin.luau:945) discovers again before it submits, and
\* every discovery makes a challenge with another code (issue_challenge, bridge.rs:970).
ShownCodeIsAccepted == \A p \in Plugins : client[p].answer # "pair.failed"
=============================================================================
