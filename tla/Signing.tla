------------------------------- MODULE Signing -------------------------------
(***************************************************************************)
(* The DKIM key of one domain: the handlers of api/outbound.go, the row of *)
(* dkim_keys they write, the DNS they look the record up in, and the       *)
(* delivery loop that signs with whatever key is enabled when it sends.    *)
(***************************************************************************)
EXTENDS Naturals

CONSTANTS Admin,      \* administrators with requests under way
          Key,        \* keys that may be generated
          NoKey,      \* no key, no row
          Mail,       \* submitted messages
          MaxChanges  \* bound: requests that create, toggle or delete the key

SigningBounds == NoKey \notin Key /\ MaxChanges \in Nat

VARIABLES row,        \* dkim_keys: the key and whether signing is enabled
          generated,  \* keys generated so far
          dns,        \* keys whose record is in the zone
          published,  \* keys whose record ever was
          forced,     \* keys enabled by a request with force
          patch,      \* [Admin -> the request to enable under way, and the key it read]
          signature,  \* [Mail -> the key it was signed with]
          sent,       \* messages that left
          changes

dnsVars == <<dns, published>>
mailVars == <<signature, sent>>
vars == <<row, generated, dnsVars, forced, patch, mailVars, changes>>

NoRow == [key |-> NoKey, enabled |-> FALSE]
Idle == [at |-> "idle", key |-> NoKey]

SigningInit ==
    /\ row = NoRow /\ generated = {} /\ dns = {} /\ published = {} /\ forced = {}
    /\ patch = [a \in Admin |-> Idle]
    /\ signature = [m \in Mail |-> NoKey] /\ sent = {} /\ changes = 0

Change == changes < MaxChanges /\ changes' = changes + 1
Patch(a, at, k) == patch' = [patch EXCEPT ![a] = [at |-> at, key |-> k]]

-----------------------------------------------------------------------------
(* Administrators.                                                         *)

\* handleCreateDKIM: the new key replaces the old one and starts disabled.
CreateDKIM(a, k) ==
    /\ patch[a] = Idle /\ k \notin generated /\ Change
    /\ generated' = generated \union {k}
    /\ row' = [key |-> k, enabled |-> FALSE]
    /\ UNCHANGED <<dnsVars, forced, patch, mailVars>>

\* handleUpdateDKIM without force reads the key it is going to check.
BeginEnable(a) ==
    /\ patch[a] = Idle /\ row # NoRow /\ Change
    /\ Patch(a, "check", row.key)
    /\ UNCHANGED <<row, generated, dnsVars, forced, mailVars>>

ForceEnable(a) ==
    /\ patch[a] = Idle /\ Change
    /\ Patch(a, "force", NoKey)
    /\ UNCHANGED <<row, generated, dnsVars, forced, mailVars>>

\* CheckDNS: the records of both resolvers over HTTPS, or of the system's when
\* they fail; any of them may be behind the zone.
Valid(k, records) == k \in records

CheckDNS(a) ==
    /\ patch[a].at = "check"
    /\ \E records \in SUBSET published :
          Patch(a, IF Valid(patch[a].key, records) THEN "set" ELSE "idle",
                IF Valid(patch[a].key, records) THEN patch[a].key ELSE NoKey)
    /\ UNCHANGED <<row, generated, dnsVars, forced, mailVars, changes>>

\* SetDKIMEnabled: the row of the domain, whichever key it holds now.
SetEnabled(a) == row' = IF row = NoRow THEN row ELSE [row EXCEPT !.enabled = TRUE]

Enable(a) ==
    /\ patch[a].at \in {"set", "force"}
    /\ SetEnabled(a)
    /\ forced' = IF patch[a].at = "force" THEN forced \union {row.key} ELSE forced
    /\ Patch(a, "idle", NoKey)
    /\ UNCHANGED <<generated, dnsVars, mailVars, changes>>

Disable(a) ==
    /\ patch[a] = Idle /\ row.enabled /\ Change
    /\ row' = [row EXCEPT !.enabled = FALSE]
    /\ UNCHANGED <<generated, dnsVars, forced, patch, mailVars>>

\* handleDeleteDKIM; deleting the domain takes the row along as well.
DeleteDKIM(a) ==
    /\ patch[a] = Idle /\ row # NoRow /\ Change
    /\ row' = NoRow
    /\ UNCHANGED <<generated, dnsVars, forced, patch, mailVars>>

-----------------------------------------------------------------------------
(* The zone, and the delivery loop.                                        *)

Publish(k) ==
    /\ k \in generated \ dns
    /\ dns' = dns \union {k} /\ published' = published \union {k}
    /\ UNCHANGED <<row, generated, forced, patch, mailVars, changes>>

Withdraw(k) ==
    /\ k \in dns /\ dns' = dns \ {k}
    /\ UNCHANGED <<row, generated, published, forced, patch, mailVars, changes>>

\* signed: the row is read once; without an enabled key, or when it cannot be
\* read or unsealed, the message leaves unsigned.
Send(m) ==
    /\ m \notin sent /\ sent' = sent \union {m}
    /\ \/ row.enabled /\ signature' = [signature EXCEPT ![m] = row.key]
       \/ UNCHANGED signature
    /\ UNCHANGED <<row, generated, dnsVars, forced, patch, changes>>

SigningNext ==
    \/ \E a \in Admin : \/ \E k \in Key : CreateDKIM(a, k)
                        \/ BeginEnable(a) \/ ForceEnable(a) \/ CheckDNS(a) \/ Enable(a)
                        \/ Disable(a) \/ DeleteDKIM(a)
    \/ \E k \in Key : Publish(k) \/ Withdraw(k)
    \/ \E m \in Mail : Send(m)

SigningSpec == SigningInit /\ [][SigningNext]_vars

-----------------------------------------------------------------------------
(* Properties.                                                             *)

\* What the assumptions of a request rest on: nobody changes the row meanwhile.
OneAtATime == \A a, b \in Admin : a = b

\* No message is signed with a key whose record nobody has ever published,
\* unless an administrator forced that key ("A new key starts disabled: signing
\* before the record resolves makes every message fail verification").
SignaturesResolve == \A m \in Mail : signature[m] \in published \union forced \union {NoKey}

-----------------------------------------------------------------------------
(* Invariant, with requests one after the other.                           *)

SigningTypeOK ==
    /\ row \in [key : Key \union {NoKey}, enabled : BOOLEAN]
    /\ patch \in [Admin -> [at : {"idle", "check", "set", "force"}, key : Key \union {NoKey}]]
    /\ signature \in [Mail -> Key \union {NoKey}]

\* A request that is about to enable the row means the key the row holds, and a
\* key that is enabled was found in the DNS, or forced.
SigningInv ==
    /\ SigningTypeOK
    /\ row.key = NoKey => row = NoRow
    /\ row.enabled => row.key \in published \union forced
    /\ \A a \in Admin :
          /\ patch[a].at \in {"check", "set"} => row.key = patch[a].key /\ row.key # NoKey
          /\ patch[a].at = "set" => patch[a].key \in published
    /\ SignaturesResolve
==============================================================================
