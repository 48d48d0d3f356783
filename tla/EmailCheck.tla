------------------------------ MODULE EmailCheck ------------------------------
(* The verification of an e-mail (Enricher.verify_email): the MX records of   *)
(* its domain, from a cache all threads share, and a dialogue with the mail   *)
(* hosts, of which only so many run at a time.                                *)
EXTENDS Integers, Sequences, FiniteSets, SequencesExt

CONSTANTS
    MxVerify, EnableMxCheck, SmtpVerify,   \* the toggles
    SmtpRetries, SmtpWorkers, CacheSize,
    MailHosts,              \* MailHosts[domain]: its hosts by preference, <<>> for no MX
    Mailbox                 \* Mailbox[id]: "real", "unknown" or "catchall"

ASSUME CacheAssumption == CacheSize \in Nat

VARIABLES
    check,                  \* check[w]: the verification under way in thread w
    mxCache                 \* the answers of _MX_CACHE, least recently used first

NoCheck == [at |-> "idle", id |-> "none", domain |-> "none", mx |-> "Not Checked",
            smtp |-> "Not Checked", why |-> "none", host |-> 1, attempt |-> 0]

StartCheck(w, e) ==
    check' = [check EXCEPT ![w] =
                 [NoCheck EXCEPT !.at = "mx", !.id = e.id, !.domain = e.domain]]

(* Either toggle switches the checker on; the second alone asks for nothing.  *)
MxEnabled == MxVerify \/ EnableMxCheck
VerifyAsked == MxVerify \/ SmtpVerify

-----------------------------------------------------------------------------
(* The cache: an entry is [domain, answer]; when it has expired is time's     *)
(* choice, and two threads that miss together look up twice.                  *)
Places(domain) == {i \in DOMAIN mxCache : mxCache[i].domain = domain}
Without(domain) == IF Places(domain) = {} THEN mxCache
                   ELSE RemoveAt(mxCache, CHOOSE i \in Places(domain) : TRUE)
CachedAnswers(domain) == {mxCache[i].answer : i \in Places(domain)}

(* A slip: one entry too many is kept.                                        *)
CacheSetOneMore(domain, answer) ==
    LET entries == Append(Without(domain), [domain |-> domain, answer |-> answer])
        excess == IF Len(entries) > CacheSize + 1 THEN Len(entries) - CacheSize ELSE 0
    IN  mxCache' = SubSeq(entries, excess + 1, Len(entries))
CacheSet(domain, answer) ==
    LET entries == Append(Without(domain), [domain |-> domain, answer |-> answer])
        excess == IF Len(entries) > CacheSize THEN Len(entries) - CacheSize ELSE 0
    IN  mxCache' = SubSeq(entries, excess + 1, Len(entries))

MxCached(w) ==
    /\ check[w].at = "mx" /\ MxEnabled
    /\ \E answer \in CachedAnswers(check[w].domain) :
        /\ check' = [check EXCEPT ![w].at = "smtp", ![w].mx = answer]
        /\ CacheSet(check[w].domain, answer)

(* A checker that is off answers at once; otherwise a miss is looked up.      *)
MxMiss(w) ==
    /\ check[w].at = "mx"
    /\ check' = [check EXCEPT ![w] = IF MxEnabled THEN [@ EXCEPT !.at = "lookup"]
                                     ELSE [@ EXCEPT !.at = "smtp", !.mx = "NOT_CHECKED"]]
    /\ mxCache' = IF MxEnabled THEN Without(check[w].domain) ELSE mxCache

(* The resolver tells records from none, or fails; a failure is cached too.   *)
MxLookup(w) ==
    /\ check[w].at = "lookup"
    /\ \E answer \in {IF MailHosts[check[w].domain] = <<>> THEN "FAIL" ELSE "PASS",
                      "INCONCLUSIVE"} :
        /\ check' = [check EXCEPT ![w].at = "smtp", ![w].mx = answer]
        /\ CacheSet(check[w].domain, answer)

-----------------------------------------------------------------------------
Ended(c, status, why) == [c EXCEPT !.at = "done", !.smtp = status, !.why = why]

(* Everything but a PASS makes the mailbox Invalid, an MX check that was not  *)
(* made or did not come to a result included; so does a resolver that fails   *)
(* when the hosts are looked up.                                              *)
SmtpStart(w) ==
    LET c == check[w]
    IN  /\ c.at = "smtp"
        /\ \E hosts \in {MailHosts[c.domain], <<>>} :
            check' = [check EXCEPT ![w] =
                IF ~SmtpVerify THEN Ended(c, "Not Checked", "smtp_disabled")
                ELSE IF c.mx # "PASS" THEN Ended(c, "Invalid", "mx")
                ELSE IF hosts = <<>> THEN Ended(c, "Invalid", "no_mx_hosts")
                ELSE [c EXCEPT !.at = "connect", !.smtp = "Inconclusive"]]
        /\ UNCHANGED mxCache

Connected == {w \in DOMAIN check : check[w].at = "session"}

Connect(w) ==
    /\ check[w].at = "connect"
    /\ Cardinality(Connected) < SmtpWorkers
    /\ check' = [check EXCEPT ![w].at = "session"]
    /\ UNCHANGED mxCache

(* A dialogue: the replies to the connection, to MAIL FROM, to RCPT and to    *)
(* RCPT with an address that does not exist; 0 for none.  A host that has     *)
(* taken one address refuses another for what it is; one that refuses the     *)
(* first may have other reasons, such as who asks.                            *)
Dialogues(id) ==
    {d \in [greeting : {220, 554, 0}, mail : {250, 451}, rcpt : {250, 550, 452},
            probe : {250, 550, 0}] :
        /\ d.rcpt = 250 => Mailbox[id] # "unknown"
        /\ d.probe = 250 => Mailbox[id] = "catchall"
        /\ d.probe = 550 => Mailbox[id] # "catchall"}

(* A slip: only the acceptance of the probe counts against the mailbox.       *)
CatchAllProbeTrusting(reply) == IF reply = 250 THEN "Catch-All" ELSE "Verified"
CatchAllProbe(reply) ==
    CASE reply = 250 -> "Catch-All"
      [] reply = 550 -> "Verified"
      [] OTHER       -> "Inconclusive"

SmtpTransaction(d) ==
    IF d.greeting # 220 THEN "Connection Failed"
    ELSE IF d.mail # 250 THEN "Inconclusive"
    ELSE CASE d.rcpt = 250 -> CatchAllProbe(d.probe)
           [] d.rcpt = 550 -> "Invalid"
           [] OTHER        -> "Inconclusive"

(* A verdict ends the check; otherwise the next host, and after the last one  *)
(* the next attempt, until the last status stands.                            *)
Transact(w) ==
    LET c == check[w]
        After(status) ==
            IF status \in {"Verified", "Invalid"} THEN Ended(c, status, "rcpt")
            ELSE IF c.host < Len(MailHosts[c.domain])
                 THEN [c EXCEPT !.at = "connect", !.host = @ + 1]
            ELSE IF c.attempt < SmtpRetries
                 THEN [c EXCEPT !.at = "connect", !.host = 1, !.attempt = @ + 1]
            ELSE Ended(c, status, "last")
    IN  /\ c.at = "session"
        /\ \E d \in Dialogues(c.id) :
               check' = [check EXCEPT ![w] = After(SmtpTransaction(d))]
        /\ UNCHANGED mxCache

CheckStep(w) ==
    \/ MxCached(w) \/ MxMiss(w) \/ MxLookup(w)
    \/ SmtpStart(w) \/ Connect(w) \/ Transact(w)
=============================================================================
