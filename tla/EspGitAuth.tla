------------------------------ MODULE EspGitAuth ------------------------------
(***************************************************************************)
(* esp_git/esp_git.c: how a command that talks to a server logs in.  libgit2 *)
(* calls back: for the server's certificate, and each time it is asked who    *)
(* it is.  One esp_git_auth_t counts the answers of one command.             *)
(***************************************************************************)
EXTENDS Naturals, Sequences

CONSTANTS Ports, Keys     \* 22 is one; host keys

VARIABLES
    url,        \* how it names the server: [ssh, user, port]
    stored,     \* what the device has: [key, token]
    known,      \* known_hosts' key of the host at each port, or "none"
    server,     \* its host key, what it asks for, what it takes
    step,       \* of libgit2's
    tries,      \* esp_git_auth_t's
    err,        \* what the callbacks say, "none" is nothing
    sent,       \* the answers so far
    refused     \* those of them the server refused

vars == <<url, stored, known, server, step, tries, err, sent, refused>>
world == <<url, stored, known, server>>

-----------------------------------------------------------------------------
(* The port that known_hosts is asked for                                   *)

(* Mistake: known_hosts has one key for each host. *)
UrlPortDefault == 22

UrlPort == url.port

Fails(what) == err' = what /\ step' = "failed" /\ UNCHANGED <<world, tries, sent, refused>>

(* esp_git_certificate_cb(): TLS is left to libgit2.                        *)
Certificate ==
    /\ step = "certificate"
    /\ LET k == known[UrlPort] IN
        \/ (~url.ssh \/ k = server.key) /\ step' = "login"
           /\ UNCHANGED <<world, tries, err, sent, refused>>
        \/ url.ssh /\ k = "none" /\ Fails("unknown host key")
        \/ url.ssh /\ k \notin {"none", server.key} /\ Fails("host key CHANGED")

(* libgit2 asks for a name first if the URL has none, over SSH.             *)
Allowed == IF url.ssh /\ ~url.user /\ sent = <<>> THEN {"username"} ELSE server.asks

Answered == tries > 0

Answer(what) ==
    /\ sent' = Append(sent, what) /\ step' = "sent" /\ tries' = tries + 1
    /\ UNCHANGED <<world, err, refused>>

(* esp_git_credentials_cb(), its tests in their order                       *)
Credentials ==
    /\ step = "login"
    /\ \/ Answered /\ Fails("authentication failed")
       \/ ~Answered /\ "username" \in Allowed /\ Answer("username")
       \/ ~Answered /\ "username" \notin Allowed /\ "key" \in Allowed
          /\ IF stored.key THEN Answer("key") ELSE Fails("no SSH key")
       \/ ~Answered /\ Allowed \cap {"username", "key"} = {} /\ "token" \in Allowed
          /\ IF stored.token THEN Answer("token") ELSE Fails("no token")
       \/ ~Answered /\ Allowed \cap {"username", "key", "token"} = {} /\ Fails("no such login")

(* A name alone is no login: libgit2 asks on.                               *)
Verdict ==
    /\ step = "sent"
    /\ LET last == sent[Len(sent)] IN
        \/ last = "username" /\ step' = "login" /\ UNCHANGED refused
        \/ last \in server.takes /\ step' = "in" /\ UNCHANGED refused
        \/ last \notin server.takes \cup {"username"} /\ step' = "login" /\ refused' = refused \cup {last}
    /\ UNCHANGED <<world, tries, err, sent>>

(* esp_git_auth_begin(): the next command, after the user has done something
   about it.                                                                *)
Begin ==
    /\ step \in {"in", "failed"}
    /\ url' \in {u \in [ssh : BOOLEAN, user : BOOLEAN, port : Ports] : u.ssh \/ u.port = 22}
    /\ stored' \in [key : BOOLEAN, token : BOOLEAN]
    /\ known' \in [Ports -> Keys \cup {"none"}]
    /\ step' = "certificate" /\ tries' = 0 /\ err' = "none" /\ sent' = <<>> /\ refused' = {}
    /\ UNCHANGED server

Init ==
    /\ url = [ssh |-> TRUE, user |-> TRUE, port |-> 22]
    /\ stored = [key |-> TRUE, token |-> FALSE] /\ known = [p \in Ports |-> "none"]
    /\ server \in [key : Keys, asks : SUBSET {"key", "token"}, takes : SUBSET {"key", "token"}]
    /\ step = "certificate" /\ tries = 0 /\ err = "none" /\ sent = <<>> /\ refused = {}

Next == Certificate \/ Credentials \/ Verdict \/ Begin

Spec == Init /\ [][Next]_vars

-----------------------------------------------------------------------------
(* The key and the token go only to a server whose key is the one known for
   its port, and neither a second time once refused: esp_git_certificate_cb()
   comes before esp_git_credentials_cb(), which counts.                     *)
SecretsAreKept ==
    /\ url.ssh /\ sent # <<>> => known[url.port] = server.key
    /\ \A i, j \in 1..Len(sent) : i < j => sent[i] # sent[j]

(* esp_git.c:72: "The first answer was refused: say what to check, and stop." *)
FailsOnlyIfRefused == err = "authentication failed" => refused # {}
=============================================================================
