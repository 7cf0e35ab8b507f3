-------------------------------- MODULE EspSsh --------------------------------
(***************************************************************************)
(* esp_ssh/esp_ssh.c: SFTP and SCP.  Vim's task calls, one call at a time;  *)
(* one session is kept between calls and used again for the same user and   *)
(* host.  Whose key a host has to show is in known_hosts.                   *)
(***************************************************************************)
CONSTANTS
    Hosts,      \* user@host:port
    Keys,       \* their keys
    None        \* no session; no key in known_hosts

VARIABLES
    server,     \* the key each host has
    known,      \* known_hosts
    sess,       \* S.session with its S.sftp: to whom, by which key, and if it still works
    name,       \* S.user, S.host, S.port
    file,       \* what a get has put in the local file
    gone,       \* the remote tree last deleted
    accepted    \* history: the keys recorded at the user's word

remote == <<server, gone>>
vars == <<server, known, sess, name, file, gone, accepted>>

-----------------------------------------------------------------------------
(* open_session() *)

Session(h) == [host |-> h, key |-> server[h], alive |-> TRUE, sftp |-> FALSE]

Opened(rc, s, n, k) == [rc |-> rc, sess |-> s, name |-> n, known |-> k]

(* check_hostkey(), check_key(): with trust, a host not known yet is added.  *)
CheckKey(h, trust) ==
    CASE known[h] = server[h] -> "ok"
      [] known[h] \notin {server[h], None} -> "changed"
      [] known[h] = None /\ trust -> "add"
      [] OTHER -> "unknown"

(* Mistake: a session that was only to look at the key is kept. *)
OpensKept(h, stage, trust) ==
    IF sess # None /\ stage = 1 /\ name = h THEN {Opened("ok", sess, name, known)}
    ELSE LET k == CheckKey(h, trust)
             added == IF k = "add" THEN [known EXCEPT ![h] = server[h]] ELSE known
         IN {Opened("failed", None, name, known)} \cup
            (IF k \notin {"ok", "add"} THEN {Opened(k, None, name, known)}
             ELSE IF stage = 0 THEN {Opened("ok", Session(h), name, added)}
             ELSE {Opened("ok", Session(h), h, added)})

(* The cached one, or a new one: connected, its key checked and, in stage 1,
   its user authenticated, any of which may fail.                           *)
Opens(h, stage, trust) ==
    IF sess # None /\ stage = 1 /\ name = h THEN {Opened("ok", sess, name, known)}
    ELSE LET k == CheckKey(h, trust)
             added == IF k = "add" THEN [known EXCEPT ![h] = server[h]] ELSE known
         IN {Opened("failed", None, name, known)} \cup
            (IF k \notin {"ok", "add"} THEN {Opened(k, None, name, known)}
             ELSE IF stage = 0 THEN {Opened("ok", None, name, added)}
             ELSE {Opened("ok", Session(h), h, added)})

Keeps(o) == sess' = o.sess /\ name' = o.name /\ known' = o.known
Drops(o) == sess' = None /\ name' = o.name /\ known' = o.known

(* need_sftp(): S.sftp, if the session still works.                         *)
WithSftp(o) == [o EXCEPT !.sess.sftp = o.sess.sftp \/ o.sess.alive]

-----------------------------------------------------------------------------
(* The calls *)

(* esp_ssh_hostkey(), esp_ssh_trust(): nothing but the key.                  *)
Hostkey(h) ==
    /\ \E o \in Opens(h, 0, FALSE) : Keeps(o)
    /\ UNCHANGED <<remote, file, accepted>>

Trust(h) ==
    /\ \E o \in Opens(h, 0, TRUE) :
        /\ Keeps(o)
        /\ accepted' = accepted \cup
            (IF o.known # known THEN {<<h, server[h]>>} ELSE {})
    /\ UNCHANGED <<remote, file>>

Fails(o) == o.rc # "ok" /\ Keeps(o) /\ UNCHANGED file

(* esp_ssh_get() by SCP: a channel that is not opened, or any failure after,
   drops the session; an end before the length told is taken for the end.   *)
GetScp(h) ==
    /\ \E o \in Opens(h, 1, FALSE) :
        \/ Fails(o)
        \/ o.rc = "ok" /\ Drops(o) /\ UNCHANGED file
        \/ o.rc = "ok" /\ o.sess.alive /\ Keeps(o) /\ file' \in {"whole", "cut"}
    /\ UNCHANGED <<remote, accepted>>

(* ... by SFTP: an error is an error, but the session is kept.              *)
GetSftp(h) ==
    /\ \E o \in Opens(h, 1, FALSE) :
        \/ Fails(o)
        \/ o.rc = "ok" /\ Keeps(WithSftp(o))
           /\ (UNCHANGED file \/ (o.sess.alive /\ file' = "whole"))
    /\ UNCHANGED <<remote, accepted>>

(* esp_ssh_put(): only a channel that was opened drops the session.         *)
Put(h) ==
    /\ \E o \in Opens(h, 1, FALSE) :
        \/ o.rc # "ok" /\ Keeps(o)
        \/ o.rc = "ok" /\ (Keeps(o) \/ Keeps(WithSftp(o)) \/ Drops(o))
    /\ UNCHANGED <<remote, file, accepted>>

(* esp_ssh_list(), esp_ssh_mkdir(), esp_ssh_rename()                        *)
SftpCall(h) ==
    /\ \E o \in Opens(h, 1, FALSE) :
        Keeps(IF o.rc = "ok" THEN WithSftp(o) ELSE o)
    /\ UNCHANGED <<remote, file, accepted>>

(* The path of a URL, and with the slashes at its end taken away.           *)
Paths == {"", "/", ".", "./", "//", "dir", "dir/"}
Stripped(p) == CASE p = "./" -> "." [] p = "//" -> "/" [] p = "dir/" -> "dir" [] OTHER -> p

(* esp_ssh_remove(), remove_tree(): a home or a root is refused by its name;
   then all of the tree goes, or some of it.                                *)
Remove(h, p) ==
    /\ \E o \in Opens(h, 1, FALSE) :
        IF o.rc # "ok" THEN Keeps(o) /\ UNCHANGED gone
        ELSE /\ Keeps(WithSftp(o))
             /\ \/ UNCHANGED gone
                \/ o.sess.alive /\ p \notin {"", "/", "."} /\ gone' = Stripped(p)
    /\ UNCHANGED <<server, file, accepted>>

(* esp_ssh_disconnect()                                                     *)
Disconnect == sess' = None /\ UNCHANGED <<remote, known, name, file, accepted>>

-----------------------------------------------------------------------------
(* The others *)

(* The connection breaks, or the server ends it.                            *)
Break ==
    /\ sess # None /\ sess' = [sess EXCEPT !.alive = FALSE]
    /\ UNCHANGED <<remote, known, name, file, accepted>>

(* A host gets another key, or another host its address.                    *)
NewKey(h) ==
    /\ server' \in {[server EXCEPT ![h] = k] : k \in Keys}
    /\ UNCHANGED <<known, sess, name, file, gone, accepted>>

(* The user edits known_hosts.                                              *)
Forget(h) ==
    /\ known' = [known EXCEPT ![h] = None]
    /\ UNCHANGED <<remote, sess, name, file, accepted>>

Init ==
    /\ server \in [Hosts -> Keys] /\ known = [h \in Hosts |-> None]
    /\ sess = None /\ name = None /\ file = "old" /\ gone = None /\ accepted = {}

Call(h) == \/ Hostkey(h) \/ Trust(h) \/ GetScp(h) \/ GetSftp(h) \/ Put(h) \/ SftpCall(h)
           \/ \E p \in Paths : Remove(h, p)

Next == Disconnect \/ Break \/ \E h \in Hosts : Call(h) \/ NewKey(h) \/ Forget(h)

Spec == Init /\ [][Next]_vars

-----------------------------------------------------------------------------
TypeOK ==
    /\ server \in [Hosts -> Keys] /\ known \in [Hosts -> Keys \cup {None}]
    /\ sess \in {None} \cup
        [host : Hosts, key : Keys, alive : BOOLEAN, sftp : BOOLEAN]
    /\ name \in Hosts \cup {None} /\ file \in {"old", "whole", "cut"}

(* The session that calls go through is the one of the host they name, and
   the host showed a key there that the user once accepted for it.          *)
SessionIsWhoItSays ==
    sess # None => sess.host = name /\ <<sess.host, sess.key>> \in accepted

(* "A changed key ... is never accepted automatically" (esp_ssh.h): what
   known_hosts has of a host goes only by the user's hand.                  *)
KeysAreKept == [][\A h \in Hosts : known[h] # None => known'[h] \in {known[h], None}]_vars

(* "refusing to delete a home or root directory" (esp_ssh_remove())         *)
RefusesHome == gone \notin {".", "/"}
=============================================================================
