------------------------------ MODULE MCServer ------------------------------
(* Instances of Server: the options of the examples, others that share a    *)
(* method, and authorized keys files of up to two lines, a comment that is  *)
(* longer than the reader's buffer among them.                              *)
EXTENDS Server

MCConfigs == {MultiAuth, Identity, GracefulShutdown, <<WithField("address")>>, <<WithAuthorizedKeys>>,
              <<WithHostKeyPath("host"), WithTrustedUserCAKeys>>,
              <<WithAuthorizedKeys, WithTrustedUserCAKeys>>}

Cred(method, key, ca, valid) == [method |-> method, key |-> key, ca |-> ca, valid |-> valid]

MCCredentials == {Cred("publickey", 1, 0, TRUE), Cred("publickey", 3, 0, TRUE),
                  Cred("publickey", 0, 1, TRUE), Cred("publickey", 0, 1, FALSE),
                  Cred("password", 7, 0, TRUE), Cred("keyboard", 7, 0, TRUE), Cred("keyboard", 5, 0, TRUE)}

KeyLine(k) == Line("key", k, FALSE)
Junk == Line("junk", 0, FALSE)
Comment == Line("comment", 0, FALSE)
Rest(kind, k) == Line(kind, k, TRUE)

File(lines) == [there |-> TRUE, lines |-> lines]

MCFiles == {[there |-> FALSE, lines |-> <<>>], File(<<Comment, KeyLine(1)>>), File(<<KeyLine(2), KeyLine(1)>>),
            File(<<Junk, KeyLine(1)>>), File(<<Comment, Rest("junk", 0), KeyLine(1)>>),
            File(<<Comment, Rest("key", 3), KeyLine(1)>>), File(<<KeyLine(2)>>)}
=============================================================================
