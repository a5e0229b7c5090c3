-------------------------- MODULE AdminCredentials --------------------------
(***************************************************************************)
(* The administrator's password (loadOrCreateAdminCredentials in           *)
(* internal/app/admin.go and its caller in app.go).  A start without       *)
(* admin.json generates a password, creates the file exclusively, writes   *)
(* its hash and logs the password, which is kept nowhere else.             *)
(***************************************************************************)
CONSTANTS
    Passwords,  \* what randomToken(24) may return
    None        \* no password, no file, no cookie

ASSUME PasswordsAssumption == None \notin Passwords /\ "torn" \notin Passwords /\ None # "torn"

VARIABLES
    file,       \* admin.json: None, "torn" or the password whose hash it holds
    start,      \* how far this start of the server is
    own,        \* the password this start has generated
    held,       \* the password whose hash the running server compares with
    logged      \* passwords that any server has logged, without those of removed files

credentialVars == <<file, start, own, held, logged>>

\* A random password is none of those that are still in use.
Fresh == Passwords \ ({file, own, held} \union logged)

CredentialsInit ==
    /\ file = None
    /\ start = "down"
    /\ own = None
    /\ held = None
    /\ logged = {}

Serve(password) ==
    /\ start' = "serving"
    /\ held' = password

\* A complete file is decoded and nothing is generated; a torn one ends the start.
LoadFile ==
    /\ start = "down"
    /\ file \in Passwords
    /\ Serve(file)
    /\ UNCHANGED <<file, own, logged>>

\* ReadFile finds no file: a password is generated and hashed.
Generate ==
    /\ start = "down"
    /\ file = None
    /\ own' \in Fresh
    /\ start' = "generated"
    /\ UNCHANGED <<file, held, logged>>

\* Mutant of CreateFile: O_TRUNC in place of O_EXCL.
TruncateFile ==
    /\ start = "generated"
    /\ file' = "torn"
    /\ start' = "writing"
    /\ UNCHANGED <<own, held, logged>>

\* O_EXCL: the file is created, or another server's file is decoded and the
\* password generated here is never used.
CreateFile ==
    /\ start = "generated"
    /\ \/ file = None /\ file' = "torn" /\ start' = "writing" /\ UNCHANGED <<own, held>>
       \/ file \in Passwords /\ Serve(file) /\ own' = None /\ UNCHANGED file
       \/ file = "torn" /\ start' = "down" /\ own' = None /\ UNCHANGED <<file, held>>
    /\ UNCHANGED logged

\* The hash is written, synced and closed, or the start ends with an error.
WriteFile ==
    /\ start = "writing"
    /\ \/ file' = own /\ start' = "written" /\ UNCHANGED own
       \/ start' = "down" /\ own' = None /\ UNCHANGED file
    /\ UNCHANGED <<held, logged>>

\* The generated password is logged and the server serves.
LogPassword ==
    /\ start = "written"
    /\ logged' = logged \union {own}
    /\ Serve(own)
    /\ UNCHANGED <<file, own>>

\* The server ends or is killed.
Stop ==
    /\ start # "down"
    /\ start' = "down"
    /\ own' = None
    /\ held' = None
    /\ UNCHANGED <<file, logged>>

\* Another server started on the same path creates the file; it logs its
\* password unless it dies, and a file it had no time to write is torn.
Rival ==
    /\ file = None
    /\ \/ file' = "torn" /\ UNCHANGED logged
       \/ file' \in Fresh /\ (UNCHANGED logged \/ logged' = logged \union {file'})
    /\ UNCHANGED <<start, own, held>>

\* The operator rotates the password: the service is stopped, the file removed.
RemoveFile ==
    /\ start = "down"
    /\ file # None
    /\ file' = None
    /\ logged' = logged \ {file}
    /\ UNCHANGED <<start, own, held>>

StartStep ==
    LoadFile \/ Generate \/ CreateFile \/ WriteFile \/ LogPassword \/ Rival \/ RemoveFile
-----------------------------------------------------------------------------
\* Types; a serving server holds a password.
CredentialsTypeOK ==
    /\ file \in Passwords \union {None, "torn"}
    /\ start \in {"down", "generated", "writing", "written", "serving"}
    /\ own \in Passwords \union {None}
    /\ start \in {"generated", "writing", "written"} => own # None
    /\ held \in Passwords \union {None}
    /\ (start = "serving") = (held # None)
    /\ logged \subseteq Passwords

\* A password that any server has logged opens the next start too, until the
\* operator removes the file: whichever of two starts wins the file and wherever
\* one is killed, no logged password is lost and none is replaced.
LoggedPasswordsWork == logged \subseteq {file}
=============================================================================
