----------------------------- MODULE BuildInfo -----------------------------
(***************************************************************************)
(* The provenance writer: Deploy.writeBuildInfo and the helpers it calls  *)
(* (commitHash, sysInfo) in the three deploy scripts, as operators from    *)
(* what the environment and the host tools give to what build-info.txt    *)
(* holds and whether the call raises.                                      *)
(*                                                                         *)
(* A line of the file is a record [key, val]: the key stands for its       *)
(* "Key:" prefix, the val for the value the code writes ("Unknown" for a   *)
(* placeholder, "" for an empty one).  The host-information block, the     *)
(* non-empty lines of a tool's output, is one "host" line.  A result is    *)
(* [lines, error]: the lines in the file when the call returns or raises, *)
(* and the exception ("none" when it returns).                            *)
(***************************************************************************)
EXTENDS Sequences

\* What a CI variable can be in os.environ: absent, present but empty, or
\* present with a value.
CIEnvs ==
    [travis : {"unset", "empty", "set"},     \* TRAVIS_BUILD_WEB_URL
     account : {"unset", "set"},             \* APPVEYOR_ACCOUNT_NAME
     project : {"unset", "set"},             \* APPVEYOR_PROJECT_NAME
     slug : {"unset", "set"},                \* APPVEYOR_PROJECT_SLUG
     job : {"unset", "set"}]                 \* APPVEYOR_JOB_ID

\* What `git rev-parse HEAD` gives: a hash, or '' (git missing, not a
\* repository, non-zero exit: commitHash catches all three).
GitOutcomes == {"hash", "fail"}

\* What the host tools do on the machine that runs the script.
HostTools ==
    [swVers : {"lines", "empty", "missing"},  \* sw_vers (macOS)
     release : {"lines", "empty"},            \* /etc/*-release files
     wine : {"ok", "missing"},                \* the wine executable
     wineVer : {"ver", "empty"},              \* `wine --version` output
     winVer : {"ver", "empty"}]               \* `wine cmd /c ver` output

Errors == {"none", "KeyError", "NoSwVers", "NoWine"}

Line(key, val) == [key |-> key, val |-> val]

Blank == Line("blank", "")

Result(lines, error) == [lines |-> lines, error |-> error]

\* Run block after r, as the next statements of the same function do: an
\* exception in r skips it.
Then(r, block) ==
    IF r.error # "none" THEN r
    ELSE Result(r.lines \o block.lines, block.error)

\* commitHash(), then `if len(commitHash) < 1: commitHash = 'Unknown'`.
CommitHashOf(git) == IF git = "hash" THEN "hash" ELSE "Unknown"

\* The buildLogUrl chain: TRAVIS_BUILD_WEB_URL wins when present (even
\* empty); otherwise the AppVeyor URL when ACCOUNT_NAME, PROJECT_NAME and
\* JOB_ID are present, formatted from APPVEYOR_PROJECT_SLUG, whose absence
\* raises KeyError.  The AppVeyor URL is never empty.
BuildLogUrl(env) ==
    IF env.travis = "set" THEN "travis"
    ELSE IF env.travis = "empty" THEN ""
    ELSE IF env.account = "set" /\ env.project = "set" /\ env.job = "set"
         THEN IF env.slug = "set" THEN "appveyor" ELSE "KeyError"
    ELSE ""

\* Mutant: the `if len(buildLogUrl) > 0` test dropped.
RepositoryInfoAlwaysUrl(git, env) ==
    LET commit == Line("commit", CommitHashOf(git))
        url == BuildLogUrl(env)
    IN  IF url = "KeyError" THEN Result(<<commit>>, "KeyError")
        ELSE Result(<<commit, Line("url", url), Blank>>, "none")

\* The `with open(depsInfoFile, 'w')` block: the commit line, the build
\* log line when buildLogUrl is not empty, a blank line.  The KeyError
\* leaves the commit line in the file (the with block closes it).
RepositoryInfo(git, env) ==
    LET commit == Line("commit", CommitHashOf(git))
        url == BuildLogUrl(env)
    IN  IF url = "KeyError" THEN Result(<<commit>>, "KeyError")
        ELSE Result(<<commit>>
                    \o (IF url = "" THEN <<>> ELSE <<Line("url", url)>>)
                    \o <<Blank>>, "none")

\* The append block writing the non-empty lines of sysInfo(), then a
\* blank line.
HostInfo(output) ==
    Result((IF output = "lines" THEN <<Line("host", "info")>> ELSE <<>>)
           \o <<Blank>>, "none")

\* deploy_mac.py sysInfo(): sw_vers, with no try, so a missing sw_vers
\* raises out of writeBuildInfo.
SysInfoMac(tools) ==
    IF tools.swVers = "missing" THEN Result(<<>>, "NoSwVers")
    ELSE HostInfo(tools.swVers)

\* deploy_mac.py writeBuildInfo().
WriteBuildInfoMac(git, env, tools) ==
    Then(RepositoryInfo(git, env), SysInfoMac(tools))

\* deploy_windows.py writeBuildInfo(): the repository block only; the
\* script's sysInfo() is never called.
WriteBuildInfoWindows(git, env, tools) == RepositoryInfo(git, env)

\* deploy_posix_windows.py writeBuildInfo(): repository block, the
\* release files, `wine --version` (Popen raises when wine is missing; an
\* empty version is written as is), `wine cmd /c ver` ('Unknown' when
\* empty), a blank line.
WriteBuildInfoPosixWindows(git, env, tools) ==
    LET wine ==
          IF tools.wine = "missing" THEN Result(<<>>, "NoWine")
          ELSE Result(<<Line("wine", IF tools.wineVer = "ver" THEN "ver" ELSE ""),
                        Line("winver", IF tools.winVer = "ver"
                                       THEN "ver" ELSE "Unknown"),
                        Blank>>, "none")
    IN  Then(Then(RepositoryInfo(git, env), HostInfo(tools.release)), wine)

=============================================================================
