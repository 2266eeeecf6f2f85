\* A builder that is killed while it copies leaves a part of a jar, which the
\* listing finds.
CONSTANTS
  Part <- MCPart
  Version <- MCVersion
  Broken <- MCBroken
  JavaVersions <- MCJavaVersions
  Requests <- MCRequests
  Jdk <- MCJdk
  Providable <- MCProvidable
SPECIFICATION Spec
INVARIANT ListedIsWhole
