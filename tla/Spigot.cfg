\* Attempts one after another, in production, in development and on the host.
CONSTANTS
  Part <- MCPart
  Version <- MCVersion
  Broken <- MCBroken
  JavaVersions <- MCJavaVersions
  Requests <- MCRequests
  Jdk <- MCJdk
  Providable <- MCProvidable
SPECIFICATION Spec
INVARIANTS SpigotTypeOK ArgsArrive JavaIsThere BuiltIsWhole PartialOnlyAfterKill
PROPERTY WholeJarsStay
