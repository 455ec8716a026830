SPECIFICATION Spec
CONSTANTS
    Tasks = {t1, t2}
    Names = {s1, s2}
    npx = npx
    tools_npx = tools_npx
    bash = bash
    path = path
    token = token
    Commands <- MCCommands
    Basename <- MCBasename
    AllowedCommands <- MCAllowedCommands
    EnvVars <- MCEnvVars
    AllowedEnv <- MCAllowedEnv
    AllowDynamic = FALSE
    Tools = {list}
    None = None
SYMMETRY Symmetry
INVARIANT DiscoveryReturns
