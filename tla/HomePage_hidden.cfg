\* The comment on a key that Remote Config does not have.
CONSTANT Configs <- MCConfigs
SPECIFICATION HomeSpec
INVARIANT AbsentKeyVisible
CHECK_DEADLOCK FALSE
