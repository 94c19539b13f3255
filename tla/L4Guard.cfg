SPECIFICATION Spec
CONSTANTS
  Ips = {1}
  Family <- MCFamily
  Configs <- MCConfigs
  Decisions <- MCDecisions
  Envs <- MCEnvs
  Primary <- MCPrimary
  DockerUser <- MCDockerUser
  MaxReloads = 1
  MaxFaults = 1
  None = None
PROPERTIES DropEnforced DropLifted
CHECK_DEADLOCK FALSE
