\* The eighteen tools of the registry, four configurations; no symmetry.
CONSTANT Configs <- MCConfigs
SPECIFICATION HomeSpec
INVARIANTS
  HomeFollowsConfig
  CardsLeadSomewhere
